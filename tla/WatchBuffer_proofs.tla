------------------------ MODULE WatchBuffer_proofs ------------------------
(***************************************************************************)
(* Proofs about WatchBuffer, for every tree of paths, every cap and any    *)
(* number of changes and failures: the type invariant, that no row behind  *)
(* the disk is forgotten between its report and the host, and that no      *)
(* thread sleeps through what it waits for.                                *)
(***************************************************************************)
EXTENDS WatchBuffer, TLAPS

Root1 == [name : Names, dead : BOOLEAN]

---------------------------------------------------------------------------
\* The operators on batches keep their shape.

LEMMA Single ==
  ASSUME NEW S, NEW x \in S
  PROVE  <<x>> \in Seq(S) /\ Len(<<x>>) = 1 /\ Head(<<x>>) = x
OBVIOUS

LEMMA Empty ==
  ASSUME NEW S
  PROVE  <<>> \in Seq(S) /\ Len(<<>>) = 0
OBVIOUS

LEMMA First ==
  ASSUME NEW S, NEW o \in Seq(S), o # <<>>
  PROVE  Head(o) \in S
OBVIOUS

LEMMA RootsIntro ==
  ASSUME NEW S \in SUBSET Paths, NEW f \in [S -> Root1]
  PROVE  f \in Roots
BY DEF Roots, Root1

LEMMA RootsElim ==
  ASSUME NEW f \in Roots
  PROVE  DOMAIN f \in SUBSET Paths /\ f \in [DOMAIN f -> Root1]
BY DEF Roots, Root1

LEMMA NothingTyped == NoRoots \in Roots /\ Nothing \in Batches
<1>1. NoRoots \in [{} -> Root1]
  BY DEF NoRoots
<1> QED BY <1>1, RootsIntro DEF Nothing, Batches

LEMMA NameTyped ==
  ASSUME NEW t \in Trees, NEW p \in Paths
  PROVE  Name(t, p) \in Names
<1>1. Upward(p) \subseteq Paths
  BY DEF Upward
<1>2. Name(t, p) \in [Upward(p) -> Spellings \cup {Gone}]
  BY <1>1 DEF Name, Trees
<1> QED BY <1>1, <1>2 DEF Names

LEMMA ReportTyped ==
  ASSUME NEW p \in Paths, NEW n \in Names, NEW d \in BOOLEAN
  PROVE  Root(p, n, d) \in Reports
<1>1. Root(p, n, d).root \in [{p} -> Root1]
  BY DEF Root, Root1
<1>2. Root(p, n, d).root \in Roots
  BY <1>1, RootsIntro
<1> QED BY <1>2 DEF Root, Reports

LEMMA PlainReportsTyped == Lost \in Reports /\ Anchor \in Reports
BY NothingTyped DEF Lost, Anchor, Reports

LEMMA NotedTyped ==
  ASSUME NEW f \in Roots, NEW g \in Roots
  PROVE  Noted(f, g) \in Roots /\ DOMAIN Noted(f, g) = DOMAIN f \cup DOMAIN g
<1> DEFINE D == DOMAIN f \cup DOMAIN g
<1>1. D \in SUBSET Paths /\ f \in [DOMAIN f -> Root1] /\ g \in [DOMAIN g -> Root1]
  BY RootsElim
<1>2. ASSUME NEW a \in Root1, NEW b \in Root1
      PROVE  Respelled(a, b) \in Root1
  BY <1>2 DEF Respelled, Root1
<1>3. ASSUME NEW p \in D
      PROVE  (IF p \notin DOMAIN g THEN f[p]
              ELSE IF p \notin DOMAIN f THEN g[p]
              ELSE Respelled(f[p], g[p])) \in Root1
  <2>1. CASE p \notin DOMAIN g
    BY <1>1, <1>3, <2>1
  <2>2. CASE p \in DOMAIN g /\ p \notin DOMAIN f
    BY <1>1, <2>2
  <2>3. CASE p \in DOMAIN g /\ p \in DOMAIN f
    <3>1. f[p] \in Root1 /\ g[p] \in Root1
      BY <1>1, <2>3
    <3> QED BY <3>1, <1>2, <2>3
  <2> QED BY <1>3, <2>1, <2>2, <2>3
<1>4. Noted(f, g) \in [D -> Root1]
  BY <1>3 DEF Noted
<1> QED BY <1>1, <1>4, RootsIntro

LEMMA BatchElim ==
  ASSUME NEW b \in Batches
  PROVE  b.roots \in Roots /\ b.rescan \in BOOLEAN
BY DEF Batches

LEMMA WidenedTyped ==
  ASSUME NEW b \in Batches
  PROVE  Widened(b) \in Batches /\ Widened(b).rescan
BY NothingTyped DEF Widened, Batches

LEMMA KeepingTyped ==
  ASSUME NEW b \in Batches, NEW S
  PROVE  /\ Keeping(b, S) \in Batches
         /\ Keeping(b, S).rescan = b.rescan
         /\ DOMAIN Keeping(b, S).roots = DOMAIN b.roots \cap S
<1> DEFINE k == [p \in DOMAIN b.roots \cap S |-> b.roots[p]]
<1>1. DOMAIN b.roots \in SUBSET Paths /\ b.roots \in [DOMAIN b.roots -> Root1]
  BY BatchElim, RootsElim
<1>2. k \in [DOMAIN b.roots \cap S -> Root1]
  BY <1>1
<1>3. k \in Roots
  BY <1>1, <1>2, RootsIntro
<1>4. Keeping(b, S).roots = k /\ Keeping(b, S) = [roots |-> k, rescan |-> b.rescan]
  BY DEF Keeping, Batches
<1> QED BY <1>3, <1>4, BatchElim DEF Batches

LEMMA ClosedTyped ==
  ASSUME NEW b \in Batches
  PROVE  Closed(b) \in Batches /\ Closed(b).rescan = b.rescan
BY KeepingTyped DEF Closed

LEMMA SuppressedTyped ==
  ASSUME NEW b \in Batches, NEW E
  PROVE  Suppressed(b, E) \in Batches
BY KeepingTyped, ClosedTyped DEF Suppressed

LEMMA MergeTyped ==
  ASSUME NEW b \in Batches, NEW c \in Batches
  PROVE  Merge(b, c) \in Batches
<1> DEFINE m == [roots |-> Noted(b.roots, c.roots), rescan |-> b.rescan \/ c.rescan]
<1>1. m \in Batches
  BY BatchElim, NotedTyped DEF Batches
<1>2. Closed(m) \in Batches /\ Widened(Closed(m)) \in Batches
  BY <1>1, ClosedTyped, WidenedTyped
<1> QED BY <1>2 DEF Merge

LEMMA AcceptedTyped ==
  ASSUME NEW b \in Batches, NEW f \in Roots
  PROVE  Accepted(b, f) \in Batches
<1>1. Noted(b.roots, f) \in Roots
  BY BatchElim, NotedTyped
<1>2. [b EXCEPT !.roots = Noted(b.roots, f)] \in Batches
  BY <1>1 DEF Batches
<1> QED BY <1>2, WidenedTyped DEF Accepted

LEMMA OrTyped ==
  ASSUME NEW o \in Seq(Batches)
  PROVE  Or(o, Nothing) \in Batches
BY NothingTyped DEF Or

LEMMA ReceivedTyped ==
  ASSUME ShapesOK, Receive
  PROVE  Received \in Batches
<1>1. CASE slot # <<>>
  <2>1. Head(slot) \in Messages
    BY <1>1, First DEF ShapesOK
  <2> QED BY <1>1, <2>1 DEF Received, Messages
<1>2. CASE slot = <<>>
  BY <1>2 DEF Received, Receive, ShapesOK
<1> QED BY <1>1, <1>2

---------------------------------------------------------------------------
\* The type invariant, one step per action.

LEMMA InitTyped == Init => ShapesOK
<1> SUFFICES ASSUME Init PROVE ShapesOK
  OBVIOUS
<1> USE NothingTyped, SpellingsAssumption DEF Init
<1>1. taken \in [before : Seq(Batches), during : Seq(Batches)]
      /\ Len(taken.before) <= 1 /\ Len(taken.during) <= 1
  BY DEF NotTaken
<1> QED BY <1>1 DEF ShapesOK, Trees

LEMMA ChangedTyped ==
  ASSUME ShapesOK,
         NEW t \in Trees, NEW behind \in SUBSET Paths, NEW rewritten,
         NEW sent \in Seq(Reports),
         Changed(t, behind, rewritten, sent)
  PROVE  ShapesOK'
<1>1. reports' \in Seq(Reports)
  BY DEF Changed, ShapesOK
<1>2. disturbances' \in Nat
  BY DEF Changed, Disturbance, ShapesOK
<1> QED BY <1>1, <1>2
        DEF Changed, ShapesOK, Trees, Reports, state, channels, worker, consumer

LEMMA WritersTyped == ShapesOK /\ Writers => ShapesOK'
<1> SUFFICES ASSUME ShapesOK, NEW p \in Paths,
                    Edit(p) \/ Rename(p) \/ Remove(p) \/ Arrive(p) \/ WriteOwn(p)
             PROVE  ShapesOK'
  BY DEF Writers
<1>0. tree \in Trees /\ Below(p) \cup {p} \in SUBSET Paths
  BY DEF ShapesOK, Trees, Below
<1>r. ASSUME NEW t \in Trees, NEW d \in BOOLEAN
      PROVE  Root(p, Name(t, p), d) \in Reports
  BY NameTyped, ReportTyped
<1>1. CASE Edit(p)
  <2>1. <<Root(p, Name(tree, p), FALSE)>> \in Seq(Reports)
    BY <1>0, <1>r, Single
  <2> QED BY <1>0, <1>1, <2>1, ChangedTyped DEF Edit
<1>2. CASE Rename(p)
  <2>1. PICK s \in Spellings \ {tree[p]}, order \in Orders :
          LET t == [tree EXCEPT ![p] = s]
              left    == Root(p, Name(tree, p), TRUE)
              arrived == Root(p, Name(t, p), FALSE)
          IN Changed(t, Below(p) \cup {p}, {},
                     IF order = "happened" THEN <<left, arrived>> ELSE <<arrived, left>>)
    BY <1>2 DEF Rename
  <2> DEFINE t == [tree EXCEPT ![p] = s]
             left    == Root(p, Name(tree, p), TRUE)
             arrived == Root(p, Name(t, p), FALSE)
             sent == IF order = "happened" THEN <<left, arrived>> ELSE <<arrived, left>>
  <2>2. t \in Trees
    BY <1>0 DEF Trees
  <2>3. left \in Reports /\ arrived \in Reports
    BY <1>0, <1>r, <2>2
  <2>4. sent \in Seq(Reports)
    <3> HIDE DEF left, arrived
    <3> QED BY <2>3
  <2>5. Changed(t, Below(p) \cup {p}, {}, sent)
    BY <2>1
  <2> HIDE DEF t, sent
  <2> QED BY <1>0, <2>2, <2>4, <2>5, ChangedTyped
<1>3. CASE Remove(p)
  <2> DEFINE t == [q \in Paths |-> IF p \in Upward(q) THEN Gone ELSE tree[q]]
  <2>1. t \in Trees
    BY <1>0 DEF Trees
  <2>2. <<Root(p, Name(tree, p), TRUE)>> \in Seq(Reports)
    BY <1>0, <1>r, Single
  <2>3. Changed(t, Below(p) \cup {p}, Below(p) \cup {p}, <<Root(p, Name(tree, p), TRUE)>>)
    BY <1>3 DEF Remove
  <2> HIDE DEF t
  <2> QED BY <1>0, <2>1, <2>2, <2>3, ChangedTyped
<1>4. CASE Arrive(p)
  <2>1. PICK s \in Spellings, whole \in BOOLEAN :
          LET t == [q \in Paths |-> IF q = p \/ (whole /\ q \in Below(p)) THEN s ELSE tree[q]]
          IN Changed(t, Below(p) \cup {p}, Below(p) \cup {p},
                     <<Root(p, Name(t, p), FALSE)>>)
    BY <1>4 DEF Arrive
  <2> DEFINE t == [q \in Paths |-> IF q = p \/ (whole /\ q \in Below(p)) THEN s ELSE tree[q]]
  <2>2. t \in Trees
    BY <1>0 DEF Trees
  <2>3. Changed(t, Below(p) \cup {p}, Below(p) \cup {p}, <<Root(p, Name(t, p), FALSE)>>)
    BY <2>1
  <2> HIDE DEF t
  <2>4. <<Root(p, Name(t, p), FALSE)>> \in Seq(Reports)
    BY <2>2, <1>r, Single
  <2> QED BY <1>0, <2>2, <2>3, <2>4, ChangedTyped
<1>5. CASE WriteOwn(p)
  <2>1. Root(p, Name(tree, p), FALSE) \in Reports
    BY <1>0, <1>r
  <2>2. reports' \in Seq(Reports)
    <3>1. reports' = Append(reports, Root(p, Name(tree, p), FALSE))
      BY <1>5 DEF WriteOwn
    <3>2. reports \in Seq(Reports)
      BY DEF ShapesOK
    <3>3. ASSUME NEW w \in Seq(Reports), NEW r \in Reports
          PROVE  Append(w, r) \in Seq(Reports)
      OBVIOUS
    <3> QED BY <2>1, <3>1, <3>2, <3>3, Zenon
  <2>3. disturbances' \in Nat /\ echo' \subseteq Leaves
    BY <1>5 DEF WriteOwn, Disturbance, ShapesOK
  <2> QED BY <1>5, <2>2, <2>3
          DEF WriteOwn, ShapesOK, state, channels, worker, consumer
<1> QED BY <1>1, <1>2, <1>3, <1>4, <1>5

LEMMA BackendTyped ==
  ShapesOK /\ (RootMoves \/ Overflow \/ BackendFails \/ Callback) => ShapesOK'
<1> SUFFICES ASSUME ShapesOK, RootMoves \/ Overflow \/ BackendFails \/ Callback
             PROVE  ShapesOK'
  OBVIOUS
<1> USE DEF disk, state, channels, worker, consumer
<1>1. CASE RootMoves
  <2>1. reports' \in Seq(Reports) /\ disturbances' \in Nat
    BY <1>1, PlainReportsTyped DEF RootMoves, Disturbance, ShapesOK
  <2> QED BY <1>1, <2>1 DEF RootMoves, ShapesOK
<1>2. CASE Overflow
  <2>1. reports' \in Seq(Reports) /\ disturbances' \in Nat
    BY <1>2, PlainReportsTyped DEF Overflow, Disturbance, ShapesOK
  <2> QED BY <1>2, <2>1 DEF Overflow, ShapesOK
<1>3. CASE BackendFails
  <2>1. disturbances' \in Nat
    BY <1>3 DEF BackendFails, Disturbance, ShapesOK
  <2> QED BY <1>3, <2>1 DEF BackendFails, ShapesOK
<1>4. CASE Ingest
  <2>1. Head(reports) \in Reports /\ reports' \in Seq(Reports)
    BY <1>4 DEF Ingest, ShapesOK
  <2>2. Or(pending, Nothing) \in Batches
    BY OrTyped DEF ShapesOK
  <2>3. /\ Accepted(Or(pending, Nothing), Head(reports).root) \in Batches
        /\ Widened(Or(pending, Nothing)) \in Batches
    BY <2>1, <2>2, AcceptedTyped, WidenedTyped DEF Reports
  <2>4. \/ pending' = <<Accepted(Or(pending, Nothing), Head(reports).root)>>
        \/ pending' = <<Widened(Or(pending, Nothing))>>
    BY <1>4, Zenon DEF Ingest
  <2>5. pending' \in Seq(Batches) /\ Len(pending') <= 1
    <3>1. CASE pending' = <<Accepted(Or(pending, Nothing), Head(reports).root)>>
      BY <2>3, <3>1
    <3>2. CASE pending' = <<Widened(Or(pending, Nothing))>>
      BY <2>3, <3>2
    <3> QED BY <2>4, <3>1, <3>2
  <2> QED BY <1>4, <2>1, <2>5 DEF Ingest, ShapesOK
<1>5. CASE Recheck
  <2>1. reports' \in Seq(Reports)
    BY <1>5 DEF Recheck, ShapesOK
  <2> QED BY <1>5, <2>1 DEF Recheck, ShapesOK
<1>6. CASE IngestRecheck
  BY <1>6 DEF IngestRecheck, ShapesOK
<1>7. CASE Ring
  BY <1>7 DEF Ring, ShapesOK
<1> QED BY <1>1, <1>2, <1>3, <1>4, <1>5, <1>6, <1>7 DEF Callback

LEMMA PlacingTyped ==
  ASSUME ShapesOK, NEW o \in Seq(Batches), Len(o) <= 1,
         NEW asleep \in SUBSET waiting, Placing(o, asleep)
  PROVE  /\ unplaced' \in Seq(Batches) /\ Len(unplaced') <= 1
         /\ slot' \in Seq(Messages) /\ Len(slot') <= 1
         /\ waiting' \subseteq {"coalescer", "host"}
         /\ coalescer' \in {"plan", "parked", "exited"}
<1>1. slot \in Seq(Messages) /\ Len(slot) <= 1
  BY DEF ShapesOK
<1>2. ASSUME o # <<>> PROVE [failed |-> FALSE, batch |-> Head(o)] \in Messages
  BY <1>2, First DEF Messages
<1>3. slot' \in Seq(Messages) /\ Len(slot') <= 1
  <2>1. slot' = slot \/ (o # <<>> /\ slot' = <<[failed |-> FALSE, batch |-> Head(o)]>>)
    BY Zenon DEF Placing
  <2>2. CASE slot' = slot
    BY <1>1, <2>2
  <2>3. CASE o # <<>> /\ slot' = <<[failed |-> FALSE, batch |-> Head(o)]>>
    BY <1>2, <2>3
  <2> QED BY <2>1, <2>2, <2>3
<1>4. unplaced' \in Seq(Batches) /\ Len(unplaced') <= 1
  <2>1. unplaced' = o \/ unplaced' = <<>>
    BY Zenon DEF Placing
  <2>2. CASE unplaced' = o
    BY <2>2
  <2>3. CASE unplaced' = <<>>
    BY <2>3
  <2> QED BY <2>1, <2>2, <2>3
<1>5. waiting' \subseteq {"coalescer", "host"}
  <2>1. waiting' \in {{}, asleep, asleep \cup {"coalescer"}}
    BY DEF Placing, Exits
  <2> QED BY <2>1 DEF ShapesOK
<1> QED BY <1>3, <1>4, <1>5, Zenon DEF Placing, Exits

LEMMA CoalescerTyped ==
  ShapesOK /\ (Coalesces \/ Oversleeps \/ Dies) => ShapesOK'
<1> SUFFICES ASSUME ShapesOK, Coalesces \/ Oversleeps \/ Dies
             PROVE  ShapesOK'
  OBVIOUS
<1> USE DEF disk, backend, state, channels, worker, consumer
<1>1. CASE Plan
  BY <1>1 DEF Plan, ShapesOK
<1>2. CASE Woken
  BY <1>2 DEF Woken, ShapesOK
<1>3. CASE Due
  BY <1>3 DEF Due, ShapesOK
<1>4. CASE Oversleeps
  BY <1>4 DEF Oversleeps, ShapesOK
<1>5. CASE Disconnected
  BY <1>5 DEF Disconnected, Exits, ShapesOK
<1>6. CASE TakeUp
  <2>1. /\ pending' = pending \/ pending' = <<>>
        /\ held' = held \/ (pending # <<>> /\ held' = Head(pending))
        /\ coalescer' \in {"erring", "suppressing", "plan"}
    BY <1>6, Zenon DEF TakeUp
  <2>2. /\ pending' \in Seq(Batches) /\ Len(pending') <= 1
        /\ held' \in Batches
    <3>1. CASE pending' = pending
      BY <2>1, <3>1, First DEF ShapesOK
    <3>2. CASE pending' = <<>>
      <4>1. held' \in Batches
        BY <2>1, First DEF ShapesOK
      <4> QED BY <3>2, <4>1
    <3> QED BY <2>1, <3>1, <3>2
  <2> QED BY <1>6, <2>1, <2>2 DEF TakeUp, ShapesOK
<1>7. CASE SendTerminal
  <2>1. slot' \in Seq(Messages) /\ Len(slot') <= 1
    <3>1. [failed |-> TRUE, batch |-> Nothing] \in Messages
      BY NothingTyped DEF Messages
    <3>2. slot' = slot \/ slot' = <<[failed |-> TRUE, batch |-> Nothing]>>
      BY <1>7, Zenon DEF SendTerminal
    <3>3. CASE slot' = slot
      BY <3>3 DEF ShapesOK
    <3>4. CASE slot' = <<[failed |-> TRUE, batch |-> Nothing]>>
      BY <3>1, <3>4
    <3> QED BY <3>2, <3>3, <3>4
  <2> QED BY <1>7, <2>1 DEF SendTerminal, Exits, ShapesOK
<1>8. CASE Suppress
  <2>1. held' \in Batches
    BY <1>8, SuppressedTyped DEF Suppress, ShapesOK
  <2> QED BY <1>8, <2>1 DEF Suppress, ShapesOK
<1>9. CASE HandOver
  <2>1. <<held>> \in Seq(Batches) /\ Len(<<held>>) <= 1
    BY DEF ShapesOK
  <2>2. Placing(<<held>>, {})
    BY <1>9 DEF HandOver
  <2> QED BY <1>9, <2>1, <2>2, PlacingTyped, NothingTyped DEF HandOver, ShapesOK
<1>10. CASE Resume
  <2>1. unplaced \in Seq(Batches) /\ Len(unplaced) <= 1 /\ Placing(unplaced, waiting)
    BY <1>10 DEF Resume, ShapesOK
  <2> QED BY <1>10, <2>1, PlacingTyped DEF Resume, ShapesOK
<1>11. CASE Dies
  <2>1. disturbances' \in Nat
    BY <1>11 DEF Dies, Disturbance, ShapesOK
  <2> QED BY <1>11, <2>1, NothingTyped DEF Dies, Exits, ShapesOK
<1> QED BY <1>1, <1>2, <1>3, <1>4, <1>5, <1>6, <1>7, <1>8, <1>9, <1>10, <1>11
        DEF Coalesces

LEMMA HostTyped ==
  ShapesOK /\ (Polls \/ Absorb \/ BeginHeal \/ Heals \/ Leave \/ Closes) => ShapesOK'
<1> SUFFICES ASSUME ShapesOK, Polls \/ Absorb \/ BeginHeal \/ Heals \/ Leave \/ Closes
             PROVE  ShapesOK'
  OBVIOUS
<1> USE DEF disk, backend, state, channels, worker, consumer
<1>r. ASSUME Receive
      PROVE  /\ slot' \in Seq(Messages) /\ Len(slot') <= 1
             /\ unplaced' \in Seq(Batches) /\ Len(unplaced') <= 1
             /\ waiting' = {}
  <2>1. /\ slot' = slot \/ slot' = <<>>
        /\ unplaced' = unplaced \/ unplaced' = <<>>
        /\ waiting' = {}
    BY <1>r, Zenon DEF Receive
  <2>2. slot' \in Seq(Messages) /\ Len(slot') <= 1
    <3>1. CASE slot' = slot
      BY <3>1 DEF ShapesOK
    <3>2. CASE slot' = <<>>
      BY <3>2
    <3> QED BY <2>1, <3>1, <3>2
  <2>3. unplaced' \in Seq(Batches) /\ Len(unplaced') <= 1
    <3>1. CASE unplaced' = unplaced
      BY <3>1 DEF ShapesOK
    <3>2. CASE unplaced' = <<>>
      BY <3>2
    <3> QED BY <2>1, <3>1, <3>2
  <2> QED BY <2>1, <2>2, <2>3
<1>f. ASSUME ReceiveFails
      PROVE  slot' \in Seq(Messages) /\ Len(slot') <= 1
  <2>1. slot' = slot \/ slot' = <<>>
    BY <1>f, Zenon DEF ReceiveFails
  <2>2. CASE slot' = slot
    BY <2>2 DEF ShapesOK
  <2>3. CASE slot' = <<>>
    BY <2>3
  <2> QED BY <2>1, <2>2, <2>3
<1>m. ASSUME Receive, observed' = Merge(observed, Received)
      PROVE  observed' \in Batches
  BY <1>m, ReceivedTyped, MergeTyped DEF ShapesOK
<1>1. CASE Reconcile
  <2>1. CASE ~IsEmpty(observed)
    BY <1>1, <2>1, NothingTyped DEF Reconcile, ShapesOK
  <2>2. CASE IsEmpty(observed)
    BY <1>1, <2>2, <1>r DEF Reconcile, ShapesOK
  <2> QED BY <2>1, <2>2
<1>2. CASE PollFails
  BY <1>2, <1>f DEF PollFails, ShapesOK
<1>3. CASE Absorb
  BY <1>3, <1>r, <1>m DEF Absorb, ShapesOK
<1>4. CASE BeginHeal
  BY <1>4 DEF BeginHeal, ShapesOK
<1>5. CASE Drain
  BY <1>5, <1>r, <1>m DEF Drain, ShapesOK
<1>6. CASE DrainEnds
  <2>1. slot' \in Seq(Messages) /\ Len(slot') <= 1
    BY <1>6, <1>f DEF DrainEnds, ShapesOK
  <2> QED BY <1>6, <2>1 DEF DrainEnds, ShapesOK
<1>7. CASE CheckAnchor
  BY <1>7 DEF CheckAnchor, ShapesOK
<1>8. CASE FinishWaits
  BY <1>8 DEF FinishWaits, ShapesOK
<1>9. CASE FinishTakes
  <2>1. /\ taken' \in [before : Seq(Batches), during : Seq(Batches)]
        /\ Len(taken'.before) <= 1 /\ Len(taken'.during) <= 1
    BY <1>9 DEF FinishTakes, ShapesOK
  <2> QED BY <1>9, <2>1 DEF FinishTakes, ShapesOK
<1>10. CASE FinishMerges
  <2>1. Or(taken.before, Nothing) \in Batches /\ Or(taken.during, Nothing) \in Batches
    BY OrTyped DEF ShapesOK
  <2>2. observed' \in Batches
    <3>1. PICK E \in SUBSET echo :
            observed' = Merge(observed,
                          Merge(Or(taken.before, Nothing),
                                Suppressed(Or(taken.during, Nothing), E)))
      BY <1>10 DEF FinishMerges
    <3>2. Suppressed(Or(taken.during, Nothing), E) \in Batches
      BY <2>1, SuppressedTyped
    <3>3. Merge(Or(taken.before, Nothing),
                Suppressed(Or(taken.during, Nothing), E)) \in Batches
      BY <2>1, <3>2, MergeTyped
    <3> QED BY <3>1, <3>3, MergeTyped DEF ShapesOK
  <2>3. /\ taken' \in [before : Seq(Batches), during : Seq(Batches)]
        /\ Len(taken'.before) <= 1 /\ Len(taken'.during) <= 1
    BY <1>10 DEF FinishMerges, NotTaken
  <2> QED BY <1>10, <2>2, <2>3 DEF FinishMerges, ShapesOK
<1>10a. CASE FinishWakes
  BY <1>10a DEF FinishWakes, ShapesOK
<1>11. CASE Leave
  BY <1>11 DEF Leave, ShapesOK
<1>12. CASE DropReceiver
  BY <1>12 DEF DropReceiver, ShapesOK
<1>13. CASE Unsubscribe
  BY <1>13 DEF Unsubscribe, ShapesOK
<1>14. CASE Join
  BY <1>14 DEF Join, ShapesOK
<1> QED BY <1>1, <1>2, <1>3, <1>4, <1>5, <1>6, <1>7, <1>8, <1>9, <1>10, <1>10a,
           <1>11, <1>12, <1>13, <1>14 DEF Polls, Heals, Closes

LEMMA StutterTyped == ShapesOK /\ UNCHANGED vars => ShapesOK'
BY DEF ShapesOK, vars, disk, backend, state, channels, worker, consumer

LEMMA FlagsKept == FlagsOK /\ [Next]_vars => FlagsOK'
<1> SUFFICES ASSUME FlagsOK, [Next]_vars PROVE FlagsOK'
  OBVIOUS
<1> USE DEF FlagsOK, disk, backend, state, channels, worker, consumer
<1>1. CASE Writers
  <2>1. ASSUME NEW t, NEW behind, NEW rewritten, NEW sent,
               Changed(t, behind, rewritten, sent)
        PROVE  FlagsOK'
    BY <2>1, Zenon DEF Changed
  <2>2. ASSUME NEW p \in Paths, WriteOwn(p)
        PROVE  FlagsOK'
    BY <2>2, Zenon DEF WriteOwn
  <2> HIDE DEF FlagsOK
  <2> QED BY <1>1, <2>1, <2>2 DEF Writers, Edit, Rename, Remove, Arrive
<1>2. CASE RootMoves
  BY <1>2, Zenon DEF RootMoves
<1>3. CASE Overflow
  BY <1>3, Zenon DEF Overflow
<1>4. CASE BackendFails
  BY <1>4, Zenon DEF BackendFails
<1>5. CASE Callback
  <2>1. CASE Ingest \/ Recheck \/ IngestRecheck
    BY <2>1, Zenon DEF Ingest, Recheck, IngestRecheck
  <2>2. CASE Ring
    BY <2>2, Zenon DEF Ring
  <2> QED BY <1>5, <2>1, <2>2, Zenon DEF Callback
<1>6. CASE Coalesces
  <2>0. ASSUME NEW o, NEW asleep, Placing(o, asleep)
        PROVE  closing' \in BOOLEAN
    BY <2>0, Zenon DEF Placing, Exits
  <2>1. CASE Plan \/ Woken \/ Due
    BY <2>1, Zenon DEF Plan, Woken, Due
  <2>2. CASE Disconnected \/ SendTerminal
    BY <2>2, Zenon DEF Disconnected, SendTerminal, Exits
  <2>3. CASE TakeUp
    BY <2>3, Zenon DEF TakeUp
  <2>4. CASE Suppress
    BY <2>4, Zenon DEF Suppress
  <2>5. CASE HandOver
    BY <2>0, <2>5, Zenon DEF HandOver
  <2>6. CASE Resume
    BY <2>0, <2>6, Zenon DEF Resume
  <2> QED BY <1>6, <2>1, <2>2, <2>3, <2>4, <2>5, <2>6, Zenon DEF Coalesces
<1>7. CASE Oversleeps
  BY <1>7, Zenon DEF Oversleeps
<1>8. CASE Dies
  BY <1>8, Zenon DEF Dies, Exits
<1>9. CASE Polls \/ Absorb
  <2>1. CASE Reconcile
    BY <2>1, Zenon DEF Reconcile
  <2>2. CASE PollFails
    BY <2>2, Zenon DEF PollFails
  <2>3. CASE Absorb
    BY <2>3, Zenon DEF Absorb
  <2> QED BY <1>9, <2>1, <2>2, <2>3, Zenon DEF Polls
<1>10. CASE BeginHeal
  BY <1>10, Zenon DEF BeginHeal
<1>11. CASE Heals
  <2>1. CASE Drain
    BY <2>1, Zenon DEF Drain
  <2>2. CASE DrainEnds
    BY <2>2, Zenon DEF DrainEnds
  <2>3. CASE CheckAnchor
    BY <2>3, Zenon DEF CheckAnchor
  <2>4. CASE FinishWaits
    BY <2>4, Zenon DEF FinishWaits
  <2>5. CASE FinishTakes
    BY <2>5, Zenon DEF FinishTakes
  <2>6. CASE FinishWakes
    BY <2>6, Zenon DEF FinishWakes
  <2>6a. CASE FinishMerges
    BY <2>6a, Zenon DEF FinishMerges
  <2> QED BY <1>11, <2>1, <2>2, <2>3, <2>4, <2>5, <2>6, <2>6a, Zenon DEF Heals
<1>12. CASE Leave
  BY <1>12, Zenon DEF Leave
<1>13. CASE Closes
  <2>1. CASE DropReceiver
    BY <2>1, Zenon DEF DropReceiver
  <2>2. CASE Unsubscribe
    BY <2>2, Zenon DEF Unsubscribe
  <2>3. CASE Join
    BY <2>3, Zenon DEF Join
  <2> QED BY <1>13, <2>1, <2>2, <2>3, Zenon DEF Closes
<1>14. CASE UNCHANGED vars
  BY <1>14, Zenon DEF vars
<1> HIDE DEF FlagsOK
<1> QED BY <1>1, <1>2, <1>3, <1>4, <1>5, <1>6, <1>7, <1>8, <1>9, <1>10, <1>11,
           <1>12, <1>13, <1>14 DEF Next

\* Every variable keeps its shape: no report, no batch and no merge of two is
\* ever of a form another of the threads cannot take.
THEOREM WatchTyped == Spec => []TypeOK
<1>0. Init => FlagsOK
  BY Zenon DEF Init, FlagsOK
<1>1. ShapesOK /\ [Next]_vars => ShapesOK'
  BY WritersTyped, BackendTyped, CoalescerTyped, HostTyped, StutterTyped DEF Next
<1>2. Init => TypeOK
  BY <1>0, InitTyped DEF TypeOK
<1>3. TypeOK /\ [Next]_vars => TypeOK'
  BY <1>1, FlagsKept DEF TypeOK
<1> QED BY <1>2, <1>3, PTL DEF Spec

---------------------------------------------------------------------------
\* The inductive invariant.

\* A batch answers for a path where it holds a root that reaches it and that
\* no suppression may take for an echo: an echo's root is the path itself.
Answers(e, b, p) == b.rescan \/ \E q \in DOMAIN b.roots \cap Upward(p) : q \notin e
Holds(o, p) == o # <<>> /\ Answers(echo, Head(o), p)
Reported(p) == \E i \in DOMAIN reports : Answers(echo, Carries(reports[i]), p)

Carried(p) ==
  \/ Reported(p)
  \/ Holds(pending, p)
  \/ Answers(echo, held, p)
  \/ Holds(unplaced, p)
  \/ slot # <<>> /\ Answers(echo, Head(slot).batch, p)
  \/ Holds(taken.before, p) \/ Holds(taken.during, p)
  \/ Answers(echo, observed, p)

Kept == Covered /\ ~died => \A p \in stale : Carried(p)

\* Each place is empty but while its thread stands where it fills it.
Busy == {"suppressing", "handing"}
Standing ==
  /\ coalescer \notin Busy => held = Nothing
  /\ closing <=> coalescer \in Busy
  /\ unplaced # <<>> => coalescer \in {"parked", "exited"}
  /\ host \notin {"waking", "merging"} => taken = NotTaken
  /\ Covered => receiver /\ ~unsubscribed
  /\ slot # <<>> /\ Head(slot).failed =>
       Head(slot).batch = Nothing /\ coalescer = "exited"
  /\ \A i \in DOMAIN reports : reports[i].kind = "anchor" => reports[i].root = NoRoots

---------------------------------------------------------------------------
\* Each place is empty but while its thread stands where it fills it.

HeldStands ==
  /\ coalescer \notin Busy => held = Nothing
  /\ closing <=> coalescer \in Busy
  /\ unplaced # <<>> => coalescer \in {"parked", "exited"}
TakenStands == host \notin {"waking", "merging"} => taken = NotTaken
ReceiverStands == Covered => receiver /\ ~unsubscribed
SlotStands ==
  slot # <<>> /\ Head(slot).failed => Head(slot).batch = Nothing /\ coalescer = "exited"
ReportsStand ==
  \A i \in DOMAIN reports : reports[i].kind = "anchor" => reports[i].root = NoRoots

LEMMA StandingInit == Init => Standing
<1> SUFFICES ASSUME Init PROVE Standing
  OBVIOUS
<1>1. HeldStands
  BY DEF Init, HeldStands, Busy
<1>2. TakenStands /\ ReceiverStands /\ SlotStands
  BY DEF Init, TakenStands, ReceiverStands, SlotStands, Covered
<1>3. ReportsStand
  BY DEF Init, ReportsStand
<1> QED BY <1>1, <1>2, <1>3, Zenon
        DEF HeldStands, TakenStands, ReceiverStands, SlotStands, ReportsStand, Standing

LEMMA HeldKept == HeldStands /\ [Next]_vars => HeldStands'
<1> SUFFICES ASSUME HeldStands, [Next]_vars PROVE HeldStands'
  OBVIOUS
<1> USE DEF disk, backend, state, channels, worker, consumer
<1>0. ASSUME UNCHANGED <<coalescer, held, closing>>, unplaced' = unplaced \/ unplaced' = <<>>
      PROVE  HeldStands'
  BY <1>0, Zenon DEF HeldStands
<1>1. CASE Writers
  <2>1. UNCHANGED <<coalescer, held, closing, unplaced>>
    BY <1>1, Zenon DEF Writers, Edit, Rename, Remove, Arrive, WriteOwn, Changed
  <2> QED BY <1>0, <2>1
<1>2. CASE RootMoves \/ Overflow \/ BackendFails \/ Callback
  BY <1>0, <1>2, Zenon DEF RootMoves, Overflow, BackendFails, Callback, Ingest, Recheck, IngestRecheck, Ring
<1>3. CASE Plan
  BY <1>3 DEF Plan, HeldStands, Busy
<1>4. CASE Woken \/ Due \/ Oversleeps
  BY <1>4 DEF Woken, Due, Oversleeps, HeldStands, Busy
<1>5. CASE Disconnected \/ SendTerminal
  BY <1>5 DEF Disconnected, SendTerminal, Exits, HeldStands, Busy
<1>6. CASE TakeUp
  <2>0. coalescer = "take" /\ coalescer \notin Busy
    BY <1>6 DEF TakeUp, Busy
  <2>1. ~closing /\ held = Nothing /\ UNCHANGED unplaced
    BY <1>6, <2>0, Zenon DEF TakeUp, HeldStands
  <2>2. unplaced = <<>>
    BY <2>0 DEF HeldStands
  <2>3. \/ coalescer' = "suppressing" /\ closing'
        \/ coalescer' \in {"erring", "plan"} /\ ~closing' /\ held' = held
    BY <1>6, <2>1, Zenon DEF TakeUp
  <2> QED BY <2>1, <2>2, <2>3 DEF HeldStands, Busy
<1>7. CASE Suppress
  BY <1>7 DEF Suppress, HeldStands, Busy
<1>8. CASE Dies
  BY <1>8 DEF Dies, Exits, HeldStands, Busy
<1>9. CASE HandOver
  <2>1. ~closing' /\ coalescer' \in {"plan", "parked", "exited"}
        /\ (unplaced' # <<>> => coalescer' \in {"parked", "exited"})
    BY <1>9, Zenon DEF HandOver, Placing, Exits
  <2>2. held' = Nothing
    BY <1>9 DEF HandOver
  <2> QED BY <2>1, <2>2 DEF HeldStands, Busy
<1>10. CASE Resume
  <2>1. ~closing' /\ coalescer' \in {"plan", "parked", "exited"}
        /\ (unplaced' # <<>> => coalescer' \in {"parked", "exited"})
    BY <1>10, Zenon DEF Resume, Placing, Exits
  <2>2. held' = Nothing
    BY <1>10 DEF Resume, HeldStands, Busy
  <2> QED BY <2>1, <2>2 DEF HeldStands, Busy
<1>11. CASE Polls \/ Absorb
  BY <1>0, <1>11, Zenon DEF Polls, Reconcile, PollFails, Absorb, Receive
<1>12. CASE BeginHeal \/ Leave \/ Closes
  BY <1>0, <1>12, Zenon DEF BeginHeal, Leave, Closes, DropReceiver, Unsubscribe, Join
<1>13. CASE Heals
  <2>1. UNCHANGED <<coalescer, held, closing>> /\ (unplaced' = unplaced \/ unplaced' = <<>>)
    <3>1. CASE Drain
      BY <3>1, Zenon DEF Drain, Receive
    <3>2. CASE DrainEnds \/ CheckAnchor \/ FinishWaits
      BY <3>2, Zenon DEF DrainEnds, CheckAnchor, FinishWaits
    <3>3. CASE FinishTakes
      BY <3>3, Zenon DEF FinishTakes
    <3>4. CASE FinishWakes
      BY <3>4, Zenon DEF FinishWakes
    <3>4a. CASE FinishMerges
      BY <3>4a, Zenon DEF FinishMerges
    <3> QED BY <1>13, <3>1, <3>2, <3>3, <3>4, <3>4a DEF Heals
  <2> QED BY <1>0, <2>1
<1>14. CASE UNCHANGED vars
  BY <1>0, <1>14, Zenon DEF vars
<1> QED BY <1>1, <1>2, <1>3, <1>4, <1>5, <1>6, <1>7, <1>8, <1>9, <1>10, <1>11, <1>12,
           <1>13, <1>14 DEF Next, Coalesces

LEMMA TakenKept == TakenStands /\ [Next]_vars => TakenStands'
<1> SUFFICES ASSUME TakenStands, [Next]_vars PROVE TakenStands'
  OBVIOUS
<1> USE DEF disk, backend, state, channels, worker, consumer
<1>0. ASSUME UNCHANGED taken, host' = host \/ (host \notin {"waking", "merging"} /\ host' \notin {"waking", "merging"})
      PROVE  TakenStands'
  BY <1>0 DEF TakenStands
<1>1. CASE Writers \/ RootMoves \/ Overflow \/ BackendFails \/ Callback
  <2>1. UNCHANGED <<host, taken>>
    BY <1>1, Zenon DEF Writers, Edit, Rename, Remove, Arrive, WriteOwn, Changed, RootMoves,
       Overflow, BackendFails, Callback, Ingest, Recheck, IngestRecheck, Ring
  <2> QED BY <1>0, <2>1
<1>2. CASE Coalesces \/ Oversleeps \/ Dies
  <2>1. UNCHANGED <<host, taken>>
    BY <1>2, Zenon DEF Coalesces, Plan, Woken, Due, Disconnected, TakeUp, SendTerminal,
       Suppress, HandOver, Resume, Oversleeps, Dies
  <2> QED BY <1>0, <2>1
<1>3. CASE Polls \/ Absorb \/ BeginHeal \/ Leave \/ Closes
  BY <1>0, <1>3 DEF Polls, Reconcile, PollFails, Absorb, BeginHeal, Leave, Closes,
                    DropReceiver, Unsubscribe, Join
<1>4. CASE Drain \/ DrainEnds \/ CheckAnchor \/ FinishWaits
  BY <1>0, <1>4 DEF Drain, DrainEnds, CheckAnchor, FinishWaits
<1>5. CASE FinishTakes
  BY <1>5 DEF FinishTakes, TakenStands
<1>6. CASE FinishWakes \/ FinishMerges
  BY <1>6 DEF FinishWakes, FinishMerges, TakenStands
<1>7. CASE UNCHANGED vars
  BY <1>0, <1>7 DEF vars
<1> QED BY <1>1, <1>2, <1>3, <1>4, <1>5, <1>6, <1>7 DEF Next, Heals

LEMMA ReceiverKept == ReceiverStands /\ [Next]_vars => ReceiverStands'
<1> SUFFICES ASSUME ReceiverStands, [Next]_vars PROVE ReceiverStands'
  OBVIOUS
<1> USE DEF disk, backend, state, channels, worker, consumer
<1>0. ASSUME UNCHANGED <<receiver, unsubscribed>>, Covered' => Covered
      PROVE  ReceiverStands'
  BY <1>0, Zenon DEF ReceiverStands
<1>1. CASE Writers \/ RootMoves \/ Overflow \/ BackendFails \/ Callback
  <2>1. UNCHANGED <<host, receiver, unsubscribed>>
    BY <1>1, Zenon DEF Writers, Edit, Rename, Remove, Arrive, WriteOwn, Changed, RootMoves,
       Overflow, BackendFails, Callback, Ingest, Recheck, IngestRecheck, Ring
  <2> QED BY <1>0, <2>1, Zenon DEF Covered
<1>2. CASE Coalesces \/ Oversleeps \/ Dies
  <2>1. UNCHANGED <<host, receiver, unsubscribed>>
    BY <1>2, Zenon DEF Coalesces, Plan, Woken, Due, Disconnected, TakeUp, SendTerminal,
       Suppress, HandOver, Resume, Oversleeps, Dies
  <2> QED BY <1>0, <2>1, Zenon DEF Covered
<1>3. CASE Polls \/ Absorb \/ BeginHeal \/ Leave \/ Heals
  <2>1. UNCHANGED <<receiver, unsubscribed>>
    <3>1. CASE Polls \/ Absorb \/ BeginHeal \/ Leave
      BY <3>1, Zenon DEF Polls, Reconcile, PollFails, Absorb, BeginHeal, Leave
    <3>2. CASE Drain \/ DrainEnds \/ CheckAnchor \/ FinishWaits
      BY <3>2, Zenon DEF Drain, DrainEnds, CheckAnchor, FinishWaits
    <3>3. CASE FinishTakes
      BY <3>3, Zenon DEF FinishTakes
    <3>4. CASE FinishWakes
      BY <3>4, Zenon DEF FinishWakes
    <3>4a. CASE FinishMerges
      BY <3>4a, Zenon DEF FinishMerges
    <3> QED BY <1>3, <3>1, <3>2, <3>3, <3>4, <3>4a DEF Heals
  <2>2. Covered
    BY <1>3 DEF Polls, Reconcile, PollFails, Absorb, BeginHeal, Leave, Heals, Drain,
       DrainEnds, CheckAnchor, FinishWaits, FinishTakes, FinishWakes, FinishMerges, Covered
  <2> QED BY <1>0, <2>1, <2>2, Zenon
<1>4. CASE Closes
  <2>1. ~Covered'
    BY <1>4 DEF Closes, DropReceiver, Unsubscribe, Join, Covered
  <2> QED BY <2>1, Zenon DEF ReceiverStands
<1>5. CASE UNCHANGED vars
  BY <1>0, <1>5, Zenon DEF vars, Covered
<1> QED BY <1>1, <1>2, <1>3, <1>4, <1>5 DEF Next

LEMMA SlotKept == SlotStands /\ [Next]_vars => SlotStands'
<1> SUFFICES ASSUME SlotStands, [Next]_vars PROVE SlotStands'
  OBVIOUS
<1> USE DEF disk, backend, state, channels, worker, consumer
<1>0. ASSUME slot' = slot \/ slot' = <<>>, coalescer = "exited" => coalescer' = "exited"
      PROVE  SlotStands'
  BY <1>0, Zenon DEF SlotStands
<1>p. ASSUME NEW o, NEW asleep, Placing(o, asleep), coalescer # "exited"
      PROVE  SlotStands'
  <2>1. slot' = slot \/ (o # <<>> /\ slot' = <<[failed |-> FALSE, batch |-> Head(o)]>>)
    BY <1>p, Zenon DEF Placing
  <2>2. CASE slot' = slot
    BY <1>p, <2>2, Zenon DEF SlotStands
  <2>3. CASE slot' = <<[failed |-> FALSE, batch |-> Head(o)]>>
    <3>1. Head(slot') = [failed |-> FALSE, batch |-> Head(o)]
      BY <2>3
    <3> QED BY <3>1 DEF SlotStands
  <2> QED BY <2>1, <2>2, <2>3
<1>1. CASE Writers \/ RootMoves \/ Overflow \/ BackendFails \/ Callback
  <2>1. UNCHANGED <<slot, coalescer>>
    BY <1>1, Zenon DEF Writers, Edit, Rename, Remove, Arrive, WriteOwn, Changed, RootMoves,
       Overflow, BackendFails, Callback, Ingest, Recheck, IngestRecheck, Ring
  <2> QED BY <1>0, <2>1
<1>2. CASE Plan \/ Woken \/ Due \/ Oversleeps \/ TakeUp \/ Suppress
  <2>1. slot' = slot /\ coalescer # "exited"
    BY <1>2 DEF Plan, Woken, Due, Oversleeps, TakeUp, Suppress
  <2> QED BY <1>0, <2>1
<1>3. CASE Disconnected \/ Dies
  <2>1. slot' = slot /\ coalescer' = "exited"
    BY <1>3, Zenon DEF Disconnected, Dies, Exits
  <2> QED BY <1>0, <2>1
<1>4. CASE SendTerminal
  <2>1. coalescer' = "exited"
        /\ (slot' = slot \/ slot' = <<[failed |-> TRUE, batch |-> Nothing]>>)
    BY <1>4, Zenon DEF SendTerminal, Exits
  <2>2. CASE slot' = slot
    BY <1>0, <2>1, <2>2
  <2>3. CASE slot' = <<[failed |-> TRUE, batch |-> Nothing]>>
    <3>1. Head(slot') = [failed |-> TRUE, batch |-> Nothing]
      BY <2>3
    <3> QED BY <2>1, <3>1 DEF SlotStands
  <2> QED BY <2>1, <2>2, <2>3
<1>5. CASE HandOver
  <2>1. Placing(<<held>>, {}) /\ coalescer # "exited"
    BY <1>5 DEF HandOver
  <2> QED BY <1>p, <2>1
<1>6. CASE Resume
  <2>1. Placing(unplaced, waiting) /\ coalescer # "exited"
    BY <1>6 DEF Resume
  <2> QED BY <1>p, <2>1
<1>7. CASE Polls \/ Absorb \/ BeginHeal \/ Heals \/ Leave \/ Closes
  <2>1. (slot' = slot \/ slot' = <<>>) /\ coalescer' = coalescer
    <3>1. CASE Polls \/ Absorb \/ BeginHeal \/ Leave \/ Closes
      BY <3>1, Zenon DEF Polls, Reconcile, PollFails, ReceiveFails, Absorb, Receive,
         BeginHeal, Leave, Closes, DropReceiver, Unsubscribe, Join
    <3>2. CASE Drain \/ DrainEnds \/ CheckAnchor \/ FinishWaits
      BY <3>2, Zenon DEF Drain, Receive, DrainEnds, ReceiveFails, CheckAnchor, FinishWaits
    <3>3. CASE FinishTakes
      BY <3>3, Zenon DEF FinishTakes
    <3>4. CASE FinishWakes
      BY <3>4, Zenon DEF FinishWakes
    <3>4a. CASE FinishMerges
      BY <3>4a, Zenon DEF FinishMerges
    <3> QED BY <1>7, <3>1, <3>2, <3>3, <3>4, <3>4a DEF Heals
  <2> QED BY <1>0, <2>1
<1>8. CASE UNCHANGED vars
  BY <1>0, <1>8, Zenon DEF vars
<1> QED BY <1>1, <1>2, <1>3, <1>4, <1>5, <1>6, <1>7, <1>8 DEF Next, Coalesces

\* The reports of the writers are roots; only an anchor event carries none.
Plain(s) == \A i \in DOMAIN s : s[i].kind = "anchor" => s[i].root = NoRoots

LEMMA PlainAppended ==
  ASSUME NEW w \in Seq(Reports), NEW s \in Seq(Reports), Plain(w), Plain(s)
  PROVE  Plain(w \o s)
BY DEF Plain

LEMMA RootAnswers ==
  ASSUME NEW p \in Paths, NEW n, NEW d, NEW e, p \notin e
  PROVE  /\ Root(p, n, d).kind = "root"
         /\ \A q \in Below(p) \cup {p} : Answers(e, Carries(Root(p, n, d)), q)
<1>1. DOMAIN Carries(Root(p, n, d)).roots = {p}
  BY DEF Carries, Root
<1>2. ASSUME NEW q \in Below(p) \cup {p}
      PROVE  p \in Upward(q)
  BY DEF Below, Upward
<1> QED BY <1>1, <1>2 DEF Answers, Root

\* What a writer's step leaves behind is answered for by what it sends, and no
\* entry becomes an echo beside a path whose row is behind.
Sends(behind, sent) ==
  /\ reports' = reports \o sent /\ stale' = stale \cup behind
  /\ Plain(sent)
  /\ \A p \in behind : \E i \in DOMAIN sent : Answers(echo', Carries(sent[i]), p)
  /\ \A p \in stale' : echo' \cap Upward(p) \subseteq echo

LEMMA SendsOne ==
  ASSUME NEW t, NEW p \in Paths, NEW behind \in SUBSET (Below(p) \cup {p}), NEW rewritten,
         NEW r \in Reports, p \in rewritten,
         \E n, d : r = Root(p, n, d), Changed(t, behind, rewritten, <<r>>)
  PROVE  \E sent \in Seq(Reports) : Sends(behind, sent)
<1>1. PICK n, d : r = Root(p, n, d)
  OBVIOUS
<1>2. p \notin echo' /\ echo' \subseteq echo
      /\ reports' = reports \o <<r>> /\ stale' = stale \cup behind
  BY DEF Changed
<1>3. r.kind = "root" /\ \A q \in behind : Answers(echo', Carries(r), q)
  BY <1>1, <1>2, RootAnswers
<1>4. DOMAIN <<r>> = {1} /\ <<r>>[1] = r /\ <<r>> \in Seq(Reports)
  OBVIOUS
<1> DEFINE sent == <<r>>
<1>5. Plain(sent) /\ \A q \in behind : \E i \in DOMAIN sent : Answers(echo', Carries(sent[i]), q)
  BY <1>3, <1>4 DEF Plain
<1>6. Sends(behind, sent)
  BY <1>2, <1>5 DEF Sends
<1> QED BY <1>4, <1>6

LEMMA WritersSend ==
  ASSUME ShapesOK, Writers
  PROVE  \E behind \in SUBSET Paths : \E sent \in Seq(Reports) : Sends(behind, sent)
<1> SUFFICES ASSUME NEW p \in Paths,
                    Edit(p) \/ Rename(p) \/ Remove(p) \/ Arrive(p) \/ WriteOwn(p)
             PROVE  \E behind \in SUBSET Paths : \E sent \in Seq(Reports) : Sends(behind, sent)
  BY DEF Writers
<1>0. tree \in Trees /\ Below(p) \cup {p} \in SUBSET Paths
  BY DEF ShapesOK, Trees, Below
<1>r. ASSUME NEW t \in Trees, NEW d \in BOOLEAN
      PROVE  Root(p, Name(t, p), d) \in Reports
  BY NameTyped, ReportTyped
<1>1. CASE Edit(p)
  <2>1. Root(p, Name(tree, p), FALSE) \in Reports
    BY <1>0, <1>r
  <2>2. Changed(tree, {p}, {p}, <<Root(p, Name(tree, p), FALSE)>>)
    BY <1>1 DEF Edit
  <2>3. \E sent \in Seq(Reports) : Sends({p}, sent)
    BY <2>1, <2>2, SendsOne
  <2> QED BY <2>3
<1>2. CASE Rename(p)
  <2>1. PICK s \in Spellings \ {tree[p]}, order \in Orders :
          LET t == [tree EXCEPT ![p] = s]
              left    == Root(p, Name(tree, p), TRUE)
              arrived == Root(p, Name(t, p), FALSE)
          IN Changed(t, Below(p) \cup {p}, {},
                     IF order = "happened" THEN <<left, arrived>> ELSE <<arrived, left>>)
    BY <1>2 DEF Rename
  <2> DEFINE t == [tree EXCEPT ![p] = s]
             left    == Root(p, Name(tree, p), TRUE)
             arrived == Root(p, Name(t, p), FALSE)
             sent == IF order = "happened" THEN <<left, arrived>> ELSE <<arrived, left>>
  <2>2. t \in Trees
    BY <1>0 DEF Trees
  <2>3. left \in Reports /\ arrived \in Reports
    BY <1>0, <1>r, <2>2
  <2>4. p \notin echo
    BY <1>2 DEF Rename
  <2>5. /\ left.kind = "root" /\ \A q \in Below(p) \cup {p} : Answers(echo, Carries(left), q)
        /\ arrived.kind = "root"
    BY <2>4, RootAnswers
  <2>6. Changed(t, Below(p) \cup {p}, {}, sent)
    BY <2>1
  <2> HIDE DEF t, left, arrived
  <2>7. sent \in Seq(Reports) /\ DOMAIN sent = {1, 2}
        /\ (sent[1] = left \/ sent[2] = left)
        /\ \A i \in {1, 2} : sent[i] \in {left, arrived}
    BY <2>3
  <2>8. reports' = reports \o sent /\ stale' = stale \cup (Below(p) \cup {p}) /\ echo' = echo
    BY <2>6 DEF Changed
  <2> HIDE DEF sent
  <2>9. Plain(sent)
    BY <2>5, <2>7 DEF Plain
  <2>10. \A q \in Below(p) \cup {p} :
            \E i \in DOMAIN sent : Answers(echo', Carries(sent[i]), q)
    BY <2>5, <2>7, <2>8
  <2>11. Sends(Below(p) \cup {p}, sent)
    BY <2>8, <2>9, <2>10 DEF Sends
  <2> QED BY <1>0, <2>7, <2>11
<1>3. CASE Remove(p)
  <2> DEFINE t == [q \in Paths |-> IF p \in Upward(q) THEN Gone ELSE tree[q]]
             r == Root(p, Name(tree, p), TRUE)
  <2>1. r \in Reports /\ \E n, d : r = Root(p, n, d)
    BY <1>0, <1>r
  <2>2. Changed(t, Below(p) \cup {p}, Below(p) \cup {p}, <<r>>)
    BY <1>3 DEF Remove
  <2> HIDE DEF t, r
  <2>3. \E sent \in Seq(Reports) : Sends(Below(p) \cup {p}, sent)
    BY <2>1, <2>2, SendsOne
  <2> QED BY <1>0, <2>3
<1>4. CASE Arrive(p)
  <2>1. PICK s \in Spellings, whole \in BOOLEAN :
          LET t == [q \in Paths |-> IF q = p \/ (whole /\ q \in Below(p)) THEN s ELSE tree[q]]
          IN Changed(t, Below(p) \cup {p}, Below(p) \cup {p},
                     <<Root(p, Name(t, p), FALSE)>>)
    BY <1>4 DEF Arrive
  <2> DEFINE t == [q \in Paths |-> IF q = p \/ (whole /\ q \in Below(p)) THEN s ELSE tree[q]]
             r == Root(p, Name(t, p), FALSE)
  <2>2. t \in Trees
    BY <1>0 DEF Trees
  <2>3. Changed(t, Below(p) \cup {p}, Below(p) \cup {p}, <<r>>)
    BY <2>1
  <2> HIDE DEF t
  <2>4. r \in Reports /\ \E n, d : r = Root(p, n, d)
    BY <2>2, <1>r
  <2> HIDE DEF r
  <2>5. \E sent \in Seq(Reports) : Sends(Below(p) \cup {p}, sent)
    BY <2>3, <2>4, SendsOne
  <2> QED BY <1>0, <2>5
<1>5. CASE WriteOwn(p)
  <2> DEFINE r == Root(p, Name(tree, p), FALSE)
             sent == <<r>>
  <2>1. r \in Reports /\ r.kind = "root"
    BY <1>0, <1>r DEF Root
  <2>2. reports' = Append(reports, r) /\ stale' = stale /\ echo' = echo \cup {p}
        /\ p \in Leaves /\ p \notin stale
    BY <1>5 DEF WriteOwn
  <2> HIDE DEF r
  <2>3. sent \in Seq(Reports) /\ DOMAIN sent = {1} /\ sent[1] = r
    BY <2>1
  <2>4. reports' = reports \o sent
    <3>1. reports \in Seq(Reports)
      BY DEF ShapesOK
    <3> QED BY <2>1, <2>2, <3>1
  <2> HIDE DEF sent
  <2>5. Plain(sent)
    BY <2>1, <2>3 DEF Plain
  <2>6. ASSUME NEW q \in stale'
        PROVE  echo' \cap Upward(q) \subseteq echo
    <3>1. q # p /\ q \in Paths /\ q \notin Below(p)
      BY <2>2, <2>6 DEF Leaves, ShapesOK
    <3>2. p \notin Upward(q)
      BY <3>1 DEF Upward, Below
    <3> QED BY <2>2, <3>2
  <2>7. Sends({}, sent)
    BY <2>2, <2>4, <2>5, <2>6 DEF Sends
  <2> QED BY <2>3, <2>7
<1> QED BY <1>1, <1>2, <1>3, <1>4, <1>5

LEMMA ReportsKept == ShapesOK /\ ReportsStand /\ [Next]_vars => ReportsStand'
<1> SUFFICES ASSUME ShapesOK, ReportsStand, [Next]_vars PROVE ReportsStand'
  OBVIOUS
<1> USE DEF disk, backend, state, channels, worker, consumer
<1>0. Plain(reports) /\ reports \in Seq(Reports)
  BY DEF ReportsStand, Plain, ShapesOK
<1>s. ASSUME reports' = reports PROVE ReportsStand'
  BY <1>s DEF ReportsStand
<1>1. CASE Writers
  <2>1. PICK behind \in SUBSET Paths, sent \in Seq(Reports) : Sends(behind, sent)
    BY <1>1, WritersSend
  <2>2. reports' = reports \o sent /\ Plain(sent)
    BY <2>1 DEF Sends
  <2>3. Plain(reports')
    BY <1>0, <2>2, PlainAppended
  <2> QED BY <2>3 DEF Plain, ReportsStand
<1>2. CASE RootMoves
  <2> DEFINE sent == <<Anchor>>
  <2>1. reports' = Append(reports, Anchor)
    BY <1>2 DEF RootMoves
  <2>2. Anchor \in Reports /\ Anchor.root = NoRoots
    BY PlainReportsTyped DEF Anchor
  <2>3. sent \in Seq(Reports) /\ Plain(sent) /\ reports' = reports \o sent
    BY <1>0, <2>1, <2>2 DEF Plain
  <2>4. Plain(reports')
    BY <1>0, <2>3, PlainAppended
  <2> QED BY <2>4 DEF Plain, ReportsStand
<1>3. CASE Overflow
  <2>1. reports' = <<Lost>> /\ Lost.kind = "lost"
    BY <1>3 DEF Overflow, Lost
  <2> QED BY <2>1 DEF ReportsStand
<1>4. CASE Ingest \/ Recheck
  <2>1. reports' = Tail(reports) /\ reports # <<>>
    BY <1>4 DEF Ingest, Recheck
  <2>2. Plain(Tail(reports))
    BY <1>0, <2>1 DEF Plain
  <2> QED BY <2>1, <2>2 DEF Plain, ReportsStand
<1>5. CASE BackendFails \/ IngestRecheck \/ Ring
  BY <1>s, <1>5, Zenon DEF BackendFails, IngestRecheck, Ring
<1>6. CASE Coalesces \/ Oversleeps \/ Dies
  BY <1>s, <1>6, Zenon DEF Coalesces, Plan, Woken, Due, Disconnected, TakeUp, SendTerminal,
     Suppress, HandOver, Resume, Oversleeps, Dies
<1>7. CASE Polls \/ Absorb \/ BeginHeal \/ Heals \/ Leave
  <2>1. CASE Polls \/ Absorb \/ BeginHeal \/ Leave
    BY <1>s, <2>1, Zenon DEF Polls, Reconcile, PollFails, Absorb, BeginHeal, Leave
  <2>2. CASE Drain \/ DrainEnds \/ CheckAnchor \/ FinishWaits
    BY <1>s, <2>2, Zenon DEF Drain, DrainEnds, CheckAnchor, FinishWaits
  <2>3. CASE FinishTakes
    BY <1>s, <2>3, Zenon DEF FinishTakes
  <2>4. CASE FinishWakes
    BY <1>s, <2>4, Zenon DEF FinishWakes
  <2>5. CASE FinishMerges
    BY <1>s, <2>5, Zenon DEF FinishMerges
  <2> QED BY <1>7, <2>1, <2>2, <2>3, <2>4, <2>5 DEF Heals
<1>8. CASE Closes
  <2>1. reports' = reports \/ reports' = <<>>
    BY <1>8, Zenon DEF Closes, DropReceiver, Unsubscribe, Join
  <2>2. CASE reports' = <<>>
    BY <2>2 DEF ReportsStand
  <2> QED BY <1>s, <2>1, <2>2
<1>9. CASE UNCHANGED vars
  BY <1>s, <1>9, Zenon DEF vars
<1> QED BY <1>1, <1>2, <1>3, <1>4, <1>5, <1>6, <1>7, <1>8, <1>9 DEF Next, Callback

LEMMA StandingKept == TypeOK /\ Standing /\ [Next]_vars => Standing'
<1>1. Standing <=> /\ HeldStands /\ TakenStands /\ ReceiverStands
                   /\ SlotStands /\ ReportsStand
  BY Zenon DEF Standing, HeldStands, TakenStands, ReceiverStands, SlotStands, ReportsStand
<1>2. Standing' <=> /\ HeldStands' /\ TakenStands' /\ ReceiverStands'
                    /\ SlotStands' /\ ReportsStand'
  BY Zenon DEF Standing, HeldStands, TakenStands, ReceiverStands, SlotStands, ReportsStand
<1> QED BY <1>1, <1>2, HeldKept, TakenKept, ReceiverKept, SlotKept, ReportsKept DEF TypeOK

---------------------------------------------------------------------------
\* What the operators on batches do to what a batch answers for.

LEMMA NothingAnswers ==
  ASSUME NEW e, NEW p
  PROVE  ~Answers(e, Nothing, p)
BY DEF Answers, Nothing, NoRoots

LEMMA AnswersReaches ==
  ASSUME NEW e, NEW b \in Batches, NEW p \in Paths, Answers(e, b, p)
  PROVE  p \in Reach(b)
<1>1. CASE b.rescan
  BY <1>1 DEF Reach
<1>2. CASE ~b.rescan
  <2>1. PICK q \in DOMAIN b.roots \cap Upward(p) : q \notin e
    BY <1>2 DEF Answers
  <2>2. p \in Below(q) \cup {q}
    BY <2>1 DEF Upward, Below
  <2> QED BY <1>2, <2>1, <2>2 DEF Reach
<1> QED BY <1>1, <1>2

LEMMA FewerEchoes ==
  ASSUME NEW e, NEW f, NEW b, NEW p, f \cap Upward(p) \subseteq e, Answers(e, b, p)
  PROVE  Answers(f, b, p)
BY DEF Answers

\* The topmost root above a path survives a close, and is no echo where some
\* root above the path is none: an entry that is an echo has nothing below it.
LEMMA ClosedAnswers ==
  ASSUME NEW e \in SUBSET Leaves, NEW b \in Batches, NEW p \in Paths, Answers(e, b, p)
  PROVE  Answers(e, Closed(b), p)
<1>1. CASE b.rescan
  BY <1>1, ClosedTyped DEF Answers
<1>2. CASE ~b.rescan
  <2> DEFINE D == DOMAIN b.roots
             T == D \cap Upward(p)
  <2>1. D \in SUBSET Paths /\ Upward(p) \in SUBSET Paths
    BY BatchElim, RootsElim DEF Upward
  <2>2. PICK q \in T : q \notin e
    BY <1>2 DEF Answers
  <2>3. PICK t \in T : \A r \in T : <<r, t>> \notin Above
    <3>1. T \in SUBSET Paths /\ T # {}
      BY <2>1, <2>2
    <3> QED BY <3>1, PathsAssumption
  <2>4. ASSUME NEW r \in D \cap Upward(t), r # t
        PROVE  FALSE
    <3>1. r \in Paths /\ t \in Paths /\ <<r, t>> \in Above
      BY <2>1, <2>4 DEF Upward
    <3>2. r \in Upward(p)
      <4>1. CASE t = p
        BY <3>1, <4>1 DEF Upward
      <4>2. CASE t # p
        <5>1. <<t, p>> \in Above
          BY <4>2 DEF Upward
        <5>2. <<r, p>> \in Above
          BY <3>1, <5>1, PathsAssumption
        <5> QED BY <3>1, <5>2 DEF Upward
      <4> QED BY <4>1, <4>2
    <3> QED BY <2>3, <2>4, <3>1, <3>2
  <2>5. t \notin e
    <3> SUFFICES ASSUME t \in e PROVE FALSE
      OBVIOUS
    <3>1. Below(t) = {}
      BY DEF Leaves
    <3>2. t = p
      BY <2>1, <3>1 DEF Upward, Below
    <3>3. q # p /\ <<q, p>> \in Above
      BY <2>2, <3>2 DEF Upward
    <3> QED BY <2>2, <2>3, <3>2, <3>3
  <2>6. t \in {r \in D : \A s \in D \cap Upward(r) :
                 s # r => b.roots[s].dead /\ ~b.roots[r].dead}
    BY <2>4
  <2>7. t \in DOMAIN Closed(b).roots
    BY <2>6, KeepingTyped DEF Closed
  <2> QED BY <2>5, <2>7 DEF Answers
<1> QED BY <1>1, <1>2

LEMMA SuppressedAnswers ==
  ASSUME NEW e \in SUBSET Leaves, NEW E \in SUBSET e, NEW b \in Batches, NEW p \in Paths,
         Answers(e, b, p)
  PROVE  Answers(e, Suppressed(b, E), p)
<1> DEFINE k == Keeping(b, Paths \ E)
<1>1. k \in Batches /\ k.rescan = b.rescan /\ DOMAIN k.roots = DOMAIN b.roots \cap (Paths \ E)
  BY KeepingTyped
<1>2. DOMAIN b.roots \subseteq Paths
  BY BatchElim, RootsElim
<1>3. Answers(e, k, p)
  <2> HIDE DEF k
  <2> QED BY <1>1, <1>2 DEF Answers
<1> QED BY <1>1, <1>3, ClosedAnswers DEF Suppressed

LEMMA WidenedAnswers ==
  ASSUME NEW e, NEW b \in Batches, NEW p
  PROVE  Answers(e, Widened(b), p)
BY WidenedTyped DEF Answers

LEMMA MergeAnswers ==
  ASSUME NEW e \in SUBSET Leaves, NEW b \in Batches, NEW c \in Batches, NEW p \in Paths,
         Answers(e, b, p) \/ Answers(e, c, p)
  PROVE  Answers(e, Merge(b, c), p)
<1> DEFINE m == [roots |-> Noted(b.roots, c.roots), rescan |-> b.rescan \/ c.rescan]
<1>1. m \in Batches /\ DOMAIN m.roots = DOMAIN b.roots \cup DOMAIN c.roots
  BY BatchElim, NotedTyped DEF Batches
<1>2. Answers(e, m, p)
  BY <1>1 DEF Answers
<1>3. Closed(m) \in Batches /\ Answers(e, Closed(m), p)
  <2> HIDE DEF m
  <2> QED BY <1>1, <1>2, ClosedTyped, ClosedAnswers
<1>4. Answers(e, Widened(Closed(m)), p)
  BY <1>3, WidenedAnswers
<1> QED BY <1>3, <1>4 DEF Merge

LEMMA AcceptedAnswers ==
  ASSUME NEW e, NEW b \in Batches, NEW f \in Roots, NEW p \in Paths,
         Answers(e, b, p) \/ \E q \in DOMAIN f \cap Upward(p) : q \notin e
  PROVE  Answers(e, Accepted(b, f), p)
<1> DEFINE n == Noted(b.roots, f)
           g == [b EXCEPT !.roots = n]
<1>1. n \in Roots /\ DOMAIN n = DOMAIN b.roots \cup DOMAIN f
  BY BatchElim, NotedTyped
<1>2. g.roots = n /\ g.rescan = b.rescan
  BY DEF Batches
<1>3. Answers(e, g, p)
  <2> HIDE DEF n, g
  <2> QED BY <1>1, <1>2 DEF Answers
<1>4. b.rescan => Answers(e, b, p)
  BY DEF Answers
<1>5. (Accepted(b, f) = b /\ b.rescan) \/ Accepted(b, f) = Widened(b) \/ Accepted(b, f) = g
  BY DEF Accepted
<1> QED BY <1>3, <1>4, <1>5, WidenedAnswers

---------------------------------------------------------------------------
\* No row behind the disk is forgotten.

LEMMA CoveredBefore == [Next]_vars /\ Covered' /\ ~died' => Covered /\ ~died
<1> SUFFICES ASSUME [Next]_vars, Covered', ~died' PROVE Covered /\ ~died
  OBVIOUS
<1> USE DEF disk, backend, state, channels, worker, consumer
<1>0. ASSUME UNCHANGED <<host, died>> PROVE Covered /\ ~died
  BY <1>0, Zenon DEF Covered
<1>1. CASE Writers \/ RootMoves \/ Overflow \/ BackendFails \/ Callback
  <2>1. UNCHANGED <<host, died>>
    BY <1>1, Zenon DEF Writers, Edit, Rename, Remove, Arrive, WriteOwn, Changed, RootMoves,
       Overflow, BackendFails, Callback, Ingest, Recheck, IngestRecheck, Ring
  <2> QED BY <1>0, <2>1
<1>2. CASE Coalesces \/ Oversleeps
  <2>1. UNCHANGED <<host, died>>
    BY <1>2, Zenon DEF Coalesces, Plan, Woken, Due, Disconnected, TakeUp, SendTerminal,
       Suppress, HandOver, Resume, Oversleeps
  <2> QED BY <1>0, <2>1
<1>3. CASE Dies
  BY <1>3, Zenon DEF Dies
<1>4. CASE Polls \/ Absorb \/ BeginHeal \/ Leave \/ Heals
  <2>1. died' = died
    <3>1. CASE Polls \/ Absorb \/ BeginHeal \/ Leave
      BY <3>1, Zenon DEF Polls, Reconcile, PollFails, Absorb, BeginHeal, Leave
    <3>2. CASE Drain \/ DrainEnds \/ CheckAnchor \/ FinishWaits
      BY <3>2, Zenon DEF Drain, DrainEnds, CheckAnchor, FinishWaits
    <3>3. CASE FinishTakes
      BY <3>3, Zenon DEF FinishTakes
    <3>4. CASE FinishWakes
      BY <3>4, Zenon DEF FinishWakes
    <3>4a. CASE FinishMerges
      BY <3>4a, Zenon DEF FinishMerges
    <3> QED BY <1>4, <3>1, <3>2, <3>3, <3>4, <3>4a DEF Heals
  <2>2. Covered
    BY <1>4 DEF Polls, Reconcile, PollFails, Absorb, BeginHeal, Leave, Heals, Drain,
       DrainEnds, CheckAnchor, FinishWaits, FinishTakes, FinishWakes, FinishMerges, Covered
  <2> QED BY <2>1, <2>2, Zenon
<1>5. CASE Closes
  BY <1>5 DEF Closes, DropReceiver, Unsubscribe, Join, Covered
<1>6. CASE UNCHANGED vars
  BY <1>0, <1>6, Zenon DEF vars
<1> QED BY <1>1, <1>2, <1>3, <1>4, <1>5, <1>6 DEF Next

LEMMA SentCarries ==
  ASSUME ShapesOK, NEW behind \in SUBSET Paths, NEW sent \in Seq(Reports),
         Sends(behind, sent), UNCHANGED <<state, channels, worker, consumer>>,
         \A q \in stale : Carried(q),
         NEW p \in stale'
  PROVE  Carried(p)'
<1>1. echo' \cap Upward(p) \subseteq echo
  BY DEF Sends
<1>2. \A b : Answers(echo, b, p) => Answers(echo', b, p)
  BY <1>1, FewerEchoes
<1>3. CASE p \in behind
  <2>1. PICK i \in DOMAIN sent : Answers(echo', Carries(sent[i]), p)
    BY <1>3 DEF Sends
  <2>2. reports \in Seq(Reports) /\ reports' = reports \o sent
    BY DEF Sends, ShapesOK
  <2>3. Len(reports) + i \in DOMAIN reports' /\ reports'[Len(reports) + i] = sent[i]
    BY <2>2
  <2>4. Reported(p)'
    BY <2>1, <2>3, Zenon DEF Reported
  <2> QED BY <2>4 DEF Carried
<1>4. CASE p \in stale
  <2>1. CASE Reported(p)
    <3>1. PICK i \in DOMAIN reports : Answers(echo, Carries(reports[i]), p)
      BY <2>1 DEF Reported
    <3>2. reports \in Seq(Reports) /\ reports' = reports \o sent
      BY DEF Sends, ShapesOK
    <3>3. i \in DOMAIN reports' /\ reports'[i] = reports[i]
      BY <3>2
    <3>4. Reported(p)'
      BY <1>2, <3>1, <3>3, Zenon DEF Reported
    <3> QED BY <3>4 DEF Carried
  <2>2. CASE ~Reported(p)
    <3>1. Carried(p)
      BY <1>4
    <3>2. UNCHANGED <<pending, held, unplaced, slot, taken, observed>>
      BY DEF state, channels, worker, consumer
    <3> QED BY <1>2, <2>2, <3>1, <3>2, Zenon DEF Carried, Holds
  <2> QED BY <2>1, <2>2
<1> QED BY <1>3, <1>4 DEF Sends

LEMMA IngestCarries ==
  ASSUME ShapesOK, Standing, Ingest, NEW p \in Paths, Carried(p)
  PROVE  Carried(p)'
<1>0. /\ UNCHANGED <<echo, held, unplaced, slot, taken, observed>>
      /\ reports # <<>> /\ reports' = Tail(reports) /\ reports \in Seq(Reports)
  BY DEF Ingest, disk, channels, worker, consumer, ShapesOK
<1> DEFINE old == Or(pending, Nothing)
           r == Head(reports)
<1>1. old \in Batches /\ r \in Reports /\ r = reports[1]
  BY <1>0, OrTyped, First DEF ShapesOK
<1>2. ASSUME Answers(echo, old, p) \/ Answers(echo, Carries(r), p)
      PROVE  Holds(pending, p)'
  <2>1. r.kind \in {"root", "lost", "anchor"} /\ r.root \in Roots
    BY <1>1 DEF Reports
  <2>2. CASE r.kind = "root"
    <3>1. pending' = <<Accepted(old, r.root)>>
      BY <2>2 DEF Ingest
    <3>2. Answers(echo, Accepted(old, r.root), p)
      <4>1. Answers(echo, Carries(r), p) => \E q \in DOMAIN r.root \cap Upward(p) : q \notin echo
        BY <2>2 DEF Answers, Carries
      <4> QED BY <1>1, <1>2, <2>1, <4>1, AcceptedAnswers
    <3>3. pending' # <<>> /\ Head(pending') = Accepted(old, r.root)
      BY <3>1
    <3> QED BY <1>0, <3>2, <3>3 DEF Holds
  <2>3. CASE r.kind = "lost"
    <3>1. pending' = <<Widened(old)>>
      BY <2>3 DEF Ingest
    <3>2. pending' # <<>> /\ Head(pending') = Widened(old)
      BY <3>1
    <3> QED BY <1>0, <1>1, <3>2, WidenedAnswers DEF Holds
  <2> QED BY <2>2, <2>3 DEF Ingest
<1>3. CASE Reported(p)
  <2>1. PICK i \in DOMAIN reports : Answers(echo, Carries(reports[i]), p)
    BY <1>3 DEF Reported
  <2>2. CASE i = 1
    BY <1>1, <1>2, <2>1, <2>2 DEF Carried
  <2>3. CASE i # 1
    <3>1. i - 1 \in DOMAIN reports' /\ reports'[i - 1] = reports[i]
      BY <1>0, <2>1, <2>3
    <3>2. Reported(p)'
      BY <1>0, <2>1, <3>1, Zenon DEF Reported
    <3> QED BY <3>2 DEF Carried
  <2> QED BY <2>2, <2>3
<1>4. CASE Holds(pending, p)
  <2>1. Answers(echo, old, p)
    BY <1>4 DEF Holds, Or
  <2> QED BY <1>2, <2>1 DEF Carried
<1>5. CASE ~Reported(p) /\ ~Holds(pending, p)
  BY <1>0, <1>5, Zenon DEF Carried, Holds
<1> QED BY <1>3, <1>4, <1>5

LEMMA RecheckCarries ==
  ASSUME ShapesOK, Standing, Recheck, NEW p \in Paths, Carried(p)
  PROVE  Carried(p)'
<1>0. /\ UNCHANGED <<echo, held, pending, unplaced, slot, taken, observed>>
      /\ reports # <<>> /\ reports' = Tail(reports) /\ reports \in Seq(Reports)
  BY DEF Recheck, disk, state, channels, worker, consumer, ShapesOK
<1>1. reports[1].kind = "anchor" /\ reports[1].root = NoRoots
  <2>1. 1 \in DOMAIN reports /\ reports[1].kind = "anchor"
    BY <1>0, First DEF Recheck
  <2> QED BY <2>1 DEF Standing
<1>2. ~Answers(echo, Carries(reports[1]), p)
  BY <1>1 DEF Answers, Carries, NoRoots
<1>3. CASE Reported(p)
  <2>1. PICK i \in DOMAIN reports : Answers(echo, Carries(reports[i]), p)
    BY <1>3 DEF Reported
  <2>2. i - 1 \in DOMAIN reports' /\ reports'[i - 1] = reports[i]
    BY <1>0, <1>2, <2>1
  <2>3. Reported(p)'
    BY <1>0, <2>1, <2>2, Zenon DEF Reported
  <2> QED BY <2>3 DEF Carried
<1>4. CASE ~Reported(p)
  BY <1>0, <1>4, Zenon DEF Carried, Holds
<1> QED BY <1>3, <1>4

LEMMA PlacingCarries ==
  ASSUME ShapesOK, Standing, NEW o \in Seq(Batches), NEW asleep, Placing(o, asleep), Covered,
         UNCHANGED echo, NEW p, Holds(o, p)
  PROVE  Holds(unplaced, p)' \/ (slot' # <<>> /\ Answers(echo', Head(slot').batch, p))
<1>1. o # <<>> /\ Answers(echo, Head(o), p)
  BY DEF Holds
<1>2. receiver /\ ~unsubscribed
  BY DEF Standing
<1>3. unplaced' = o \/ slot' = <<[failed |-> FALSE, batch |-> Head(o)]>>
  BY <1>1, <1>2, Zenon DEF Placing
<1>4. CASE unplaced' = o
  BY <1>1, <1>4 DEF Holds
<1>5. CASE slot' = <<[failed |-> FALSE, batch |-> Head(o)]>>
  <2>1. slot' # <<>> /\ Head(slot').batch = Head(o)
    BY <1>5
  <2> QED BY <1>1, <2>1
<1> QED BY <1>3, <1>4, <1>5

LEMMA PlacingKeeps ==
  ASSUME NEW o, NEW asleep, Placing(o, asleep), slot # <<>>
  PROVE  slot' = slot
BY Zenon DEF Placing

LEMMA CoalescerCarries ==
  ASSUME TypeOK, Standing, Covered, Coalesces \/ Oversleeps, NEW p \in Paths, Carried(p)
  PROVE  Carried(p)'
<1> USE DEF disk, backend, state, channels, worker, consumer
<1>0. UNCHANGED <<reports, echo, taken, observed>>
  BY Zenon DEF Coalesces, Plan, Woken, Due, Disconnected, TakeUp, SendTerminal,
     Suppress, HandOver, Resume, Oversleeps
<1>a. Reported(p) \/ Holds(taken.before, p) \/ Holds(taken.during, p)
      \/ Answers(echo, observed, p) => Carried(p)'
  BY <1>0, Zenon DEF Carried, Reported, Holds
<1>b. ASSUME \/ Holds(pending, p)
             \/ Answers(echo, held, p)
             \/ Holds(unplaced, p)
             \/ slot # <<>> /\ Answers(echo, Head(slot).batch, p)
      PROVE  \/ Holds(pending, p)'
             \/ Answers(echo, held, p)'
             \/ Holds(unplaced, p)'
             \/ (slot # <<>> /\ Answers(echo, Head(slot).batch, p))'
  <2>s. ASSUME UNCHANGED <<pending, held, unplaced, slot>>
        PROVE  \/ Holds(pending, p)'
               \/ Answers(echo, held, p)'
               \/ Holds(unplaced, p)'
               \/ (slot # <<>> /\ Answers(echo, Head(slot).batch, p))'
    BY <1>0, <1>b, <2>s, Zenon DEF Holds
  <2>1. CASE Plan \/ Woken \/ Due \/ Oversleeps \/ Disconnected
    <3>1. UNCHANGED <<pending, held, unplaced, slot>>
      BY <2>1, Zenon DEF Plan, Woken, Due, Oversleeps, Disconnected
    <3> QED BY <2>s, <3>1
  <2>2. CASE TakeUp
    <3>1. held = Nothing
      BY <2>2 DEF TakeUp, Standing, Busy
    <3>2. UNCHANGED <<unplaced, slot>>
          /\ (UNCHANGED <<pending, held>> \/ held' = Head(pending))
      BY <2>2, Zenon DEF TakeUp
    <3> QED BY <1>0, <1>b, <2>s, <3>1, <3>2, NothingAnswers, Zenon DEF Holds
  <2>3. CASE SendTerminal
    <3>1. receiver
      BY DEF Standing
    <3>2. slot = <<>> /\ UNCHANGED <<pending, held, unplaced>>
      BY <2>3, <3>1, Zenon DEF SendTerminal
    <3> QED BY <1>0, <1>b, <3>2, Zenon DEF Holds
  <2>4. CASE Suppress
    <3>1. PICK E \in SUBSET echo : held' = Suppressed(held, E)
      BY <2>4 DEF Suppress
    <3>2. Answers(echo, held, p) => Answers(echo, held', p)
      BY <3>1, SuppressedAnswers DEF TypeOK, ShapesOK
    <3>3. UNCHANGED <<pending, unplaced, slot>>
      BY <2>4, Zenon DEF Suppress
    <3> QED BY <1>0, <1>b, <3>2, <3>3, Zenon DEF Holds
  <2>5. CASE HandOver
    <3> DEFINE o == <<held>>
    <3>1. Placing(o, {}) /\ UNCHANGED pending
      BY <2>5 DEF HandOver
    <3>2. o \in Seq(Batches) /\ Head(o) = held /\ o # <<>>
      BY DEF TypeOK, ShapesOK
    <3>3. unplaced = <<>>
      BY <2>5 DEF HandOver, Standing
    <3> HIDE DEF o
    <3>4. CASE Answers(echo, held, p)
      <4>1. Holds(o, p)
        BY <3>2, <3>4 DEF Holds
      <4> QED BY <1>0, <3>1, <3>2, <4>1, PlacingCarries DEF TypeOK
    <3>5. CASE slot # <<>> /\ Answers(echo, Head(slot).batch, p)
      <4>1. slot' = slot
        BY <3>1, <3>5, PlacingKeeps
      <4> QED BY <1>0, <3>5, <4>1, Zenon
    <3>6. CASE Holds(pending, p)
      BY <1>0, <3>1, <3>6, Zenon DEF Holds
    <3> QED BY <1>b, <3>3, <3>4, <3>5, <3>6 DEF Holds
  <2>6. CASE Resume
    <3>1. Placing(unplaced, waiting) /\ UNCHANGED <<pending, held>>
      BY <2>6 DEF Resume
    <3>2. unplaced \in Seq(Batches)
      BY DEF TypeOK, ShapesOK
    <3>3. CASE Holds(unplaced, p)
      BY <1>0, <3>1, <3>2, <3>3, PlacingCarries DEF TypeOK
    <3>4. CASE slot # <<>> /\ Answers(echo, Head(slot).batch, p)
      <4>1. slot' = slot
        BY <3>1, <3>4, PlacingKeeps
      <4> QED BY <1>0, <3>4, <4>1, Zenon
    <3>5. CASE Holds(pending, p) \/ Answers(echo, held, p)
      BY <1>0, <3>1, <3>5, Zenon DEF Holds
    <3> QED BY <1>b, <3>3, <3>4, <3>5
  <2> QED BY <2>1, <2>2, <2>3, <2>4, <2>5, <2>6 DEF Coalesces
<1> QED BY <1>a, <1>b, Zenon DEF Carried

\* What is received leaves one of the two places it can be in; the rest stays.
LEMMA ReceiveCarries ==
  ASSUME Receive, UNCHANGED echo, NEW p,
         Holds(unplaced, p) \/ (slot # <<>> /\ Answers(echo, Head(slot).batch, p))
  PROVE  \/ Answers(echo, Received, p)
         \/ Holds(unplaced, p)'
         \/ (slot # <<>> /\ Answers(echo, Head(slot).batch, p))'
<1>1. CASE slot # <<>>
  <2>1. Received = Head(slot).batch /\ UNCHANGED unplaced
    BY <1>1, Zenon DEF Receive, Received
  <2> QED BY <2>1, Zenon DEF Holds
<1>2. CASE slot = <<>>
  <2>1. Received = Head(unplaced)
    BY <1>2, Zenon DEF Received
  <2> QED BY <1>2, <2>1, Zenon DEF Holds
<1> QED BY <1>1, <1>2

LEMMA MergesCarries ==
  ASSUME ShapesOK, Receive, observed' = Merge(observed, Received),
         UNCHANGED <<reports, pending, held, taken, echo>>, NEW p \in Paths, Carried(p)
  PROVE  Carried(p)'
<1>1. ASSUME Answers(echo, observed, p) \/ Answers(echo, Received, p)
      PROVE  Carried(p)'
  <2>1. Answers(echo, Merge(observed, Received), p)
    BY <1>1, ReceivedTyped, MergeAnswers DEF ShapesOK
  <2> QED BY <2>1, Zenon DEF Carried
<1>2. CASE Holds(unplaced, p) \/ (slot # <<>> /\ Answers(echo, Head(slot).batch, p))
  BY <1>1, <1>2, ReceiveCarries, Zenon DEF Carried
<1>3. CASE Reported(p) \/ Holds(pending, p) \/ Answers(echo, held, p)
           \/ Holds(taken.before, p) \/ Holds(taken.during, p)
  BY <1>3, Zenon DEF Carried, Reported, Holds
<1> QED BY <1>1, <1>2, <1>3, Zenon DEF Carried

LEMMA ReconcileCarries ==
  ASSUME ShapesOK, Reconcile, NEW p \in Paths, p \in stale', Carried(p)
  PROVE  Carried(p)'
<1> USE DEF disk, backend, state, channels, worker, consumer
<1>0. UNCHANGED <<reports, pending, held, taken, echo>>
  BY Zenon DEF Reconcile
<1>1. CASE ~IsEmpty(observed)
  <2>1. UNCHANGED <<slot, unplaced>> /\ p \notin Reach(observed)
    BY <1>1 DEF Reconcile
  <2>2. ~Answers(echo, observed, p)
    BY <2>1, AnswersReaches DEF ShapesOK
  <2> QED BY <1>0, <2>1, <2>2, Zenon DEF Carried, Reported, Holds
<1>2. CASE IsEmpty(observed)
  <2>1. Receive /\ UNCHANGED observed /\ p \notin Reach(Received)
    BY <1>2 DEF Reconcile
  <2>2. ~Answers(echo, Received, p)
    BY <2>1, ReceivedTyped, AnswersReaches
  <2>3. CASE Holds(unplaced, p) \/ (slot # <<>> /\ Answers(echo, Head(slot).batch, p))
    BY <1>0, <2>1, <2>2, <2>3, ReceiveCarries, Zenon DEF Carried
  <2>4. CASE ~Holds(unplaced, p) /\ ~(slot # <<>> /\ Answers(echo, Head(slot).batch, p))
    BY <1>0, <2>1, <2>4, Zenon DEF Carried, Reported, Holds
  <2> QED BY <2>3, <2>4
<1> QED BY <1>1, <1>2

LEMMA FinishTakesCarries ==
  ASSUME Standing, FinishTakes, Covered', NEW p, Carried(p)
  PROVE  Carried(p)'
<1> USE DEF disk, backend, state, channels, worker, consumer
<1>1. taken = NotTaken
  BY DEF FinishTakes, Standing
<1>2. taken' = [before |-> unplaced, during |-> pending]
  BY DEF FinishTakes, Covered
<1>3. UNCHANGED <<reports, held, slot, observed, echo>>
  BY Zenon DEF FinishTakes
<1>4. taken'.before = unplaced /\ taken'.during = pending
  BY <1>2
<1>5. ~Holds(taken.before, p) /\ ~Holds(taken.during, p)
  BY <1>1 DEF NotTaken, Holds
<1> QED BY <1>3, <1>4, <1>5, Zenon DEF Carried, Reported, Holds

LEMMA FinishMergesCarries ==
  ASSUME ShapesOK, FinishMerges, NEW p \in Paths, Carried(p)
  PROVE  Carried(p)'
<1> USE DEF disk, backend, state, channels, worker, consumer
<1>1. UNCHANGED <<reports, pending, held, unplaced, slot, echo>>
  BY Zenon DEF FinishMerges
<1>2. PICK E \in SUBSET echo :
        observed' = Merge(observed, Merge(Or(taken.before, Nothing),
                                          Suppressed(Or(taken.during, Nothing), E)))
  BY DEF FinishMerges
<1> DEFINE before == Or(taken.before, Nothing)
           during == Or(taken.during, Nothing)
<1>3. before \in Batches /\ during \in Batches /\ observed \in Batches /\ echo \subseteq Leaves
  BY OrTyped DEF ShapesOK
<1>4. Suppressed(during, E) \in Batches /\ Merge(before, Suppressed(during, E)) \in Batches
  BY <1>3, SuppressedTyped, MergeTyped
<1>5. /\ Holds(taken.before, p) => Answers(echo, before, p)
      /\ Holds(taken.during, p) => Answers(echo, during, p)
  BY DEF Holds, Or
<1> HIDE DEF before, during
<1>6. Answers(echo, during, p) => Answers(echo, Suppressed(during, E), p)
  BY <1>3, SuppressedAnswers
<1>7. Answers(echo, before, p) \/ Answers(echo, Suppressed(during, E), p)
      => Answers(echo, Merge(before, Suppressed(during, E)), p)
  BY <1>3, <1>4, MergeAnswers
<1>8. Answers(echo, observed, p) \/ Answers(echo, Merge(before, Suppressed(during, E)), p)
      => Answers(echo, observed', p)
  <2>1. observed' = Merge(observed, Merge(before, Suppressed(during, E)))
    BY <1>2 DEF before, during
  <2> QED BY <1>3, <1>4, <2>1, MergeAnswers
<1> QED BY <1>1, <1>5, <1>6, <1>7, <1>8, Zenon DEF Carried, Reported, Holds

LEMMA KeptKept == TypeOK /\ Standing /\ Kept /\ [Next]_vars => Kept'
<1> SUFFICES ASSUME TypeOK, Standing, Kept, [Next]_vars, Covered', ~died', NEW p \in stale'
             PROVE  Carried(p)'
  BY Zenon DEF Kept
<1> USE DEF disk, backend, state, channels, worker, consumer
<1>0. Covered /\ ~died /\ \A q \in stale : Carried(q)
  BY CoveredBefore DEF Kept
<1>t. ShapesOK /\ stale \subseteq Paths
  BY DEF TypeOK, ShapesOK
<1>s. ASSUME UNCHANGED <<reports, pending, held, unplaced, slot, taken, observed, echo, stale>>
      PROVE  Carried(p)'
  BY <1>0, <1>s, Zenon DEF Carried, Reported, Holds
<1>1. CASE Writers
  <2>1. PICK behind \in SUBSET Paths, sent \in Seq(Reports) : Sends(behind, sent)
    BY <1>1, <1>t, WritersSend
  <2>2. UNCHANGED <<state, channels, worker, consumer>>
    BY <1>1, Zenon DEF Writers, Edit, Rename, Remove, Arrive, WriteOwn, Changed
  <2> QED BY <1>0, <1>t, <2>1, <2>2, SentCarries
<1>2. CASE RootMoves
  <2> DEFINE sent == <<Anchor>>
  <2>1. Anchor \in Reports /\ Anchor.root = NoRoots
    BY PlainReportsTyped DEF Anchor
  <2>2. sent \in Seq(Reports) /\ Plain(sent) /\ reports' = reports \o sent
    BY <1>2, <1>t, <2>1 DEF RootMoves, Plain, ShapesOK
  <2>3. UNCHANGED <<echo, stale, state, channels, worker, consumer>>
    BY <1>2 DEF RootMoves
  <2>4. Sends({}, sent)
    BY <2>2, <2>3 DEF Sends
  <2> QED BY <1>0, <1>t, <2>2, <2>3, <2>4, SentCarries
<1>3. CASE Overflow
  <2>1. 1 \in DOMAIN reports' /\ Carries(reports'[1]).rescan
    <3>1. reports' = <<Lost>>
      BY <1>3 DEF Overflow
    <3>2. 1 \in DOMAIN reports' /\ reports'[1] = Lost
      BY <3>1
    <3>3. Carries(Lost).rescan
      BY DEF Carries, Lost
    <3> QED BY <3>2, <3>3
  <2>2. Reported(p)'
    BY <2>1 DEF Reported, Answers
  <2> QED BY <2>2 DEF Carried
<1>4. CASE BackendFails \/ IngestRecheck \/ Ring
  BY <1>s, <1>4, Zenon DEF BackendFails, IngestRecheck, Ring
<1>5. CASE Ingest
  BY <1>0, <1>t, <1>5, IngestCarries DEF Ingest
<1>5a. CASE Recheck
  BY <1>0, <1>t, <1>5a, RecheckCarries DEF Recheck
<1>6. CASE Coalesces \/ Oversleeps
  <2>1. stale' = stale
    BY <1>6, Zenon DEF Coalesces, Plan, Woken, Due, Disconnected, TakeUp, SendTerminal,
       Suppress, HandOver, Resume, Oversleeps
  <2> QED BY <1>0, <1>t, <1>6, <2>1, CoalescerCarries
<1>7. CASE Dies
  BY <1>7, Zenon DEF Dies
<1>8. CASE Reconcile
  <2>1. p \in stale
    BY <1>8 DEF Reconcile
  <2> QED BY <1>0, <1>t, <1>8, <2>1, ReconcileCarries
<1>9. CASE Absorb \/ Drain
  <2>1. Receive /\ observed' = Merge(observed, Received)
        /\ UNCHANGED <<reports, pending, held, taken, echo, stale>>
    BY <1>9, Zenon DEF Absorb, Drain
  <2> QED BY <1>0, <1>t, <2>1, MergesCarries
<1>10. CASE PollFails \/ Leave \/ Closes
  BY <1>10 DEF PollFails, Leave, Closes, DropReceiver, Unsubscribe, Join, Covered
<1>11. CASE BeginHeal
  BY <1>s, <1>11, Zenon DEF BeginHeal
<1>12. CASE DrainEnds
  <2>1. UNCHANGED <<reports, pending, held, unplaced, taken, observed, echo, stale>>
        /\ (slot' = slot \/ (Head(slot).failed /\ slot # <<>>))
    <3>1. UNCHANGED <<reports, pending, held, unplaced, taken, observed, echo, stale>>
          /\ (slot' = slot \/ ReceiveFails)
      BY <1>12 DEF DrainEnds
    <3>2. ReceiveFails => slot' = slot \/ (Head(slot).failed /\ slot # <<>>)
      BY DEF ReceiveFails
    <3> QED BY <3>1, <3>2
  <2>2. CASE slot' = slot
    BY <1>s, <2>1, <2>2
  <2>3. CASE Head(slot).failed /\ slot # <<>>
    <3>1. ~Answers(echo, Head(slot).batch, p)
      BY <2>3, NothingAnswers DEF Standing
    <3> QED BY <1>0, <2>1, <3>1, Zenon DEF Carried, Reported, Holds
  <2> QED BY <2>1, <2>2, <2>3
<1>13. CASE CheckAnchor \/ FinishWaits \/ FinishWakes
  BY <1>s, <1>13, Zenon DEF CheckAnchor, FinishWaits, FinishWakes
<1>14. CASE FinishTakes
  <2>1. stale' = stale
    BY <1>14, Zenon DEF FinishTakes
  <2> QED BY <1>0, <1>14, <2>1, FinishTakesCarries
<1>15. CASE FinishMerges
  <2>1. stale' = stale
    BY <1>15, Zenon DEF FinishMerges
  <2> QED BY <1>0, <1>t, <1>15, <2>1, FinishMergesCarries
<1>16. CASE UNCHANGED vars
  BY <1>s, <1>16, Zenon DEF vars
<1> QED BY <1>1, <1>2, <1>3, <1>4, <1>5, <1>5a, <1>6, <1>7, <1>8, <1>9, <1>10, <1>11,
           <1>12, <1>13, <1>14, <1>15, <1>16 DEF Next, Callback, Polls, Heals

LEMMA KeptInit == Init => Kept
BY DEF Init, Kept

LEMMA KeptCovers == TypeOK /\ Kept => StaleIsCovered
<1> SUFFICES ASSUME TypeOK, Kept, Covered, ~died, NEW p \in stale
             PROVE  \E b \in Underway : p \in Reach(b)
  BY DEF StaleIsCovered
<1>t. ShapesOK /\ p \in Paths
  BY DEF TypeOK, ShapesOK
<1>c. Carried(p)
  BY DEF Kept
<1>r. ASSUME NEW b \in Batches, b \in Underway, Answers(echo, b, p)
      PROVE  \E a \in Underway : p \in Reach(a)
  BY <1>r, <1>t, AnswersReaches
<1>h. ASSUME NEW o \in Seq(Batches), o \in {unplaced, pending, taken.before, taken.during},
             Holds(o, p)
      PROVE  \E a \in Underway : p \in Reach(a)
  <2>1. 1 \in DOMAIN o /\ Head(o) = o[1] /\ o[1] \in Batches
    BY <1>h DEF Holds
  <2>2. o[1] \in {o[i] : i \in DOMAIN o}
    BY <2>1
  <2>3. o[1] \in Underway
    <3> DEFINE Places == {unplaced, pending, taken.before, taken.during}
               Inside(x) == {x[i] : i \in DOMAIN x}
    <3>1. o \in Places /\ o[1] \in Inside(o)
      BY <1>h, <2>2
    <3>2. Inside(o) \in {Inside(x) : x \in Places}
      BY <3>1, Zenon
    <3>3. o[1] \in UNION {Inside(x) : x \in Places}
      BY <3>1, <3>2, Zenon
    <3> QED BY <3>3, Zenon DEF Underway
  <2> QED BY <1>h, <1>r, <2>1, <2>3 DEF Holds
<1>1. CASE Reported(p)
  <2>1. PICK i \in DOMAIN reports : Answers(echo, Carries(reports[i]), p)
    BY <1>1 DEF Reported
  <2>2. reports[i] \in Reports /\ reports[i] \in {reports[j] : j \in DOMAIN reports}
    BY <1>t DEF ShapesOK
  <2>3. Carries(reports[i]) \in Batches
    BY <2>2 DEF Carries, Reports, Batches
  <2>4. Carries(reports[i]) \in Underway
    <3>1. Carries(reports[i]) \in
            {Carries(r) : r \in {reports[j] : j \in DOMAIN reports}}
      BY <2>2, Zenon
    <3> QED BY <3>1, Zenon DEF Underway
  <2> QED BY <1>r, <2>1, <2>3, <2>4
<1>2. CASE Holds(unplaced, p) \/ Holds(pending, p)
           \/ Holds(taken.before, p) \/ Holds(taken.during, p)
  BY <1>2, <1>h, <1>t DEF ShapesOK
<1>3. CASE Answers(echo, held, p)
  BY <1>3, <1>r, <1>t DEF ShapesOK, Underway
<1>4. CASE Answers(echo, observed, p)
  BY <1>4, <1>r, <1>t DEF ShapesOK, Underway
<1>5. CASE slot # <<>> /\ Answers(echo, Head(slot).batch, p)
  <2>1. 1 \in DOMAIN slot /\ Head(slot) = slot[1] /\ slot[1] \in Messages
    BY <1>5, <1>t DEF ShapesOK
  <2>2. slot[1] \in {slot[i] : i \in DOMAIN slot}
    BY <2>1
  <2>3. slot[1].batch \in Underway /\ slot[1].batch \in Batches
    BY <2>1, <2>2 DEF Underway, Messages
  <2> QED BY <1>5, <1>r, <2>1, <2>3
<1> QED BY <1>c, <1>1, <1>2, <1>3, <1>4, <1>5, Zenon DEF Carried

\* No accepted fact is lost: while the host holds its coverage and the
\* coalescer has not unwound, every row behind the disk is reached by a report,
\* an accumulation or a batch on its way to the host.
THEOREM NothingForgotten == Spec => []StaleIsCovered
<1>1. Init => Standing /\ Kept
  BY StandingInit, KeptInit
<1>2. TypeOK /\ Standing /\ Kept /\ [Next]_vars => (Standing /\ Kept)'
  BY StandingKept, KeptKept
<1> QED BY <1>1, <1>2, WatchTyped, KeptCovers, PTL DEF Spec

---------------------------------------------------------------------------
\* No wakeup is lost.

HostAsleep == "host" \in waiting => host = "locking" /\ closing
CoalescerAsleep ==
  "coalescer" \in waiting =>
    /\ coalescer = "parked" /\ unplaced # <<>> /\ ~unsubscribed
    /\ healing \/ slot # <<>> \/ host = "unsubscribing"
LongSleep ==
  Covered /\ coalescer = "sleep" /\ nap = "idle" /\ ~healing =>
    wake \/ calling = "ringing" \/ (pending = <<>> /\ ~terminal)

LEMMA HostAsleepKept == Standing /\ HostAsleep /\ [Next]_vars => HostAsleep'
<1> SUFFICES ASSUME Standing, HostAsleep, [Next]_vars, "host" \in waiting'
             PROVE  host' = "locking" /\ closing'
  BY Zenon DEF HostAsleep
<1> USE DEF disk, backend, state, channels, worker, consumer
<1>0. ASSUME UNCHANGED <<waiting, host, closing>> PROVE host' = "locking" /\ closing'
  BY <1>0, Zenon DEF HostAsleep
<1>1. CASE Writers \/ RootMoves \/ Overflow \/ BackendFails \/ Callback
  <2>1. UNCHANGED <<waiting, host, closing>>
    BY <1>1, Zenon DEF Writers, Edit, Rename, Remove, Arrive, WriteOwn, Changed, RootMoves,
       Overflow, BackendFails, Callback, Ingest, Recheck, IngestRecheck, Ring
  <2> QED BY <1>0, <2>1
<1>2. CASE Plan \/ Woken \/ Due \/ Oversleeps \/ Suppress
  BY <1>0, <1>2, Zenon DEF Plan, Woken, Due, Oversleeps, Suppress
<1>3. CASE Disconnected \/ SendTerminal \/ Dies
  <2>1. waiting' = {}
    BY <1>3, Zenon DEF Disconnected, SendTerminal, Dies, Exits
  <2> QED BY <2>1
<1>4. CASE TakeUp
  <2>1. ~closing
    BY <1>4 DEF TakeUp, Standing, Busy
  <2>2. "host" \in waiting
    BY <1>4, Zenon DEF TakeUp
  <2> QED BY <2>1, <2>2, Zenon DEF HostAsleep
<1>5. CASE HandOver
  <2>1. waiting' \in {{}, {"coalescer"}}
    BY <1>5 DEF HandOver, Placing, Exits
  <2> QED BY <2>1
<1>6. CASE Resume
  <2>1. ~closing
    BY <1>6 DEF Resume, Standing, Busy
  <2>2. "host" \in waiting
    <3>1. waiting' \in {{}, waiting, waiting \cup {"coalescer"}}
      BY <1>6 DEF Resume, Placing, Exits
    <3> QED BY <3>1
  <2> QED BY <2>1, <2>2, Zenon DEF HostAsleep
<1>7. CASE Reconcile
  <2>1. waiting' = {} \/ UNCHANGED <<waiting, host, closing>>
    BY <1>7, Zenon DEF Reconcile, Receive
  <2> QED BY <1>0, <2>1
<1>8. CASE Absorb \/ Drain
  <2>1. waiting' = {}
    BY <1>8, Zenon DEF Absorb, Drain, Receive
  <2> QED BY <2>1
<1>9. CASE FinishWaits
  BY <1>9, Zenon DEF FinishWaits
<1>10. CASE FinishTakes
  <2>1. waiting' = {}
    BY <1>10 DEF FinishTakes
  <2> QED BY <2>1
<1>11. CASE PollFails \/ BeginHeal \/ DrainEnds \/ CheckAnchor \/ FinishWakes
            \/ FinishMerges \/ Leave \/ DropReceiver \/ Join
  <2>1. host # "locking" /\ waiting' = waiting
    BY <1>11 DEF PollFails, BeginHeal, DrainEnds, CheckAnchor, FinishWakes, FinishMerges,
                 Leave, DropReceiver, Join
  <2> QED BY <2>1, Zenon DEF HostAsleep
<1>12. CASE Unsubscribe
  <2>1. waiting' = {}
    BY <1>12, Zenon DEF Unsubscribe
  <2> QED BY <2>1
<1>13. CASE UNCHANGED vars
  BY <1>0, <1>13, Zenon DEF vars
<1> QED BY <1>1, <1>2, <1>3, <1>4, <1>5, <1>6, <1>7, <1>8, <1>9, <1>10, <1>11, <1>12, <1>13
        DEF Next, Coalesces, Polls, Heals, Closes

LEMMA CoalescerAsleepKept ==
  Standing /\ CoalescerAsleep /\ [Next]_vars => CoalescerAsleep'
<1> SUFFICES ASSUME Standing, CoalescerAsleep, [Next]_vars, "coalescer" \in waiting'
             PROVE  /\ coalescer' = "parked" /\ unplaced' # <<>> /\ ~unsubscribed'
                    /\ healing' \/ slot' # <<>> \/ host' = "unsubscribing"
  BY Zenon DEF CoalescerAsleep
<1> DEFINE Goal == /\ coalescer' = "parked" /\ unplaced' # <<>> /\ ~unsubscribed'
                   /\ healing' \/ slot' # <<>> \/ host' = "unsubscribing"
<1> USE DEF disk, backend, state, channels, worker, consumer
<1>a. ASSUME "coalescer" \in waiting
      PROVE  /\ coalescer = "parked" /\ unplaced # <<>> /\ ~unsubscribed
             /\ healing \/ slot # <<>> \/ host = "unsubscribing"
  BY <1>a, Zenon DEF CoalescerAsleep
<1>0. ASSUME UNCHANGED <<waiting, coalescer, unplaced, unsubscribed, healing, slot, host>>
      PROVE  Goal
  BY <1>0, <1>a, Zenon
<1>1. CASE Writers \/ RootMoves \/ Overflow \/ BackendFails \/ Callback
  <2>1. UNCHANGED <<waiting, coalescer, unplaced, unsubscribed, healing, slot, host>>
    BY <1>1, Zenon DEF Writers, Edit, Rename, Remove, Arrive, WriteOwn, Changed, RootMoves,
       Overflow, BackendFails, Callback, Ingest, Recheck, IngestRecheck, Ring
  <2> QED BY <1>0, <2>1
<1>2. CASE Plan \/ Woken \/ Due \/ Oversleeps \/ TakeUp \/ Suppress
  <2>1. coalescer # "parked" /\ waiting' = waiting
    BY <1>2 DEF Plan, Woken, Due, Oversleeps, TakeUp, Suppress
  <2> QED BY <1>a, <2>1
<1>3. CASE Disconnected \/ SendTerminal \/ Dies \/ Absorb \/ Drain \/ FinishTakes \/ Unsubscribe
  <2>1. waiting' = {}
    <3>1. CASE Disconnected \/ SendTerminal \/ Dies \/ Unsubscribe
      BY <3>1, Zenon DEF Disconnected, SendTerminal, Dies, Exits, Unsubscribe
    <3>2. CASE Absorb \/ Drain
      BY <3>2, Zenon DEF Absorb, Drain, Receive
    <3>3. CASE FinishTakes
      BY <3>3, Zenon DEF FinishTakes
    <3> QED BY <1>3, <3>1, <3>2, <3>3
  <2> QED BY <2>1
<1>p. ASSUME NEW o, NEW asleep, Placing(o, asleep), "coalescer" \notin asleep,
             UNCHANGED <<unsubscribed, healing, host>>
      PROVE  Goal
  <2>1. o # <<>> /\ ~unsubscribed /\ coalescer' = "parked" /\ unplaced' = o
        /\ (healing \/ slot # <<>>) /\ slot' = slot
    <3>1. ~(waiting' = {} \/ waiting' = asleep)
      BY <1>p
    <3> QED BY <1>p, <3>1, Zenon DEF Placing, Exits
  <2> QED BY <1>p, <2>1, Zenon
<1>4. CASE HandOver
  <2>1. Placing(<<held>>, {}) /\ UNCHANGED <<unsubscribed, healing, host>>
    BY <1>4, Zenon DEF HandOver
  <2>2. "coalescer" \notin {}
    OBVIOUS
  <2> QED BY <1>p, <2>1, <2>2
<1>5. CASE Resume
  <2>1. Placing(unplaced, waiting) /\ "coalescer" \notin waiting
        /\ UNCHANGED <<unsubscribed, healing, host>>
    BY <1>5, Zenon DEF Resume
  <2> QED BY <1>p, <2>1
<1>6. CASE Reconcile
  <2>1. waiting' = {}
        \/ UNCHANGED <<waiting, coalescer, unplaced, unsubscribed, healing, slot, host>>
    BY <1>6, Zenon DEF Reconcile, Receive
  <2> QED BY <1>0, <2>1
<1>7. CASE PollFails \/ DrainEnds
  <2>1. /\ UNCHANGED <<waiting, coalescer, unplaced, unsubscribed, healing>>
        /\ slot' = slot \/ (slot # <<>> /\ Head(slot).failed) \/ (slot = <<>> /\ slot' = slot)
        /\ host # "unsubscribing"
    BY <1>7 DEF PollFails, DrainEnds, ReceiveFails
  <2>2. coalescer = "parked" => ~(slot # <<>> /\ Head(slot).failed)
    BY DEF Standing
  <2> QED BY <1>a, <2>1, <2>2, Zenon
<1>8. CASE BeginHeal
  <2>1. healing' /\ UNCHANGED <<waiting, coalescer, unplaced, unsubscribed>>
    BY <1>8, Zenon DEF BeginHeal
  <2> QED BY <1>a, <2>1, Zenon
<1>9. CASE CheckAnchor \/ FinishWakes \/ FinishMerges \/ Leave
  <2>1. UNCHANGED <<waiting, coalescer, unplaced, unsubscribed, healing, slot>>
        /\ host # "unsubscribing"
    BY <1>9 DEF CheckAnchor, FinishWakes, FinishMerges, Leave
  <2> QED BY <1>a, <2>1, Zenon
<1>10. CASE FinishWaits
  <2>1. UNCHANGED <<coalescer, unplaced, unsubscribed, healing, slot, host>>
        /\ "coalescer" \in waiting
    BY <1>10 DEF FinishWaits
  <2> QED BY <1>a, <2>1, Zenon
<1>11. CASE DropReceiver
  <2>1. UNCHANGED <<waiting, coalescer, unplaced, unsubscribed>> /\ host' = "unsubscribing"
    BY <1>11, Zenon DEF DropReceiver
  <2> QED BY <1>a, <2>1, Zenon
<1>12. CASE Join
  <2>1. coalescer # "parked" /\ waiting' = waiting
    BY <1>12 DEF Join
  <2> QED BY <1>a, <2>1
<1>13. CASE UNCHANGED vars
  BY <1>0, <1>13, Zenon DEF vars
<1> QED BY <1>1, <1>2, <1>3, <1>4, <1>5, <1>6, <1>7, <1>8, <1>9, <1>10, <1>11, <1>12, <1>13
        DEF Next, Coalesces, Polls, Heals, Closes

LEMMA LongSleepKept == LongSleep /\ [Next]_vars => LongSleep'
<1> SUFFICES ASSUME LongSleep, [Next]_vars,
                    Covered', coalescer' = "sleep", nap' = "idle", ~healing'
             PROVE  wake' \/ calling' = "ringing" \/ (pending' = <<>> /\ ~terminal')
  BY Zenon DEF LongSleep
<1> DEFINE Goal == wake' \/ calling' = "ringing" \/ (pending' = <<>> /\ ~terminal')
<1> USE DEF disk, backend, state, channels, worker, consumer
<1>0. ASSUME UNCHANGED <<coalescer, nap, healing, wake, calling, pending, terminal>>, Covered
      PROVE  Goal
  BY <1>0, Zenon DEF LongSleep
<1>1. CASE Writers \/ RootMoves \/ Overflow
  <2>1. UNCHANGED <<coalescer, nap, healing, wake, calling, pending, terminal, host>>
    BY <1>1, Zenon DEF Writers, Edit, Rename, Remove, Arrive, WriteOwn, Changed, RootMoves,
       Overflow
  <2> QED BY <1>0, <2>1, Zenon DEF Covered
<1>2. CASE BackendFails \/ Ingest \/ IngestRecheck \/ Ring
  <2>1. wake' \/ calling' = "ringing"
    BY <1>2, Zenon DEF BackendFails, Ingest, IngestRecheck, Ring
  <2> QED BY <2>1
<1>2a. CASE Recheck
  <2>1. UNCHANGED <<coalescer, nap, healing, wake, pending, terminal, host>>
    BY <1>2a, Zenon DEF Recheck
  <2>2. calling # "ringing"
    BY <1>2a DEF Recheck
  <2> QED BY <2>1, <2>2, Zenon DEF LongSleep, Covered
<1>3. CASE Plan
  <2>1. UNCHANGED <<pending, healing, terminal>>
        /\ nap' = (IF pending # <<>> /\ ~healing /\ ~terminal THEN "due" ELSE "idle")
        /\ coalescer' = IF terminal /\ ~healing THEN "take" ELSE "sleep"
    BY <1>3, Zenon DEF Plan
  <2>2. ~(pending # <<>> /\ ~healing /\ ~terminal) /\ ~(terminal /\ ~healing)
    BY <2>1
  <2>3. ~healing
    BY <2>1
  <2> QED BY <2>1, <2>2, <2>3, Zenon
<1>4. CASE Woken \/ Due \/ Oversleeps \/ TakeUp \/ Suppress
  BY <1>4 DEF Woken, Due, Oversleeps, TakeUp, Suppress
<1>5. CASE Disconnected \/ SendTerminal \/ Dies
  BY <1>5 DEF Disconnected, SendTerminal, Dies, Exits
<1>6. CASE HandOver \/ Resume
  <2>1. coalescer' \in {"exited", "plan", "parked"}
    BY <1>6, Zenon DEF HandOver, Resume, Placing, Exits
  <2> QED BY <2>1
<1>7. CASE Polls \/ Absorb \/ Drain \/ DrainEnds \/ FinishWaits \/ FinishMerges \/ Leave
  <2>1. UNCHANGED <<coalescer, nap, healing, wake, calling, pending, terminal>>
    <3>1. CASE FinishMerges
      BY <3>1, Zenon DEF FinishMerges
    <3> QED BY <1>7, <3>1, Zenon DEF Polls, Reconcile, PollFails, Absorb, Drain, DrainEnds,
           FinishWaits, Leave
  <2>2. Covered
    BY <1>7 DEF Polls, Reconcile, PollFails, Absorb, Drain, DrainEnds, FinishWaits,
                FinishMerges, Leave, Covered
  <2> QED BY <1>0, <2>1, <2>2
<1>8. CASE BeginHeal
  BY <1>8, Zenon DEF BeginHeal
<1>9. CASE CheckAnchor
  <2>1. anchored
    BY <1>9 DEF CheckAnchor, Covered
  <2>2. UNCHANGED <<coalescer, nap, healing, wake, calling, pending>>
    BY <1>9, Zenon DEF CheckAnchor
  <2>3. terminal' => terminal
    BY <1>9, <2>1, Zenon DEF CheckAnchor
  <2>4. Covered
    BY <1>9 DEF CheckAnchor, Covered
  <2> QED BY <2>2, <2>3, <2>4, Zenon DEF LongSleep
<1>10. CASE FinishTakes
  <2>1. pending' = <<>> /\ ~terminal'
    BY <1>10, Zenon DEF FinishTakes
  <2> QED BY <2>1
<1>11. CASE FinishWakes
  <2>1. wake'
    BY <1>11, Zenon DEF FinishWakes
  <2> QED BY <2>1
<1>12. CASE Closes
  BY <1>12 DEF Closes, DropReceiver, Unsubscribe, Join, Covered
<1>13. CASE UNCHANGED vars
  BY <1>0, <1>13, Zenon DEF vars, Covered
<1> QED BY <1>1, <1>2, <1>2a, <1>3, <1>4, <1>5, <1>6, <1>7, <1>8, <1>9, <1>10, <1>11, <1>12,
           <1>13 DEF Next, Callback, Coalesces, Heals

\* No thread sleeps through what it waits for: who sleeps on the condition
\* still waits for something another thread will signal, and the coalescer's
\* sleep without a deadline leaves nothing that is due behind it.
THEOREM WakeupsArrive == Spec => []NoLostWakeup
<1>1. Init => HostAsleep /\ CoalescerAsleep /\ LongSleep
  BY DEF Init, HostAsleep, CoalescerAsleep, LongSleep
<1>2. HostAsleep /\ CoalescerAsleep /\ LongSleep => NoLostWakeup
  BY Zenon DEF HostAsleep, CoalescerAsleep, LongSleep, NoLostWakeup
<1>3. TypeOK /\ Standing /\ [Next]_vars /\ HostAsleep /\ CoalescerAsleep /\ LongSleep
      => (Standing /\ HostAsleep /\ CoalescerAsleep /\ LongSleep)'
  BY StandingKept, HostAsleepKept, CoalescerAsleepKept, LongSleepKept
<1> QED BY <1>1, <1>2, <1>3, WatchTyped, StandingInit, PTL DEF Spec

=============================================================================
