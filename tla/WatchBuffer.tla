---------------------------- MODULE WatchBuffer ----------------------------
(***************************************************************************)
(* The watch buffer of one subscription and the host that empties it:      *)
(* crates/norn-fs/src/watch.rs with the consumer in                        *)
(* crates/norn-host/src/production.rs.                                     *)
(*                                                                         *)
(* Three threads share the subscription's `State` under one lock.  The     *)
(* backend's callback folds each report into the accumulation `pending`    *)
(* and wakes the coalescer; the coalescer takes a settled accumulation,    *)
(* drops the echoes of own writes outside the lock, and hands the batch    *)
(* over, into a delivery slot of one or, behind a full slot or an open     *)
(* heal window, into `unplaced`; the host's attachment receives batches,   *)
(* and around each heal opens a window, drains the slot and closes the     *)
(* window over everything reported meanwhile.                              *)
(*                                                                         *)
(* What is on the disk is kept beside them, as far as a report can be      *)
(* right or wrong about it: `tree` gives each path the spelling its        *)
(* directory renders, and `stale` holds the paths whose rows are behind    *)
(* the disk.  A path leaves `stale` when the host derives at a root that   *)
(* reaches it.  Folding roots are the case modelled: several spellings     *)
(* share one path.                                                         *)
(***************************************************************************)
EXTENDS Naturals, Sequences, FiniteSets

CONSTANTS
  Paths,       \* the identities of the vault's entries
  Above,       \* <<q, p>>: q is a directory somewhere above p
  Spellings,   \* the names a directory may render an entry under
  Gone,        \* the spelling of an entry that is not there
  Planted,     \* the tree the attach healed
  Orders,      \* the orders the backend reports the halves of a rename in
  Cap,         \* DIRTY_ROOT_CAP
  Disturbances \* bound: changes to the tree and failures, together

\* A directory is above what is above it, and some root of any set of roots
\* has none of the others above it.
ASSUME PathsAssumption ==
  /\ Above \subseteq Paths \X Paths
  /\ \A p, q, r \in Paths :
       <<p, q>> \in Above /\ <<q, r>> \in Above => <<p, r>> \in Above
  /\ \A S \in SUBSET Paths :
       S # {} => \E t \in S : \A q \in S : <<q, t>> \notin Above
ASSUME SpellingsAssumption ==
  Gone \notin Spellings /\ Planted \in [Paths -> Spellings \cup {Gone}]
ASSUME OrdersAssumption == Orders \subseteq {"happened", "arrival first"}
ASSUME BoundsAssumption == Cap \in Nat \ {0} /\ Disturbances \in Nat

VARIABLES
  tree,          \* the spelling each path is rendered under, or Gone
  echo,          \* paths that hold what the own-write ledger expects there
  stale,         \* paths whose rows are behind the disk
  anchored,      \* the registered root is still the directory covered
  disturbances,  \* how many changes and failures there have been
  reports,       \* what the backend has not yet called back with
  calling,       \* where the backend's callback stands
  pending,       \* State.pending: the accumulation
  terminal,      \* State.terminal: a terminal cause not yet taken
  healing,       \* State.healing: a heal window is open
  closing,       \* State.closing: the coalescer is closing a batch
  unplaced,      \* State.unplaced
  unsubscribed,  \* State.unsubscribed
  died,          \* State.coalescer_died
  waiting,       \* the threads asleep on the `handoff` condition
  slot,          \* the delivery slot's channel
  receiver,      \* the slot's receiving end stands
  wake,          \* the wake channel holds a token
  coalescer,     \* where the coalescer's thread stands
  nap,           \* how long it sleeps: until the batch is due, or an hour
  held,          \* the batch it has taken up
  host,          \* where the attachment's thread stands
  observed,      \* the attachment's heal_observed
  drainFailed,   \* the drain before a window's close met an error
  taken          \* what finish_heal took under the lock

disk      == <<tree, echo, stale, anchored, disturbances>>
backend   == <<reports, calling>>
state     == <<pending, terminal, healing, closing, unplaced, unsubscribed, died>>
channels  == <<slot, receiver, wake>>
worker    == <<coalescer, nap, held>>
consumer  == <<host, observed, drainFailed, taken>>
vars == <<disk, backend, state, waiting, channels, worker, consumer>>

---------------------------------------------------------------------------
\* Paths and their names.

Below(p)  == {q \in Paths : <<p, q>> \in Above}
Upward(p) == {q \in Paths : <<q, p>> \in Above} \cup {p}
Leaves    == {p \in Paths : Below(p) = {}}

Trees == [Paths -> Spellings \cup {Gone}]

\* A path spelled through the names its ancestors are rendered under.
Name(t, p) == [q \in Upward(p) |-> t[q]]

---------------------------------------------------------------------------
\* Batches.  A root is carried at a name, and is dead where a report said
\* that name is gone.

Names == UNION {[S -> Spellings \cup {Gone}] : S \in SUBSET Paths}
Roots == UNION {[S -> [name : Names, dead : BOOLEAN]] : S \in SUBSET Paths}
Batches == [roots : Roots, rescan : BOOLEAN]
Reports == [kind : {"root", "lost", "anchor"}, root : Roots]
Messages == [failed : BOOLEAN, batch : Batches]

NoRoots == [p \in {} |-> TRUE]
Nothing == [roots |-> NoRoots, rescan |-> FALSE]
Widened(b) == [b EXCEPT !.roots = NoRoots, !.rescan = TRUE]
Keeping(b, S) == [b EXCEPT !.roots = [p \in DOMAIN b.roots \cap S |-> b.roots[p]]]
IsEmpty(b) == DOMAIN b.roots = {} /\ ~b.rescan

\* A live report takes the name and withdraws a death recorded against any
\* other; a death only marks the name it spells.
Respelled(old, new) ==
  IF old.name = new.name THEN [old EXCEPT !.dead = @ \/ new.dead]
  ELSE IF new.dead THEN old ELSE new

Noted(roots, others) ==
  [p \in DOMAIN roots \cup DOMAIN others |->
     IF p \notin DOMAIN others THEN roots[p]
     ELSE IF p \notin DOMAIN roots THEN others[p]
     ELSE Respelled(roots[p], others[p])]

\* A root is spoken for by one above it, unless that one died and it did not.
Closed(b) ==
  Keeping(b, {p \in DOMAIN b.roots : \A q \in DOMAIN b.roots \cap Upward(p) :
                               q # p => b.roots[q].dead /\ ~b.roots[p].dead})

Merge(b, other) ==
  LET m == Closed([roots  |-> Noted(b.roots, other.roots),
                   rescan |-> b.rescan \/ other.rescan])
  IN IF Cardinality(DOMAIN m.roots) > Cap THEN Widened(m) ELSE m

\* Reports fold into the accumulation unclosed; at the cap it widens.
Accepted(b, root) ==
  LET noted == Noted(b.roots, root) IN
  IF b.rescan THEN b
  ELSE IF Cardinality(DOMAIN noted) >= Cap THEN Widened(b)
  ELSE [b EXCEPT !.roots = noted]

\* Own-write suppression: echoes leave the batch, and then it is closed.  An
\* entry whose lifetime ended, or that the ledger had no room for, is no echo.
Suppressed(b, E) == Closed(Keeping(b, Paths \ E))

NotTaken == [before |-> <<>>, during |-> <<>>]

Or(option, default) == IF option = <<>> THEN default ELSE Head(option)

\* The paths a derivation over a batch brings up to date.  A rescan heals the
\* vault; a root is read at the spelling each directory lists, whichever one
\* the root carries, with everything under it.
Reach(b) ==
  IF b.rescan THEN Paths ELSE UNION {Below(p) \cup {p} : p \in DOMAIN b.roots}

---------------------------------------------------------------------------
\* Every thread starts with nothing to do over a vault the heal has read.

Init ==
  /\ tree = Planted
  /\ echo = {} /\ stale = {} /\ anchored = TRUE
  /\ disturbances = 0
  /\ reports = <<>> /\ calling = "idle"
  /\ pending = <<>> /\ terminal = FALSE
  /\ healing = FALSE /\ closing = FALSE
  /\ unplaced = <<>> /\ unsubscribed = FALSE /\ died = FALSE
  /\ waiting = {}
  /\ slot = <<>> /\ receiver = TRUE /\ wake = FALSE
  /\ coalescer = "plan" /\ nap = "idle" /\ held = Nothing
  /\ host = "idle" /\ observed = Nothing
  /\ drainFailed = FALSE /\ taken = NotTaken

---------------------------------------------------------------------------
\* The host still holds the coverage it means to answer from.
Covered == host \notin {"leaving", "unsubscribing", "joining", "gone"}

Disturbance ==
  /\ Covered /\ disturbances < Disturbances
  /\ disturbances' = disturbances + 1

\* The vault's writers.  Each change owes the reports a backend makes of it.

Root(p, name, isDead) ==
  [kind |-> "root", root |-> [q \in {p} |-> [name |-> name, dead |-> isDead]]]
Lost == [kind |-> "lost", root |-> NoRoots]
Anchor == [kind |-> "anchor", root |-> NoRoots]

Changed(t, behind, rewritten, sent) ==
  /\ Disturbance
  /\ tree' = t
  /\ stale' = stale \cup behind
  /\ echo' = echo \ rewritten
  /\ reports' = reports \o sent
  /\ UNCHANGED <<anchored, calling, state, waiting, channels, worker,
                 consumer>>

Edit(p) ==
  /\ p \in Leaves /\ tree[p] # Gone
  /\ Changed(tree, {p}, {p}, <<Root(p, Name(tree, p), FALSE)>>)

\* A directory rename reports the directory alone, the two halves in the order
\* they happened or, from the polling backend, the arrival first.
Rename(p) ==
  \E s \in Spellings \ {tree[p]} :
    LET t == [tree EXCEPT ![p] = s]
        left    == Root(p, Name(tree, p), TRUE)
        arrived == Root(p, Name(t, p), FALSE)
    IN /\ tree[p] # Gone /\ p \notin echo
       /\ \E order \in Orders :
            Changed(t, Below(p) \cup {p}, {},
                    IF order = "happened" THEN <<left, arrived>> ELSE <<arrived, left>>)

Remove(p) ==
  /\ tree[p] # Gone
  /\ Changed([q \in Paths |-> IF p \in Upward(q) THEN Gone ELSE tree[q]],
             Below(p) \cup {p}, Below(p) \cup {p}, <<Root(p, Name(tree, p), TRUE)>>)

\* An entry arrives, created empty or moved in with everything under it.
Arrive(p) ==
  \E s \in Spellings, whole \in BOOLEAN :
    LET t == [q \in Paths |-> IF q = p \/ (whole /\ q \in Below(p)) THEN s ELSE tree[q]]
    IN /\ tree[p] = Gone
       /\ \A q \in Upward(p) \ {p} : tree[q] # Gone
       /\ Changed(t, Below(p) \cup {p}, Below(p) \cup {p},
                  <<Root(p, Name(t, p), FALSE)>>)

\* A write of norn's own publishes over a row that is current, commits the
\* row it leaves and records it in the ledger.
WriteOwn(p) ==
  /\ p \in Leaves /\ tree[p] # Gone /\ p \notin stale
  /\ Disturbance
  /\ echo' = echo \cup {p}
  /\ reports' = Append(reports, Root(p, Name(tree, p), FALSE))
  /\ UNCHANGED <<tree, stale, anchored, calling, state, waiting, channels,
                 worker, consumer>>

\* The registered name comes to lead somewhere else.
RootMoves ==
  /\ Disturbance
  /\ anchored /\ anchored' = FALSE
  /\ reports' = Append(reports, Anchor)
  /\ UNCHANGED <<tree, echo, stale, calling, state, waiting, channels,
                 worker, consumer>>

\* The backend's queue overflows: it drops what it held and says so.
Overflow ==
  /\ Disturbance
  /\ reports # <<>> /\ reports' = <<Lost>>
  /\ UNCHANGED <<tree, echo, stale, anchored, calling, state, waiting,
                 channels, worker, consumer>>

---------------------------------------------------------------------------
\* The backend's callback: one report folded into the shared state, and then
\* the wake.  It never waits on the consumer.

Watching == host \notin {"unsubscribing", "joining", "gone"}

Ingest ==
  /\ Watching /\ calling = "idle" /\ reports # <<>>
  /\ LET report == Head(reports) IN
     \/ /\ report.kind = "root"
        /\ pending' = <<Accepted(Or(pending, Nothing), report.root)>>
     \/ /\ report.kind = "lost"
        /\ pending' = <<Widened(Or(pending, Nothing))>>
  /\ reports' = Tail(reports)
  /\ calling' = "ringing"
  /\ UNCHANGED <<disk, terminal, healing, closing, unplaced, unsubscribed, died, waiting,
                 channels, worker, consumer>>

\* A report at the registered name has the root looked at, outside the lock.
Recheck ==
  /\ Watching /\ calling = "idle" /\ reports # <<>>
  /\ Head(reports).kind = "anchor"
  /\ calling' = IF anchored THEN "ringing" ELSE "unrooted"
  /\ reports' = Tail(reports)
  /\ UNCHANGED <<disk, state, waiting, channels, worker, consumer>>

\* A root found moved is folded in under the lock, taken again.
IngestRecheck ==
  /\ Watching /\ calling = "unrooted"
  /\ terminal' = TRUE
  /\ calling' = "ringing"
  /\ UNCHANGED <<disk, reports, pending, healing, closing, unplaced, unsubscribed, died,
                 waiting, channels, worker, consumer>>

BackendFails ==
  /\ Watching /\ calling = "idle"
  /\ Disturbance
  /\ terminal' = TRUE
  /\ calling' = "ringing"
  /\ UNCHANGED <<tree, echo, stale, anchored, reports, pending, healing,
                 closing, unplaced, unsubscribed, died, waiting, channels, worker,
                 consumer>>

Ring ==
  /\ Watching /\ calling = "ringing"
  /\ calling' = "idle"
  /\ wake' = TRUE
  /\ UNCHANGED <<disk, reports, state, waiting, slot, receiver, worker, consumer>>

---------------------------------------------------------------------------
\* The coalescer.

\* How long to sleep is read under the lock, and the sleep is outside it.
Plan ==
  /\ coalescer = "plan"
  /\ nap' = IF pending # <<>> /\ ~healing /\ ~terminal THEN "due" ELSE "idle"
  /\ coalescer' = IF terminal /\ ~healing THEN "take" ELSE "sleep"
  /\ UNCHANGED <<disk, backend, state, waiting, channels, held, consumer>>

Woken ==
  /\ coalescer = "sleep" /\ wake
  /\ wake' = FALSE
  /\ nap' = "idle"
  /\ coalescer' = "plan"
  /\ UNCHANGED <<disk, backend, state, waiting, slot, receiver, held, consumer>>

\* The quiet window passes, or the accumulation reaches its age.
Due ==
  /\ coalescer = "sleep" /\ nap = "due"
  /\ nap' = "idle"
  /\ coalescer' = "take"
  /\ UNCHANGED <<disk, backend, state, waiting, channels, held, consumer>>

\* The hour passes.
Oversleeps ==
  /\ coalescer = "sleep" /\ nap = "idle" /\ host # "joining"
  /\ coalescer' = "take"
  /\ UNCHANGED <<disk, backend, state, waiting, channels, nap, held, consumer>>

\* Mutants: the thread leaves and wakes nobody, or leaves its mark standing.
ExitsQuietly == coalescer' = "exited" /\ closing' = FALSE /\ waiting' = waiting
ExitsMarked == coalescer' = "exited" /\ closing' = closing /\ waiting' = {}

\* The thread leaves through CoalescerExit.
Exits == coalescer' = "exited" /\ closing' = FALSE /\ waiting' = {}

\* Both ends that could wake it are gone.
Disconnected ==
  /\ coalescer = "sleep" /\ ~wake
  /\ host = "joining"
  /\ Exits
  /\ UNCHANGED <<disk, backend, pending, terminal, healing, unplaced, unsubscribed,
                 died, channels, nap, held, consumer>>

TakeUp ==
  /\ coalescer = "take"
  /\ UNCHANGED <<disk, backend, healing, unplaced, unsubscribed, died, waiting, channels,
                 nap, consumer>>
  /\ \/ /\ ~healing /\ terminal
        /\ terminal' = FALSE
        /\ coalescer' = "erring"
        /\ UNCHANGED <<pending, closing, held>>
     \/ /\ ~healing /\ ~terminal /\ pending # <<>>
        /\ held' = Head(pending)
        /\ pending' = <<>>
        /\ closing' = TRUE
        /\ coalescer' = "suppressing"
        /\ UNCHANGED terminal
     \/ /\ healing \/ (~terminal /\ pending = <<>>)
        /\ closing' = (closing /\ healing)
        /\ coalescer' = "plan"
        /\ UNCHANGED <<pending, terminal, held>>

\* The terminal error waits for room in the slot, outside the lock.
SendTerminal ==
  /\ coalescer = "erring"
  /\ slot = <<>> \/ ~receiver
  /\ slot' = IF receiver THEN <<[failed |-> TRUE, batch |-> Nothing]>> ELSE slot
  /\ Exits
  /\ UNCHANGED <<disk, backend, pending, terminal, healing, unplaced, unsubscribed,
                 died, receiver, wake, nap, held, consumer>>

Suppress ==
  /\ coalescer = "suppressing"
  /\ \E E \in SUBSET echo : held' = Suppressed(held, E)
  /\ coalescer' = "handing"
  /\ UNCHANGED <<disk, backend, state, waiting, channels, nap, consumer>>

\* The thread unwinds out of suppression, with the batch it had taken up.
Dies ==
  /\ coalescer = "suppressing"
  /\ Disturbance
  /\ died' = TRUE
  /\ held' = Nothing
  /\ Exits
  /\ UNCHANGED <<tree, echo, stale, anchored, backend, pending, terminal,
                 healing, unplaced, unsubscribed, channels, nap, consumer>>

\* One turn of hand_over's loop over the batch it finds unplaced.  A turn that
\* finds neither room nor the batch gone sleeps on the condition.
Placing(batches, asleep) ==
  \/ /\ unsubscribed \/ (~healing /\ batches # <<>> /\ ~receiver)
     /\ unplaced' = IF unsubscribed THEN batches ELSE <<>>
     /\ Exits
     /\ UNCHANGED slot
  \/ /\ ~unsubscribed
     /\ closing' = FALSE
     /\ \/ /\ ~healing /\ batches # <<>> /\ receiver /\ slot = <<>>
           /\ slot' = <<[failed |-> FALSE, batch |-> Head(batches)]>>
           /\ unplaced' = <<>>
           /\ coalescer' = "plan" /\ waiting' = asleep
        \/ /\ batches # <<>> /\ (healing \/ (receiver /\ slot # <<>>))
           /\ unplaced' = batches
           /\ coalescer' = "parked" /\ waiting' = asleep \cup {"coalescer"}
           /\ UNCHANGED slot
        \/ /\ batches = <<>>
           /\ unplaced' = <<>>
           /\ coalescer' = "plan" /\ waiting' = asleep
           /\ UNCHANGED slot

HandOver ==
  /\ coalescer = "handing"
  /\ Placing(<<held>>, {})
  /\ held' = Nothing
  /\ UNCHANGED <<disk, backend, pending, terminal, healing, unsubscribed, died,
                 receiver, wake, nap, consumer>>

Resume ==
  /\ coalescer = "parked" /\ "coalescer" \notin waiting
  /\ Placing(unplaced, waiting)
  /\ UNCHANGED <<disk, backend, pending, terminal, healing, unsubscribed, died,
                 receiver, wake, nap, held, consumer>>

---------------------------------------------------------------------------
\* The host's attachment.

\* Mutant: a batch is received and the one who waits for its room not told.
ReceiveQuietly ==
  /\ waiting' = waiting
  /\ \/ /\ slot # <<>> /\ ~Head(slot).failed
        /\ slot' = <<>>
        /\ UNCHANGED unplaced
     \/ /\ slot = <<>> /\ coalescer # "exited" /\ ~healing /\ unplaced # <<>>
        /\ unplaced' = <<>>
        /\ UNCHANGED slot

\* What a receive finds: the slot's batch first, then with no window open and
\* the coalescer still there the batch waiting behind it.
Receive ==
  /\ waiting' = {}
  /\ \/ /\ slot # <<>> /\ ~Head(slot).failed
        /\ slot' = <<>>
        /\ UNCHANGED unplaced
     \/ /\ slot = <<>> /\ coalescer # "exited" /\ ~healing /\ unplaced # <<>>
        /\ unplaced' = <<>>
        /\ UNCHANGED slot

Received == IF slot # <<>> THEN Head(slot).batch ELSE Head(unplaced)

\* A receive meets the terminal error, or the end of the stream.
ReceiveFails ==
  \/ slot # <<>> /\ Head(slot).failed /\ slot' = <<>>
  \/ slot = <<>> /\ coalescer = "exited" /\ UNCHANGED slot

\* `poll`: the heal's batch ahead of the slot, and a reconcile of what it found.
Reconcile ==
  /\ host = "idle"
  /\ UNCHANGED <<tree, echo, anchored, disturbances, backend, pending, terminal,
                 healing, closing, unsubscribed, died, receiver, wake, worker, host,
                 drainFailed, taken>>
  /\ \/ /\ ~IsEmpty(observed)
        /\ stale' = stale \ Reach(observed)
        /\ observed' = Nothing
        /\ UNCHANGED <<slot, unplaced, waiting>>
     \/ /\ IsEmpty(observed)
        /\ Receive
        /\ stale' = stale \ Reach(Received)
        /\ UNCHANGED observed

\* Maintenance keeps a settled batch for the next poll.
Absorb ==
  /\ host = "idle" /\ IsEmpty(observed)
  /\ Receive
  /\ observed' = Merge(observed, Received)
  /\ UNCHANGED <<disk, backend, pending, terminal, healing, closing, unsubscribed, died,
                 receiver, wake, worker, host, drainFailed, taken>>

PollFails ==
  /\ host = "idle" /\ IsEmpty(observed)
  /\ ReceiveFails
  /\ host' = "leaving"
  /\ UNCHANGED <<disk, backend, state, waiting, receiver, wake, worker, observed,
                 drainFailed, taken>>

BeginHeal ==
  /\ host = "idle"
  /\ healing' = TRUE
  /\ host' = "window"
  /\ UNCHANGED <<disk, backend, pending, terminal, closing, unplaced, unsubscribed, died,
                 waiting, channels, worker, observed, drainFailed, taken>>

\* drain_settled: every batch the slot held as the window opened.
Drain ==
  /\ host = "window"
  /\ Receive
  /\ observed' = Merge(observed, Received)
  /\ UNCHANGED <<disk, backend, pending, terminal, healing, closing, unsubscribed, died,
                 receiver, wake, worker, host, drainFailed, taken>>

DrainEnds ==
  /\ host = "window"
  /\ \/ /\ slot = <<>> /\ coalescer # "exited"
        /\ UNCHANGED <<slot, drainFailed>>
     \/ /\ ReceiveFails
        /\ drainFailed' = TRUE
  /\ host' = "finish"
  /\ UNCHANGED <<disk, backend, state, waiting, receiver, wake, worker, observed, taken>>

\* finish_heal looks at the root before it takes the lock.  A root that moved
\* leaves the window open.
CheckAnchor ==
  /\ host = "finish"
  /\ host' = IF anchored THEN "locking" ELSE "leaving"
  /\ terminal' = (terminal \/ ~anchored)
  /\ UNCHANGED <<disk, backend, pending, healing, closing, unplaced, unsubscribed, died,
                 waiting, channels, worker, observed, drainFailed, taken>>

FinishWaits ==
  /\ host = "locking" /\ closing /\ "host" \notin waiting
  /\ waiting' = waiting \cup {"host"}
  /\ UNCHANGED <<disk, backend, state, channels, worker, consumer>>

\* Mutant: the close takes the accumulation and drops the batch held behind it.
FinishForgets ==
  /\ host = "locking" /\ ~closing /\ "host" \notin waiting
  /\ healing' = FALSE
  /\ unplaced' = <<>> /\ pending' = <<>>
  /\ waiting' = {}
  /\ terminal' = FALSE
  /\ IF terminal \/ died
     THEN host' = "leaving" /\ UNCHANGED taken
     ELSE host' = "waking" /\ taken' = [before |-> <<>>, during |-> pending]
  /\ UNCHANGED <<disk, backend, closing, unsubscribed, died, channels, worker, observed,
                 drainFailed>>

\* The window closes: the batch held for it and the accumulation behind it.
FinishTakes ==
  /\ host = "locking" /\ ~closing /\ "host" \notin waiting
  /\ healing' = FALSE
  /\ unplaced' = <<>> /\ pending' = <<>>
  /\ waiting' = {}
  /\ terminal' = FALSE
  /\ IF terminal \/ died
     THEN host' = "leaving" /\ UNCHANGED taken
     ELSE host' = "waking" /\ taken' = [before |-> unplaced, during |-> pending]
  /\ UNCHANGED <<disk, backend, closing, unsubscribed, died, channels, worker, observed,
                 drainFailed>>

\* A window that closed over a failure wakes nobody.
FinishWakes ==
  /\ host = "waking"
  /\ wake' = TRUE
  /\ host' = "merging"
  /\ UNCHANGED <<disk, backend, state, waiting, slot, receiver, worker, observed,
                 drainFailed, taken>>

FinishMerges ==
  /\ host = "merging"
  /\ \E during \in {Suppressed(b, E) : b \in {Or(taken.during, Nothing)}, E \in SUBSET echo} :
       \E batch \in {Merge(Or(taken.before, Nothing), during)} :
         observed' = Merge(observed, batch)
  /\ taken' = NotTaken
  /\ host' = IF drainFailed THEN "leaving" ELSE "idle"
  /\ UNCHANGED <<disk, backend, state, waiting, channels, worker, drainFailed>>

\* The coverage is given back, by a detach or over a failure.
Leave ==
  /\ host = "idle"
  /\ host' = "leaving"
  /\ UNCHANGED <<disk, backend, state, waiting, channels, worker, observed, drainFailed,
                 taken>>

\* close_owned: the watcher and the slot's receiver go first, then the mark is
\* set and the coalescer woken, then the wake goes and the thread is joined.
DropReceiver ==
  /\ host = "leaving"
  /\ reports' = <<>> /\ calling' = "idle"
  /\ receiver' = FALSE /\ slot' = <<>>
  /\ host' = "unsubscribing"
  /\ UNCHANGED <<disk, state, waiting, wake, worker, observed, drainFailed, taken>>

Unsubscribe ==
  /\ host = "unsubscribing"
  /\ unsubscribed' = TRUE
  /\ waiting' = {}
  /\ host' = "joining"
  /\ UNCHANGED <<disk, backend, pending, terminal, healing, closing, unplaced, died,
                 channels, worker, observed, drainFailed, taken>>

Join ==
  /\ host = "joining" /\ coalescer = "exited"
  /\ host' = "gone"
  /\ UNCHANGED <<disk, backend, state, waiting, channels, worker, observed, drainFailed,
                 taken>>

---------------------------------------------------------------------------

Writers == \E p \in Paths : Edit(p) \/ Rename(p) \/ Remove(p) \/ Arrive(p) \/ WriteOwn(p)
Callback == Ingest \/ Recheck \/ IngestRecheck \/ Ring
Coalesces == Plan \/ Woken \/ Due \/ Disconnected \/ TakeUp \/ SendTerminal \/ Suppress
             \/ HandOver \/ Resume
Heals == Drain \/ DrainEnds \/ CheckAnchor \/ FinishWaits \/ FinishTakes \/ FinishWakes
         \/ FinishMerges
Closes == DropReceiver \/ Unsubscribe \/ Join
Polls == Reconcile \/ PollFails

Next ==
  \/ Writers \/ RootMoves \/ Overflow \/ BackendFails \/ Callback
  \/ Coalesces \/ Oversleeps \/ Dies
  \/ Polls \/ Absorb \/ BeginHeal \/ Heals \/ Leave \/ Closes

Spec == Init /\ [][Next]_vars

\* The backend calls back, the coalescer runs and its short sleep ends (an
\* hour's need not), an opened window is closed, a drop goes through, and the
\* host polls again and again between its heals.
FairSpec ==
  /\ Spec
  /\ WF_vars(Callback) /\ WF_vars(Coalesces)
  /\ WF_vars(Heals) /\ WF_vars(Closes)
  /\ SF_vars(Polls)

---------------------------------------------------------------------------
\* Properties.

FlagsOK ==
  /\ anchored \in BOOLEAN /\ terminal \in BOOLEAN
  /\ healing \in BOOLEAN /\ closing \in BOOLEAN /\ unsubscribed \in BOOLEAN
  /\ died \in BOOLEAN /\ receiver \in BOOLEAN /\ wake \in BOOLEAN
  /\ drainFailed \in BOOLEAN

ShapesOK ==
  /\ tree \in Trees
  /\ echo \subseteq Leaves /\ stale \subseteq Paths
  /\ disturbances \in Nat
  /\ reports \in Seq(Reports) /\ calling \in {"idle", "unrooted", "ringing"}
  /\ pending \in Seq(Batches) /\ Len(pending) <= 1
  /\ unplaced \in Seq(Batches) /\ Len(unplaced) <= 1
  /\ waiting \subseteq {"coalescer", "host"}
  /\ slot \in Seq(Messages) /\ Len(slot) <= 1
  /\ coalescer \in {"plan", "sleep", "take", "erring", "suppressing", "handing",
                    "parked", "exited"}
  /\ nap \in {"due", "idle"} /\ held \in Batches
  /\ host \in {"idle", "window", "finish", "locking", "waking", "merging", "leaving",
               "unsubscribing", "joining", "gone"}
  /\ observed \in Batches
  /\ taken \in [before : Seq(Batches), during : Seq(Batches)]
  /\ Len(taken.before) <= 1 /\ Len(taken.during) <= 1

\* Every variable keeps its shape: no report, no batch and no merge of two is
\* ever of a form that another of the three threads cannot take.
TypeOK == FlagsOK /\ ShapesOK

Carries(r) == [roots |-> r.root, rescan |-> r.kind = "lost"]

\* What is on its way to the host: the batches, and the reports not folded in.
Underway ==
  {observed, held}
  \cup {m.batch : m \in {slot[i] : i \in DOMAIN slot}}
  \cup (UNION {{o[i] : i \in DOMAIN o} :
                 o \in {unplaced, pending, taken.before, taken.during}})
  \cup {Carries(r) : r \in {reports[i] : i \in DOMAIN reports}}

\* No accepted fact is lost.  While the host holds its coverage and the
\* coalescer lives, a row behind the disk is reached by something on its way:
\* through a suppression that runs beside new changes, a close that drops the
\* roots others speak for, a heal window opened over batches in any place, and
\* the widening at the cap.
StaleIsCovered ==
  Covered /\ ~died => \A p \in stale : \E b \in Underway : p \in Reach(b)

\* No wakeup is lost.  A thread asleep on the condition still waits for what
\* will signal it, and the coalescer sleeps without a deadline only where
\* nothing waits to be taken, a window is open, or a wake is on its way.
NoLostWakeup ==
  /\ "host" \in waiting => host = "locking" /\ closing
  /\ "coalescer" \in waiting =>
       /\ coalescer = "parked" /\ unplaced # <<>> /\ ~unsubscribed
       /\ healing \/ slot # <<>> \/ host = "unsubscribing"
  /\ Covered /\ coalescer = "sleep" /\ nap = "idle" /\ ~healing =>
       wake \/ calling = "ringing" \/ (pending = <<>> /\ ~terminal)

\* What the disk shows is derived: once the writers rest, the host has read
\* every row that fell behind, unless it gives its coverage up.
StaleIsReached == stale # {} ~> (stale = {} \/ ~Covered)

\* A closing heal gets its lock and a drop its thread, and a host that has its
\* coverage meets every failure of the watch, a coalescer that unwound included.
NothingHangs ==
  /\ host \in {"locking", "joining"} ~> host \notin {"locking", "joining"}
  /\ (terminal \/ died) ~> ~Covered

=============================================================================
