--------------------------- MODULE MaintainerLock ---------------------------
(***************************************************************************)
(* The maintainer lock of one derived store (norn-fs/src/lock.rs), and     *)
(* those who take it: the attaches of any host, its retirements and its    *)
(* sweeps of orphaned results (norn-host/src/production.rs).  The lock is  *)
(* a flock on the file the lock name resolves to when it is opened; Norn   *)
(* never unlinks that file, and anything else on the machine may.          *)
(*                                                                         *)
(* One action is one system call that another process can come before or   *)
(* after.  A flock is held by an open handle, so who holds it is read off  *)
(* the handles; the kernel gives it back with the handle, of a process     *)
(* that dies too.  An inode is used again once no link and no handle has   *)
(* it.                                                                     *)
(***************************************************************************)
EXTENDS Naturals

CONSTANTS Acquirers, Inodes, NoInode, LockAttempts, MaxEras

ASSUME LockAssumption ==
    /\ NoInode \notin Inodes
    /\ LockAttempts \in Nat \ {0}
    /\ MaxEras \in Nat

VARIABLES
    name,      \* the inode the lock name resolves to, or NoInode
    aside,     \* an inode something foreign keeps under another name, or NoInode
    era,       \* how often something foreign has made the name mean another file
    acquirer   \* where each acquirer is

vars == <<name, aside, era, acquirer>>

Pcs == {"idle", "opening", "opened", "locked", "writing", "holding", "leaving"}

\* attempt: of the loop of try_acquire_where; began: the era the loop began in;
\* since: the era in which the handle was last known to be the name's, 0 without one.
AcquirerStates ==
    [pc : Pcs, handle : Inodes \cup {NoInode}, attempt : 0..LockAttempts - 1,
     since : Nat, began : Nat]

Idle == [pc |-> "idle", handle |-> NoInode, attempt |-> 0, since |-> 0, began |-> 0]

TypeOK ==
    /\ name \in Inodes \cup {NoInode}
    /\ aside \in Inodes \cup {NoInode}
    /\ era \in Nat \ {0}
    /\ acquirer \in [Acquirers -> AcquirerStates]

Init ==
    /\ name = NoInode
    /\ aside = NoInode
    /\ era = 1
    /\ acquirer = [p \in Acquirers |-> Idle]

At(p, pc) == acquirer[p].pc = pc
Handle(p) == acquirer[p].handle
Since(p)  == acquirer[p].since

\* Whose handle has the flock of its file, and who is the maintainer by it.
HoldsFlock(p) == acquirer[p].pc \in {"locked", "writing", "holding", "leaving"}
Maintains(p)  == acquirer[p].pc \in {"writing", "holding", "leaving"}

\* The name resolves to the file the handle has.
Current(p) == name = Handle(p)

Unused == {i \in Inodes : i \notin {name, aside} /\ \A p \in Acquirers : Handle(p) # i}

Becomes(p, r) == acquirer' = [acquirer EXCEPT ![p] = r]
Goes(p, pc)   == Becomes(p, [acquirer[p] EXCEPT !.pc = pc])
Confirmed(p)  == Becomes(p, [pc |-> "writing", handle |-> Handle(p), attempt |-> 0,
                             since |-> era, began |-> 0])
LetsGo(p)     == Becomes(p, Idle)

Names == <<name, aside, era>>

----------------------------------------------------------------------------
(* Acquisition                                                             *)

\* Mutant of BeginAcquire: the loop counts an attempt it has not made.
BeginAcquireAhead(p) ==
    /\ At(p, "idle")
    /\ Becomes(p, [Idle EXCEPT !.pc = "opening", !.attempt = 1, !.began = era])
    /\ UNCHANGED Names

BeginAcquire(p) ==
    /\ At(p, "idle")
    /\ Becomes(p, [Idle EXCEPT !.pc = "opening", !.began = era])
    /\ UNCHANGED Names

\* The file at the name, or a new one where there is none.
OpenLockFile(p) ==
    /\ At(p, "opening")
    /\ \E i \in IF name = NoInode THEN Unused ELSE {name} :
        /\ name' = i
        /\ Becomes(p, [acquirer[p] EXCEPT !.pc = "opened", !.handle = i, !.since = era])
    /\ UNCHANGED <<aside, era>>

FlockTaken(p) == \E q \in Acquirers : HoldsFlock(q) /\ Handle(q) = Handle(p)

TakeFlock(p) ==
    /\ At(p, "opened")
    /\ ~FlockTaken(p)
    /\ Goes(p, "locked")
    /\ UNCHANGED Names

\* Mutant of Contended: the caller waits for the lock inside the loop.
ContendedTriesAgain(p) ==
    /\ At(p, "opened")
    /\ FlockTaken(p)
    /\ Becomes(p, [acquirer[p] EXCEPT !.pc = "opening", !.handle = NoInode, !.since = 0])
    /\ UNCHANGED Names

\* Acquisition is try-only: a flock somebody has is the answer.
Contended(p) ==
    /\ At(p, "opened")
    /\ FlockTaken(p)
    /\ LetsGo(p)
    /\ UNCHANGED Names

\* Mutant of ConfirmName: the name is not asked again once the flock is held.
ConfirmUnchecked(p) ==
    /\ At(p, "locked")
    /\ Confirmed(p)
    /\ UNCHANGED Names

\* The flock is held: the name is asked whether it still means the file.  Who has
\* maintainership writes at once: it opens the store, discards it, or sweeps.
ConfirmName(p) ==
    /\ At(p, "locked")
    /\ Current(p)
    /\ Confirmed(p)
    /\ UNCHANGED Names

\* It does not: the handle is dropped and the next attempt begins,
TryAgain(p) ==
    /\ At(p, "locked")
    /\ ~Current(p)
    /\ acquirer[p].attempt + 1 < LockAttempts
    /\ Becomes(p, [acquirer[p] EXCEPT !.pc = "opening", !.handle = NoInode, !.since = 0,
                                      !.attempt = @ + 1])
    /\ UNCHANGED Names

\* or there is none left, and the answer is LockFileReplaced.
RefuseReplaced(p) ==
    /\ At(p, "locked")
    /\ ~Current(p)
    /\ acquirer[p].attempt + 1 >= LockAttempts
    /\ LetsGo(p)
    /\ UNCHANGED Names

\* The machine fails a call of the loop, and the handle goes with the refusal.
AcquireFails(p) ==
    /\ acquirer[p].pc \in {"opening", "opened", "locked"}
    /\ LetsGo(p)
    /\ UNCHANGED Names

----------------------------------------------------------------------------
(* Maintainership                                                          *)

EndLeg(p) ==
    /\ At(p, "writing")
    /\ Goes(p, "holding")
    /\ UNCHANGED Names

\* Mutants of BeginLeg: any file at the name will do; or the leg asks nothing.
BeginLegOfAnyFile(p) ==
    /\ At(p, "holding")
    /\ name # NoInode
    /\ Confirmed(p)
    /\ UNCHANGED Names
BeginLegUnasked(p) ==
    /\ At(p, "holding")
    /\ Goes(p, "writing")
    /\ UNCHANGED Names

\* A leg over the store asks still_current first,
BeginLeg(p) ==
    /\ At(p, "holding")
    /\ Current(p)
    /\ Confirmed(p)
    /\ UNCHANGED Names

\* and one that finds maintainership lost writes nothing, and gives it back.
LegFindsItLost(p) ==
    /\ At(p, "holding")
    /\ ~Current(p)
    /\ Goes(p, "leaving")
    /\ UNCHANGED Names

\* The handle is dropped; the file is left where it is.
Release(p) ==
    /\ At(p, "holding") \/ At(p, "leaving")
    /\ LetsGo(p)
    /\ UNCHANGED Names

\* The process dies, and the kernel closes its handle.
Dies(p) ==
    /\ ~At(p, "idle")
    /\ LetsGo(p)
    /\ UNCHANGED Names

----------------------------------------------------------------------------
(* Everything else on the machine                                          *)

\* The name is unlinked, or made to mean a new file, or the file kept aside; the
\* file it meant may be kept aside for it in turn.  MaxEras bounds these acts.
Foreign ==
    /\ era < MaxEras
    /\ \E i \in (Unused \cup {aside, NoInode}) \ {name}, kept \in {name, aside, NoInode} :
        name' = i /\ aside' = kept
    /\ era' = era + 1
    /\ UNCHANGED acquirer

----------------------------------------------------------------------------

Acquire(p) ==
    \/ OpenLockFile(p) \/ TakeFlock(p) \/ Contended(p)
    \/ ConfirmName(p) \/ TryAgain(p) \/ RefuseReplaced(p)

Leg(p) == BeginLeg(p) \/ LegFindsItLost(p)

AcquirerStep(p) ==
    \/ BeginAcquire(p) \/ Acquire(p) \/ AcquireFails(p)
    \/ EndLeg(p) \/ Leg(p) \/ Release(p) \/ Dies(p)

Next == (\E p \in Acquirers : AcquirerStep(p)) \/ Foreign

Spec == Init /\ [][Next]_vars

\* A caller of the loop runs; a leg that writes ends; a host asks for its lock
\* again with every poll of the watcher; and what it found lost it gives back.
FairSpec ==
    /\ Spec
    /\ \A p \in Acquirers :
        /\ WF_vars(Acquire(p))
        /\ WF_vars(EndLeg(p))
        /\ WF_vars(Leg(p))
        /\ WF_vars(At(p, "leaving") /\ Release(p))

----------------------------------------------------------------------------
(* Properties                                                              *)

\* Two maintainers of one store were last confirmed, by the acquisition's recheck
\* of the name (lock.rs 355) or by a leg's still_current (207-215), in different
\* eras of the name.  So while nothing foreign touches the lock file there is one,
\* and of two there can be, one is confirmed in an era that is over.
OneMaintainerPerEra ==
    \A p, q \in Acquirers :
        p # q /\ Maintains(p) /\ Maintains(q) => Since(p) # Since(q)

\* A name replaced under the caller is never blamed without cause: the acquisition
\* refuses only after the name has been touched once for each attempt (327-371).
RefusalMeansReplaced ==
    [][\A p \in Acquirers :
          RefuseReplaced(p) => era - acquirer[p].began >= LockAttempts]_vars

\* Acquisition waits for nobody: it is answered, whoever holds the lock.
Acquiring(p) == acquirer[p].pc \in {"opening", "opened", "locked"}
AcquisitionAnswers == \A p \in Acquirers : Acquiring(p) ~> ~Acquiring(p)

\* Two maintainers, once what replaced the lock file has stopped, do not both stay.
Overlap == \E p, q \in Acquirers : p # q /\ Maintains(p) /\ Maintains(q)
OverlapEnds == Overlap ~> ~Overlap

\* A maintainer's tenure is the era it was last confirmed in.
Contract == INSTANCE MaintainerContract WITH
    tenure <- [p \in Acquirers |-> IF Maintains(p) THEN Since(p) ELSE 0]

ImplementsMaintainership == Contract!Spec
=============================================================================
