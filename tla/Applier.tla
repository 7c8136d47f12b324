------------------------------ MODULE Applier ------------------------------
(***************************************************************************)
(* The one applier of a vault (norn-host/src/applier.rs and applier/), the *)
(* write kernel it publishes through (norn-fs/src/write.rs), the ledger of *)
(* its own writes and the watcher's settling against it                    *)
(* (norn-fs/src/watch.rs), and the changeset that carries what landed into *)
(* the store (norn-host/src/production.rs).                                *)
(*                                                                         *)
(* A plan takes each target from one state to another, and is staged whole *)
(* before it is published target by target; other writers change the same  *)
(* files meanwhile.  One action is one system call the others can see, one *)
(* hold of the ledger's lock, or one transaction of the store.             *)
(*                                                                         *)
(* A target is a directory entry.  A case-only rename on a root that folds *)
(* case is one entry under two spellings; every other target has one, its  *)
(* "new" one.  A write's stamp is its modification time.                   *)
(***************************************************************************)
EXTENDS Integers, FiniteSets

CONSTANTS
    Targets, NoTarget,
    Contents, Nothing,  \* what the plan's files hold, and what an absent one does
    Other,              \* anything else a file may hold
    Before, After,      \* the plan's transitions: target -> content, or Nothing
    Respelled,          \* the targets that are case-only renames
    Draws,              \* <<t, s>>: t is written from what s held before
    Attempts,           \* bound: the times the plan is sent
    Faults,             \* bound: failed calls, lost entries, teardowns and crashes
    Writes              \* bound: the changes other writers make

Bytes == Contents \cup {Nothing, Other}

ASSUME PlanAssumption ==
    /\ NoTarget \notin Targets
    /\ Nothing # Other /\ Nothing \notin Contents /\ Other \notin Contents
    /\ Before \in [Targets -> Contents \cup {Nothing}]
    /\ After \in [Targets -> Contents \cup {Nothing}]
    /\ Respelled \subseteq {t \in Targets : Before[t] # Nothing /\ After[t] # Nothing}
    /\ Draws \subseteq Targets \X Targets
    /\ \A d \in Draws : d[1] # d[2] /\ After[d[1]] # Nothing /\ Before[d[2]] # Nothing
    /\ Attempts \in Nat /\ Faults \in Nat /\ Writes \in Nat

VARIABLES
    vault,      \* each entry as the tree lists it
    survives,   \* what a power cut may leave of each entry
    foreign,    \* the entries another writer has changed
    store,      \* the store's row of each spelling of each target
    watch,      \* the coverage: subscription, ledger, and what it owes
    shadows,    \* the targets a shadow is staged for
    job,        \* the apply job
    left,       \* the targets its phase has not come to
    held,       \* what staging concluded of each target
    act,        \* the publication under way
    report,     \* what publication did, as far as it went
    rows,       \* what the changeset will write
    budget      \* the faults and the foreign writes so far

vars == <<vault, survives, foreign, store, watch, shadows, job, left, held, act,
          report, rows, budget>>

----------------------------------------------------------------------------
(* State                                                                   *)

Spellings == {"old", "new"}

\* 0 is the plan's reading of the vault; then the attempts, then other writers.
Stamps == 0 .. Attempts + Writes

Files == [bytes : Bytes, at : Spellings, stamp : Stamps]


\* What the ledger expects to find: a file's bytes and stamp, or absence.
Expected == [bytes : Bytes, stamp : Stamps]
Unexpected == [bytes |-> Nothing, stamp |-> -1]

\* seen: the entries with a report not yet settled; batch: those being compared,
\* with the expectation read for each; owed: what a reconcile has to derive.
Watches ==
    [attached : BOOLEAN, ledger : [Targets -> Expected \cup {Unexpected}],
     seen : SUBSET Targets, comparing : SUBSET Targets,
     batch : [Targets -> Expected \cup {Unexpected}], owed : SUBSET Targets]

Phases == {"idle", "staging", "publishing", "confirming", "answering", "committing"}

\* leg: the job's leg stands; clean: no fault has met this attempt.
Jobs ==
    [phase : Phases, attempt : 0..Attempts, leg : BOOLEAN, clean : BOOLEAN,
     answer : {"none", "applied", "interrupted", "refused", "stood_down"}]

\* first: whether a respell's content step landed, and whether it was synced.
Acts ==
    [on : Targets \cup {NoTarget}, step : {"judge", "act", "record", "sync"},
     respelling : BOOLEAN, first : {"none", "synced", "unsynced"},
     found : BOOLEAN, stamp : Stamps]

NoAct == [on |-> NoTarget, step |-> "judge", respelling |-> FALSE,
          first |-> "none", found |-> FALSE, stamp |-> 0]

\* withheld: the respells named at their new spelling alone.
Reports ==
    [results : [Targets -> {"none", "wrote", "found"}], half : SUBSET Targets,
     withheld : SUBSET Respelled, published : BOOLEAN, stopped : BOOLEAN]

NoReport == [results |-> [t \in Targets |-> "none"], half |-> {}, withheld |-> {},
             published |-> FALSE, stopped |-> FALSE]

Paths == Targets \X Spellings

\* A row the changeset leaves as it stands.
Kept == "kept"
ASSUME KeptAssumption == Kept \notin Bytes

Budgets == [faults : 0..Faults, writes : 0..Writes]

TypeOK ==
    /\ vault \in [Targets -> Files]
    /\ survives \in [Targets -> SUBSET Files]
    /\ foreign \in SUBSET Targets
    /\ store \in [Paths -> Bytes]
    /\ watch \in Watches
    /\ shadows \in SUBSET Targets
    /\ job \in Jobs
    /\ left \in SUBSET Targets
    /\ held \in [Targets -> {"none", "staged", "landed"}]
    /\ act \in Acts
    /\ report \in Reports
    /\ rows \in [Paths -> Bytes \cup {Kept}]
    /\ budget \in Budgets

----------------------------------------------------------------------------
(* What an entry holds, judged against the plan                            *)

\* The after-state is asked first.
Landed(t) ==
    vault[t].bytes = After[t] /\ (t \in Respelled => vault[t].at = "new")

\* Mutant of Halfway: a rename cut short is another writer's doing.
HalfwayIsForeign(t) == FALSE

\* A respell's content under the old spelling.
Halfway(t) ==
    /\ t \in Respelled /\ vault[t].at = "old"
    /\ vault[t].bytes = After[t] /\ After[t] # Before[t]

AtBefore(t) ==
    /\ ~Landed(t)
    /\ vault[t].bytes = Before[t]
    /\ t \in Respelled => vault[t].at = "old"

\* The tree's listing, by spelling.
Listing(v) ==
    [p \in Paths |-> IF v[p[1]].at = p[2] THEN v[p[1]].bytes ELSE Nothing]

\* A target's change takes its content from where a draw reads it, the old spelling
\* of a respell.
Spends(t) == t \in Respelled \/ Before[t] # After[t]

\* The bytes a target's change took from view.
BeforeUnseen(t) ==
    /\ Before[t] # Nothing
    /\ (Landed(t) /\ Spends(t)) \/ Halfway(t)

\* Every target holds one of its states, and none that is still to be written
\* draws on a source that is gone.
Fit ==
    /\ \A t \in Targets : Landed(t) \/ Halfway(t) \/ AtBefore(t)
    /\ \A d \in Draws : AtBefore(d[1]) => ~BeforeUnseen(d[2])

----------------------------------------------------------------------------
(* The order targets publish in                                            *)

Rank(t) ==
    CASE t \in Respelled -> 1
      [] Before[t] = Nothing /\ After[t] # Nothing -> 0
      [] After[t] # Nothing -> 1
      [] Before[t] # Nothing -> 2
      [] OTHER -> 3

Waits(t) == {d[1] : d \in {e \in Draws : e[2] = t}}

Ready == {t \in left : Waits(t) \cap left = {}}

\* The plan's own order breaks ties: any of the least.
Foremost == {t \in Ready : \A u \in Ready : Rank(t) <= Rank(u)}

----------------------------------------------------------------------------
(* Steps of several actions                                                *)

\* A name keeps its spelling while nothing stands at it: no other writer respells.
Removed(t) == [vault[t] EXCEPT !.bytes = Nothing, !.stamp = 0]

\* A change of an entry, which the subscription reports and a power cut may undo.
Change(t, file) ==
    /\ vault' = [vault EXCEPT ![t] = file]
    /\ survives' = [survives EXCEPT ![t] = @ \cup {file}]

Reported(t) == [watch EXCEPT !.seen = IF watch.attached THEN @ \cup {t} ELSE @]

\* The folder that holds the entry is synced.
Synced(t) == survives' = [survives EXCEPT ![t] = {vault[t]}]

\* A call fails, within the bound.
Fault ==
    /\ budget.faults < Faults
    /\ budget' = [budget EXCEPT !.faults = @ + 1]

Faulted(j) == Fault /\ job' = [j EXCEPT !.clean = FALSE]

\* The job is over with this answer and frees what it holds.
Over(answer) ==
    [job EXCEPT !.phase = "idle", !.answer = answer, !.leg = TRUE]

Unattached ==
    [attached |-> FALSE, ledger |-> [t \in Targets |-> Unexpected], seen |-> {},
     comparing |-> {}, batch |-> [t \in Targets |-> Unexpected], owed |-> {}]

\* The coverage goes back to the ops with a leg the entry moved past.
Returned(owing) ==
    IF job.leg THEN [watch EXCEPT !.owed = @ \cup owing] ELSE Unattached

----------------------------------------------------------------------------
(* Staging                                                                 *)

\* The intake has derived what was delivered.
Begin ==
    /\ watch.attached /\ watch.owed = {}
    /\ job.phase = "idle" /\ job.attempt < Attempts
    /\ held' = [t \in Targets |-> "none"]
    /\ report' = NoReport
    /\ \/ /\ Fit
          /\ job' = [phase |-> "staging", attempt |-> job.attempt + 1, leg |-> TRUE,
                     clean |-> TRUE, answer |-> "none"]
          /\ left' = Targets
       \/ /\ ~Fit
          /\ job' = [phase |-> "idle", attempt |-> job.attempt + 1, leg |-> TRUE,
                     clean |-> TRUE, answer |-> "refused"]
          /\ left' = {}
    /\ UNCHANGED <<vault, survives, foreign, store, watch, shadows, act, rows, budget>>

\* A shadow is made for content still to be written.
Shadowed(t) == After[t] # Nothing /\ ~Halfway(t) /\ (t \in Respelled => Before[t] # After[t])

SourcesStand(t) ==
    \A d \in Draws : d[1] = t => vault[d[2]].bytes = Before[d[2]]

Stage(t) ==
    /\ job.phase = "staging" /\ t \in Foremost
    /\ left' = left \ {t}
    /\ \/ /\ Landed(t)
          /\ held' = [held EXCEPT ![t] = "landed"]
          /\ UNCHANGED shadows
       \/ /\ (AtBefore(t) /\ SourcesStand(t)) \/ Halfway(t)
          /\ held' = [held EXCEPT ![t] = "staged"]
          /\ shadows' = IF Shadowed(t) THEN shadows \cup {t} ELSE shadows
    /\ UNCHANGED <<vault, survives, foreign, store, watch, job, act, report, rows, budget>>

\* Mutant of Discarded: a refusal leaves what was staged before it.
DiscardedLater == shadows

Discarded == shadows \ {t \in Targets : held[t] = "staged"}

\* A target that cannot be staged discards every shadow staged before it.
StageStops(t) ==
    /\ job.phase = "staging" /\ t \in Foremost
    /\ \/ /\ ~(Landed(t) \/ Halfway(t) \/ (AtBefore(t) /\ SourcesStand(t)))
          /\ job' = Over("refused")
          /\ UNCHANGED budget
       \/ Faulted(Over("refused"))
    /\ left' = {}
    /\ shadows' = Discarded
    /\ held' = [u \in Targets |-> "none"]
    /\ watch' = Returned({})
    /\ UNCHANGED <<vault, survives, foreign, store, act, report, rows>>

\* The leg's one check, before the first target publishes.
BeginPublishing ==
    /\ job.phase = "staging" /\ left = {}
    /\ \/ /\ job.leg
          /\ job' = [job EXCEPT !.phase = "publishing"]
          /\ left' = Targets
          /\ UNCHANGED <<shadows, held, watch>>
       \/ /\ ~job.leg
          /\ job' = Over("stood_down")
          /\ shadows' = Discarded
          /\ held' = [t \in Targets |-> "none"]
          /\ watch' = Returned({})
          /\ UNCHANGED left
    /\ UNCHANGED <<vault, survives, foreign, store, act, report, rows, budget>>

----------------------------------------------------------------------------
(* Publishing                                                              *)

Result(t, result) == [report EXCEPT !.results[t] = result]

\* Publication stops at t, whose shadow goes with it.
Stops(t, kind, told) ==
    /\ job' = [kind EXCEPT !.phase = "confirming"]
    /\ act' = NoAct
    /\ left' = left \ {t}
    /\ shadows' = shadows \ {t}
    /\ report' = [told EXCEPT !.stopped = TRUE]

\* Mutant of ConfirmLanded: what an earlier attempt landed is taken as on the disk.
ConfirmLandedUnsynced(t) ==
    /\ job.phase = "publishing" /\ act = NoAct
    /\ t \in Foremost /\ held[t] = "landed"
    /\ \/ /\ Landed(t)
          /\ report' = Result(t, "found")
          /\ left' = left \ {t}
          /\ UNCHANGED <<shadows, job>>
       \/ /\ ~Landed(t)
          /\ Stops(t, job, report)
    /\ UNCHANGED <<vault, survives, foreign, store, watch, held, act, rows, budget>>

\* A target staging found landed is confirmed where it still is, and synced.
ConfirmLanded(t) ==
    /\ job.phase = "publishing" /\ act = NoAct
    /\ t \in Foremost /\ held[t] = "landed"
    /\ \/ /\ Landed(t)
          /\ Synced(t)
          /\ report' = Result(t, "found")
          /\ left' = left \ {t}
          /\ UNCHANGED <<shadows, job, act, budget>>
       \/ /\ Landed(t) /\ Fault
          /\ Stops(t, [job EXCEPT !.clean = FALSE], Result(t, "found"))
          /\ UNCHANGED survives
       \/ /\ ~Landed(t)
          /\ Stops(t, job, report)
          /\ UNCHANGED <<survives, budget>>
    /\ UNCHANGED <<vault, foreign, store, watch, held, rows>>

\* What the second look at a staged target allows: to write it, or to find it
\* as the plan leaves it.
Judge(t) ==
    /\ job.phase = "publishing" /\ act = NoAct
    /\ t \in Foremost /\ held[t] = "staged"
    /\ \/ /\ Landed(t)
          /\ act' = [NoAct EXCEPT !.on = t, !.step = "sync", !.found = TRUE]
       \/ /\ AtBefore(t)
          /\ Shadowed(t) => t \in shadows
          /\ act' = [NoAct EXCEPT !.on = t, !.step = "act", !.stamp = vault[t].stamp,
                         !.respelling = t \in Respelled /\ Before[t] = After[t]]
       \/ /\ Halfway(t)
          /\ act' = [NoAct EXCEPT !.on = t, !.step = "act", !.stamp = vault[t].stamp,
                         !.respelling = TRUE]
    /\ UNCHANGED <<vault, survives, foreign, store, watch, shadows, job, left, held,
                   report, rows, budget>>

\* Another writer changed the target, or its shadow is gone, or the call fails.
JudgeStops(t) ==
    /\ job.phase = "publishing" /\ act = NoAct
    /\ t \in Foremost /\ held[t] = "staged"
    /\ \/ /\ ~(Landed(t) \/ Halfway(t) \/ (AtBefore(t) /\ (Shadowed(t) => t \in shadows)))
          /\ Stops(t, job, report)
          /\ UNCHANGED budget
       \/ /\ Fault
          /\ Stops(t, [job EXCEPT !.clean = FALSE], report)
    /\ UNCHANGED <<vault, survives, foreign, store, watch, held, rows>>

\* The act itself: a create's exclusive rename, a replace's rename over, a
\* removal's unlink, a respell's content or its rename.
Written(t) ==
    IF After[t] = Nothing THEN Removed(t)
    ELSE IF act.respelling THEN [vault[t] EXCEPT !.at = "new"]
    ELSE [bytes |-> After[t], stamp |-> job.attempt,
          at |-> IF t \in Respelled THEN "old" ELSE "new"]

\* The shadow is gone, or the name was taken or emptied, after it was judged.
Swept(t) == After[t] # Nothing /\ ~act.respelling /\ t \notin shadows
Taken(t) == Before[t] = Nothing /\ vault[t].bytes # Nothing
Emptied(t) == vault[t].bytes = Nothing /\ (After[t] = Nothing \/ act.respelling)

Act(t) ==
    /\ act.on = t /\ act.step = "act"
    /\ ~Swept(t) /\ ~Taken(t) /\ ~Emptied(t)
    /\ Change(t, Written(t))
    /\ watch' = Reported(t)
    /\ shadows' = IF act.respelling THEN shadows ELSE shadows \ {t}
    /\ act' = [act EXCEPT !.step = "record"]
    /\ UNCHANGED <<foreign, store, job, left, held, report, rows, budget>>

\* Another writer made the target's change between the look and the act.
ActFinds(t) ==
    /\ act.on = t /\ act.step = "act"
    /\ (~Swept(t) /\ Taken(t) /\ Landed(t)) \/ (Emptied(t) /\ After[t] = Nothing)
    /\ act' = [act EXCEPT !.step = "sync", !.found = TRUE]
    /\ UNCHANGED <<vault, survives, foreign, store, watch, shadows, job, left, held,
                   report, rows, budget>>

\* Content that landed and was not renamed: the report carries it.
Interrupted(t) ==
    IF act.first = "none" THEN report
    ELSE [report EXCEPT !.published = TRUE, !.half = @ \cup {t}]

ActStops(t) ==
    /\ act.on = t /\ act.step = "act"
    /\ \/ /\ Swept(t) \/ (Taken(t) /\ ~Landed(t)) \/ (Emptied(t) /\ After[t] # Nothing)
          /\ Stops(t, job, Interrupted(t))
          /\ UNCHANGED budget
       \/ /\ Fault
          /\ Stops(t, [job EXCEPT !.clean = FALSE], Interrupted(t))
    /\ UNCHANGED <<vault, survives, foreign, store, watch, held, rows>>

\* The act is recorded as an own write ahead of the folder sync behind it.
Record(t) ==
    /\ act.on = t /\ act.step = "record"
    /\ watch' = [watch EXCEPT !.ledger[t] =
           [bytes |-> After[t],
            stamp |-> IF After[t] = Nothing THEN 0
                      ELSE IF act.respelling THEN act.stamp ELSE job.attempt]]
    /\ act' = [act EXCEPT !.step = "sync"]
    /\ UNCHANGED <<vault, survives, foreign, store, shadows, job, left, held, report,
                   rows, budget>>

\* The content step of a respell is behind; the rename is looked at again.
ContentStep(t) == t \in Respelled /\ ~act.respelling /\ ~act.found

SyncContent(t) ==
    /\ act.on = t /\ act.step = "sync" /\ ContentStep(t)
    /\ \/ /\ Synced(t)
          /\ act' = [act EXCEPT !.step = "judge", !.respelling = TRUE, !.first = "synced"]
          /\ UNCHANGED <<job, budget>>
       \/ /\ Faulted(job)
          /\ act' = [act EXCEPT !.step = "judge", !.respelling = TRUE, !.first = "unsynced"]
          /\ UNCHANGED survives
    /\ UNCHANGED <<vault, foreign, store, watch, shadows, left, held, report, rows>>

JudgeRename(t) ==
    /\ act.on = t /\ act.step = "judge"
    /\ \/ /\ Landed(t)
          /\ act' = [act EXCEPT !.step = "sync", !.found = TRUE]
          /\ UNCHANGED <<job, left, shadows, report>>
       \/ /\ Halfway(t)
          /\ act' = [act EXCEPT !.step = "act", !.stamp = vault[t].stamp]
          /\ UNCHANGED <<job, left, shadows, report>>
       \/ /\ ~Landed(t) /\ ~Halfway(t)
          /\ Stops(t, job, Interrupted(t))
    /\ UNCHANGED <<vault, survives, foreign, store, watch, held, rows, budget>>

\* What the publication of t came to, recorded before its sync is asked.
Told(t) ==
    IF act.found /\ act.first = "none" THEN Result(t, "found")
    ELSE [Result(t, "wrote") EXCEPT !.published = TRUE]

Sync(t) ==
    /\ act.on = t /\ act.step = "sync" /\ ~ContentStep(t)
    /\ act.first # "unsynced"
    /\ Synced(t)
    /\ report' = Told(t)
    /\ act' = NoAct
    /\ left' = left \ {t}
    /\ shadows' = shadows \ {t}
    /\ UNCHANGED <<vault, foreign, store, watch, job, held, rows, budget>>

\* Mutant of SyncFails: publication goes on past a landing it could not sync.
SyncFailsQuietly(t) ==
    /\ act.on = t /\ act.step = "sync" /\ ~ContentStep(t)
    /\ Faulted(job)
    /\ report' = Told(t)
    /\ act' = NoAct
    /\ left' = left \ {t}
    /\ shadows' = shadows \ {t}
    /\ UNCHANGED <<vault, survives, foreign, store, watch, held, rows>>

\* A landing that is not on the disk stops publication.
SyncFails(t) ==
    /\ act.on = t /\ act.step = "sync" /\ ~ContentStep(t)
    /\ \/ /\ act.first = "unsynced"
          /\ Synced(t)
          /\ Stops(t, job, Told(t))
          /\ UNCHANGED budget
       \/ /\ Fault
          /\ Stops(t, [job EXCEPT !.clean = FALSE], Told(t))
          /\ UNCHANGED survives
    /\ UNCHANGED <<vault, foreign, store, watch, held, rows>>

\* After a stop, what is left is confirmed where it stands landed, and named even
\* where its folder does not sync; what cannot be read is left out.  Nothing more is
\* written.
ConfirmRemaining(t) ==
    /\ job.phase = "confirming" /\ t \in Foremost
    /\ left' = left \ {t}
    /\ shadows' = shadows \ {t}
    /\ \/ /\ Landed(t) /\ report' = Result(t, "found")
          /\ \/ Synced(t) /\ UNCHANGED <<job, budget>>
             \/ Faulted(job) /\ UNCHANGED survives
       \/ /\ UNCHANGED <<survives, report>>
          /\ \/ ~Landed(t) /\ UNCHANGED <<job, budget>>
             \/ Faulted(job)
    /\ UNCHANGED <<vault, foreign, store, watch, held, act, rows>>

\* A source found gone is not told as landed while a target still needs it.
Unavailable ==
    {d[2] : d \in {e \in Draws :
                     /\ report.results[e[1]] = "none"
                     /\ report.results[e[2]] = "found"
                     /\ Spends(e[2])}}

\* Mutant of KeepAvailableSources: a source confirmed gone is told as landed.
KeepEverySource(told) == told

\* Of a respell it is the old spelling that is drawn from, and left out.
KeepAvailableSources(told) ==
    [told EXCEPT
        !.results = [t \in Targets |-> IF t \in Unavailable \ Respelled THEN "none" ELSE @[t]],
        !.withheld = Unavailable \cap Respelled]

Published ==
    /\ left = {} /\ act = NoAct
    /\ \/ (job.phase = "publishing" /\ UNCHANGED report)
       \/ /\ job.phase = "confirming"
          /\ report' = KeepAvailableSources(report)
    /\ job' = [job EXCEPT !.phase = "answering"]
    /\ UNCHANGED <<vault, survives, foreign, store, watch, shadows, left, held, act,
                   rows, budget>>

----------------------------------------------------------------------------
(* The changeset and the answer                                            *)

\* Mutant of Effects: what landed short of its rename is left out.
EffectsOfResults ==
    {<<p, After[p[1]]>> : p \in {q \in Paths :
        report.results[q[1]] # "none" /\ q[2] = "new"}}
    \cup
    {<<p, Nothing>> : p \in {q \in Paths :
        report.results[q[1]] # "none" /\ q[1] \in Respelled /\ q[2] = "old"}}

\* What each spelling a publication touched now holds.
Effects ==
    {<<p, After[p[1]]>> : p \in {q \in Paths :
        \/ (report.results[q[1]] # "none" /\ q[2] = "new")
        \/ (q[1] \in report.half /\ q[2] = "old")}}
    \cup
    {<<p, Nothing>> : p \in {q \in Paths :
        /\ report.results[q[1]] # "none" /\ q[2] = "old"
        /\ q[1] \in Respelled \ report.withheld}}

\* Each effect is looked at again: a row whose document is back, or a file that
\* holds something else by now, is left to the watcher.
Readable(effect) ==
    LET p == effect[1] IN
    IF effect[2] = Nothing THEN Listing(vault)[p] = Nothing
    ELSE vault[p[1]].bytes = effect[2]

ReadBack ==
    /\ job.phase = "answering" /\ Effects # {}
    /\ rows' = [p \in Paths |->
                  IF \E e \in Effects : e[1] = p /\ Readable(e)
                  THEN (CHOOSE e \in Effects : e[1] = p)[2]
                  ELSE Kept]
    /\ job' = [job EXCEPT !.phase = "committing"]
    /\ UNCHANGED <<vault, survives, foreign, store, watch, shadows, left, held, act,
                   report, budget>>

Answer ==
    IF ~report.stopped THEN "applied"
    ELSE IF report.published THEN "interrupted" ELSE "refused"

Commit ==
    /\ job.phase = "committing"
    /\ store' = [p \in Paths |-> IF rows[p] = Kept THEN store[p] ELSE rows[p]]
    /\ rows' = [p \in Paths |-> Kept]
    /\ job' = Over(Answer)
    /\ watch' = Returned({})
    /\ held' = [t \in Targets |-> "none"]
    /\ UNCHANGED <<vault, survives, foreign, shadows, left, act, report, budget>>

\* A changeset that did not commit owes every path the plan touched.
CommitFails ==
    /\ job.phase = "committing"
    /\ Faulted(Over(Answer))
    /\ rows' = [p \in Paths |-> Kept]
    /\ watch' = Returned(Targets)
    /\ held' = [t \in Targets |-> "none"]
    /\ UNCHANGED <<vault, survives, foreign, store, shadows, left, act, report>>

NothingToCommit ==
    /\ job.phase = "answering" /\ Effects = {}
    /\ job' = Over(Answer)
    /\ watch' = Returned({})
    /\ held' = [t \in Targets |-> "none"]
    /\ UNCHANGED <<vault, survives, foreign, store, shadows, left, act, report, rows,
                   budget>>

----------------------------------------------------------------------------
(* The coverage                                                            *)

\* A batch settles: the ledger is read for what it names.
Settle ==
    /\ watch.attached /\ watch.comparing = {} /\ watch.seen # {}
    /\ watch' = [watch EXCEPT
           !.seen = {}, !.comparing = watch.seen,
           !.batch = [t \in Targets |-> IF t \in watch.seen THEN watch.ledger[t] ELSE Unexpected]]
    /\ UNCHANGED <<vault, survives, foreign, store, shadows, job, left, held, act,
                   report, rows, budget>>

\* What stands at the path is what the ledger read expects there.
Echo(t) ==
    watch.batch[t] = [bytes |-> vault[t].bytes, stamp |-> vault[t].stamp]

\* An echo is dropped and keeps its entry; what changed is delivered, and ends
\* the entry it was compared with.
Suppress ==
    /\ watch.comparing # {}
    /\ LET changed == {t \in watch.comparing : ~Echo(t)} IN
       watch' = [watch EXCEPT
           !.comparing = {}, !.batch = [t \in Targets |-> Unexpected],
           !.owed = @ \cup changed,
           !.ledger = [t \in Targets |->
               IF t \in changed /\ watch.ledger[t] = watch.batch[t] THEN Unexpected
               ELSE watch.ledger[t]]]
    /\ UNCHANGED <<vault, survives, foreign, store, shadows, job, left, held, act,
                   report, rows, budget>>

\* An entry expires, or the ledger was full.
Expire(t) ==
    /\ watch.ledger[t] # Unexpected
    /\ watch' = [watch EXCEPT !.ledger[t] = Unexpected]
    /\ Fault
    /\ UNCHANGED <<vault, survives, foreign, store, shadows, job, left, held, act,
                   report, rows>>

\* The reconcile, or an apply's intake, derives what is owed as it now stands.
Reconcile ==
    /\ watch.attached /\ job.phase = "idle" /\ watch.owed # {}
    /\ store' = [p \in Paths |-> IF p[1] \in watch.owed THEN Listing(vault)[p] ELSE store[p]]
    /\ watch' = [watch EXCEPT !.owed = {}]
    /\ UNCHANGED <<vault, survives, foreign, shadows, job, left, held, act, report,
                   rows, budget>>

\* An attach sweeps every shadow and heals the store from the whole vault.
Attach ==
    /\ ~watch.attached
    /\ watch' = [Unattached EXCEPT !.attached = TRUE]
    /\ shadows' = {}
    /\ store' = Listing(vault)
    /\ UNCHANGED <<vault, survives, foreign, job, left, held, act, report, rows, budget>>

----------------------------------------------------------------------------
(* Other writers, teardowns, sweeps and crashes                            *)

ForeignWrite(t) ==
    /\ budget.writes < Writes
    /\ budget' = [budget EXCEPT !.writes = @ + 1]
    /\ foreign' = foreign \cup {t}
    /\ watch' = Reported(t)
    /\ \/ \E bytes \in {Before[t], After[t], Other} \ {Nothing} :
              Change(t, [vault[t] EXCEPT !.bytes = bytes, !.stamp = Attempts + budget'.writes])
       \/ /\ vault[t].bytes # Nothing
          /\ Change(t, Removed(t))
    /\ UNCHANGED <<store, shadows, job, left, held, act, report, rows>>

\* The entry moves past the job's leg.
TearDown ==
    /\ job.phase # "idle" /\ job.leg
    /\ Faulted([job EXCEPT !.leg = FALSE])
    /\ UNCHANGED <<vault, survives, foreign, store, watch, shadows, left, held, act,
                   report, rows>>

\* A sweep takes a shadow that has grown old under a slow apply.
Sweep(t) ==
    /\ t \in shadows
    /\ Faulted(job)
    /\ shadows' = shadows \ {t}
    /\ UNCHANGED <<vault, survives, foreign, store, watch, left, held, act, report, rows>>

\* The host goes down, or the job unwinds: what is in memory is gone.
Lose ==
    /\ Faulted(Over("none"))
    /\ watch' = Unattached
    /\ left' = {} /\ held' = [t \in Targets |-> "none"]
    /\ act' = NoAct /\ report' = NoReport
    /\ rows' = [p \in Paths |-> Kept]

Crash ==
    /\ watch.attached
    /\ Lose
    /\ UNCHANGED <<vault, survives, foreign, store, shadows>>

\* Of each entry, its last synced state or one after it.
PowerCut ==
    /\ Lose
    /\ vault' \in {v \in [Targets -> UNION {survives[t] : t \in Targets}] :
                     \A t \in Targets : v[t] \in survives[t]}
    /\ survives' = [t \in Targets |-> {vault'[t]}]
    /\ UNCHANGED <<foreign, store, shadows>>

----------------------------------------------------------------------------
Initially(t) ==
    [bytes |-> Before[t], stamp |-> 0, at |-> IF t \in Respelled THEN "old" ELSE "new"]

Init ==
    /\ vault = [t \in Targets |-> Initially(t)]
    /\ survives = [t \in Targets |-> {Initially(t)}]
    /\ foreign = {}
    /\ store = Listing(vault)
    /\ watch = [Unattached EXCEPT !.attached = TRUE]
    /\ shadows = {}
    /\ job = [phase |-> "idle", attempt |-> 0, leg |-> TRUE, clean |-> TRUE, answer |-> "none"]
    /\ left = {}
    /\ held = [t \in Targets |-> "none"]
    /\ act = NoAct
    /\ report = NoReport
    /\ rows = [p \in Paths |-> Kept]
    /\ budget = [faults |-> 0, writes |-> 0]

Publish(t) ==
    \/ ConfirmLanded(t) \/ Judge(t) \/ JudgeStops(t)
    \/ Act(t) \/ ActFinds(t) \/ ActStops(t) \/ Record(t)
    \/ SyncContent(t) \/ JudgeRename(t) \/ Sync(t) \/ SyncFails(t)
    \/ ConfirmRemaining(t)

Next ==
    \/ Begin \/ BeginPublishing \/ Published
    \/ ReadBack \/ Commit \/ CommitFails \/ NothingToCommit
    \/ Settle \/ Suppress \/ Reconcile \/ Attach
    \/ TearDown \/ Crash \/ PowerCut
    \/ \E t \in Targets :
          Stage(t) \/ StageStops(t) \/ Publish(t) \/ Expire(t) \/ ForeignWrite(t) \/ Sweep(t)

Spec == Init /\ [][Next]_vars

----------------------------------------------------------------------------
(* Properties                                                              *)

\* A document that is moved survives a power cut at any moment, of any attempt:
\* at its source, or where the plan takes it.  A source is removed or replaced
\* only once every target that draws on it is on the disk (publish.rs).
ContentSurvives ==
    \A d \in Draws :
        \/ d[1] \in foreign \/ d[2] \in foreign
        \/ \A f \in survives[d[2]] : f.bytes = Before[d[2]]
        \/ \A f \in survives[d[1]] : f.bytes = After[d[1]]

Settled ==
    /\ watch.attached /\ job.phase = "idle"
    /\ watch.owed = {} /\ watch.seen = {} /\ watch.comparing = {}

\* Once every report is settled and nothing is owed, the store's rows are what
\* the tree lists: a changeset that failed, one that skipped a file, a respell
\* cut short and every suppressed echo included.
StoreFollowsVault == Settled => store = Listing(vault)

\* No answer names a source as landed while a target that draws on it is not:
\* a caller who read it would take the source's content for moved.  A target
\* that is left out only as a source itself has taken the content over.
ReportedSourcesSpent ==
    job.phase = "idle" =>
        \A d \in Draws :
            report.results[d[2]] # "none" /\ Spends(d[2]) /\ d[2] \notin report.withheld =>
                \/ report.results[d[1]] # "none"
                \/ \E e \in Draws : e[2] = d[1] /\ report.results[e[1]] = "none"

\* "Send the plan again to finish it": an attempt no fault meets, over files no
\* other writer has touched, is applied, whatever the attempts before it left.
CleanResendApplies ==
    job.answer # "none" /\ job.clean /\ foreign = {} => job.answer = "applied"

\* An applied plan stays applied through a power cut, the targets an earlier
\* attempt landed and did not sync included.
AppliedIsDurable ==
    job.answer = "applied" =>
        \A t \in Targets \ foreign : \A f \in survives[t] :
            f.bytes = After[t] /\ (t \in Respelled => f.at = "new")

\* Under a coverage, every shadow is one the running job has staged and will
\* publish or discard: whichever way a job ends, it leaves none.
ShadowsAccounted ==
    watch.attached =>
        shadows \subseteq {t \in Targets : held[t] = "staged" /\ job.phase # "idle"}

\* "A document the tree lists there again was put back by another writer, and is
\* the watcher's to report" (commit_plan_changeset): a death the changeset skips
\* for a document put back is not lost.
PutBackIsReported ==
    Settled => \A p \in Paths : Listing(vault)[p] = Nothing => store[p] = Nothing

\* The step PutBackIsReported fails by: another writer removes a file whose absence
\* the ledger still expects, which passes for the plan's own removal.
LeavesAbsencesBe ==
    \A t \in Targets :
        ForeignWrite(t) /\ watch.ledger[t] = [bytes |-> Nothing, stamp |-> 0] =>
            vault'[t].bytes # Nothing

\* The applier without it.
SparingSpec == Init /\ [][Next /\ LeavesAbsencesBe]_vars

Contract ==
    INSTANCE PublicationContract WITH
        bytes <- [t \in Targets |-> vault[t].bytes],
        keeps <- [t \in Targets |-> {f.bytes : f \in survives[t]}]

\* Publication implements its contract.
ImplementsContract == Contract!Spec
=============================================================================
