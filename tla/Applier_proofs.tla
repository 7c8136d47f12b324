--------------------------- MODULE Applier_proofs ---------------------------
(***************************************************************************)
(* The safety of publication, for any plan, any writers beside it, and any *)
(* faults: types, the contract of publication and what it promises of the  *)
(* content a plan moves, the durability of an applied plan, the shadows,   *)
(* what a clean re-send finishes, and that the store comes to list what    *)
(* the tree lists.                                                         *)
(*                                                                         *)
(* StoreFollowsVault speaks only of what has settled.  RowInv says it at   *)
(* every moment, target by target: a report that will not pass for the     *)
(* plan's own is on its way, or the plan's bytes stand there and the       *)
(* changeset will say so, or the rows as they will be are right.  It rests *)
(* on stamps no other writer has yet left, on which spelling a step of a   *)
(* respell stands at, and on what is renamed being as it was judged.       *)
(***************************************************************************)
EXTENDS Applier, TLAPS

\* What the tree lists is what a power cut may leave.
Listed == \A t \in Targets : vault[t] \in survives[t]

\* Nothing but what the plan leaves survives of t.
Done(t) == \A f \in survives[t] : f.bytes = After[t] /\ (t \in Respelled => f.at = "new")

\* The publication under way is of a target whose turn it is, and where no other
\* writer has been, what it has written or found stands.
ActInv ==
    /\ act.on # NoTarget =>
          /\ job.phase = "publishing" /\ act.on \in Ready
          /\ act.found => act.step = "sync"
    /\ \A t \in Targets \ foreign : act.on = t =>
          /\ act.step # "act" \/ act.respelling => vault[t].bytes = After[t]
          /\ /\ act.step \in {"record", "sync"} /\ t \in Respelled
             /\ act.respelling \/ act.found
             => vault[t].at = "new"

\* A target publication is past is on the disk, unless publication stopped.
PastInv ==
    /\ job.phase = "publishing" => \A t \in Targets \ (left \cup foreign) : Done(t)
    /\ job.phase = "confirming" => report.stopped
    /\ job.phase \in {"answering", "committing"} =>
           left = {} /\ (report.stopped \/ \A t \in Targets \ foreign : Done(t))
    /\ job.answer = "applied" =>
           job.phase = "idle" /\ \A t \in Targets \ foreign : Done(t)

\* A shadow is of a target staging held and publication has not come to.
ShadowInv ==
    /\ job.phase # "idle" => watch.attached
    /\ job.phase = "staging" => \A t \in left : held[t] = "none"
    /\ watch.attached =>
           /\ shadows \subseteq {t \in Targets : held[t] = "staged"}
           /\ job.phase = "idle" => shadows = {}
           /\ job.phase \in {"publishing", "confirming", "answering", "committing"}
                  => shadows \subseteq left

SourcesSpent ==
    \A d \in Draws :
        report.results[d[2]] # "none" /\ Spends(d[2]) /\ d[2] \notin report.withheld =>
            \/ report.results[d[1]] # "none"
            \/ \E e \in Draws : e[2] = d[1] /\ report.results[e[1]] = "none"

\* No result is told of a target publication has not come to; until it stops each
\* other has one, and no source was written before what draws on it was told of.
ReportInv ==
    /\ job.phase = "staging" => \A t \in Targets : report.results[t] = "none"
    /\ job.phase \in {"publishing", "confirming"} =>
           /\ \A t \in left : report.results[t] = "none"
           /\ \A d \in Draws : report.results[d[2]] = "wrote" => report.results[d[1]] # "none"
    /\ job.phase = "publishing" => \A t \in Targets \ left : report.results[t] # "none"
    /\ job.phase \in {"answering", "committing", "idle"} => SourcesSpent

Inv == TypeOK /\ Listed /\ ActInv /\ PastInv /\ ShadowInv /\ ReportInv

----------------------------------------------------------------------------
(* Types                                                                   *)

\* Each change of the job keeps its type.
LEMMA JobTypes ==
  ASSUME job \in Jobs
  PROVE  /\ \A p \in Phases : [job EXCEPT !.phase = p] \in Jobs
         /\ \A p \in Phases : [job EXCEPT !.clean = FALSE, !.phase = p] \in Jobs
         /\ [job EXCEPT !.clean = FALSE] \in Jobs /\ [job EXCEPT !.leg = FALSE] \in Jobs
         /\ \A a \in {"none", "applied", "interrupted", "refused", "stood_down"} :
                /\ Over(a) \in Jobs /\ [Over(a) EXCEPT !.clean = FALSE] \in Jobs
                /\ Over(a).phase = "idle" /\ Over(a).answer = a
BY DEF Jobs, Over, Phases

\* Each change of the publication under way keeps its type.
LEMMA ActTypes ==
  ASSUME act \in Acts, NEW t \in Targets, NEW s \in Stamps
  PROVE  /\ NoAct \in Acts
         /\ [NoAct EXCEPT !.on = t, !.step = "sync", !.found = TRUE] \in Acts
         /\ \A b \in BOOLEAN :
              [NoAct EXCEPT !.on = t, !.step = "act", !.stamp = s, !.respelling = b] \in Acts
         /\ [act EXCEPT !.step = "record"] \in Acts
         /\ [act EXCEPT !.step = "sync"] \in Acts
         /\ [act EXCEPT !.step = "sync", !.found = TRUE] \in Acts
         /\ [act EXCEPT !.step = "act", !.stamp = s] \in Acts
         /\ [act EXCEPT !.step = "judge", !.respelling = TRUE, !.first = "synced"] \in Acts
         /\ [act EXCEPT !.step = "judge", !.respelling = TRUE, !.first = "unsynced"] \in Acts
<1>1. NoAct \in Acts
  BY PlanAssumption DEF Acts, NoAct, Stamps
<1>2. [NoAct EXCEPT !.on = t, !.step = "sync", !.found = TRUE] \in Acts
  BY <1>1 DEF Acts
<1>3. \A b \in BOOLEAN :
        [NoAct EXCEPT !.on = t, !.step = "act", !.stamp = s, !.respelling = b] \in Acts
  BY <1>1 DEF Acts
<1>4. /\ [act EXCEPT !.step = "record"] \in Acts
      /\ [act EXCEPT !.step = "sync"] \in Acts
      /\ [act EXCEPT !.step = "sync", !.found = TRUE] \in Acts
      /\ [act EXCEPT !.step = "act", !.stamp = s] \in Acts
  BY DEF Acts
<1>5. ASSUME NEW x \in {"synced", "unsynced"}
      PROVE  [act EXCEPT !.step = "judge", !.respelling = TRUE, !.first = x] \in Acts
  BY DEF Acts
<1> QED
  BY <1>1, <1>2, <1>3, <1>4, <1>5

\* Each change of the report keeps its type.
LEMMA ReportTypes ==
  ASSUME report \in Reports, NEW t \in Targets
  PROVE  /\ NoReport \in Reports
         /\ Result(t, "found") \in Reports /\ Told(t) \in Reports /\ Interrupted(t) \in Reports
<1> DEFINE R == [Targets -> {"none", "wrote", "found"}]
<1>1. report.results \in R /\ report.half \in SUBSET Targets
      /\ report.published \in BOOLEAN /\ report.stopped \in BOOLEAN
  BY DEF Reports
<1>2. ASSUME NEW x \in {"wrote", "found"} PROVE Result(t, x) \in Reports
  <2>1. [report.results EXCEPT ![t] = x] \in R
    BY <1>1, <1>2
  <2>2. Result(t, x) = [report EXCEPT !.results = [report.results EXCEPT ![t] = x]]
    BY DEF Result
  <2> QED
    BY <1>1, <2>1, <2>2 DEF Reports
<1>3. NoReport \in Reports
  BY DEF Reports, NoReport
<1>4. [Result(t, "wrote") EXCEPT !.published = TRUE] \in Reports
  BY <1>2 DEF Reports
<1>5. Interrupted(t) \in Reports
  BY <1>1 DEF Interrupted, Reports
<1> QED
  BY <1>2, <1>3, <1>4, <1>5 DEF Told

\* What a stopped report keeps: all but the sources that are still needed.
LEMMA KeptReport ==
  ASSUME report \in Reports, report' = KeepAvailableSources(report)
  PROVE  /\ report' \in Reports
         /\ report'.half = report.half /\ report'.published = report.published
         /\ report'.stopped = report.stopped
         /\ report'.withheld = Unavailable \cap Respelled
         /\ \A t \in Targets :
                report'.results[t] =
                    IF t \in Unavailable \ Respelled THEN "none" ELSE report.results[t]
<1> DEFINE kept == [t \in Targets |->
                      IF t \in Unavailable \ Respelled THEN "none" ELSE report.results[t]]
<1>1. report' = [report EXCEPT !.results = kept, !.withheld = Unavailable \cap Respelled]
  BY DEF KeepAvailableSources
<1>2. kept \in [Targets -> {"none", "wrote", "found"}]
  BY DEF Reports
<1>3. Unavailable \cap Respelled \in SUBSET Respelled
  OBVIOUS
<1> HIDE DEF kept
<1>4. /\ report' \in Reports /\ report'.results = kept
      /\ report'.half = report.half /\ report'.published = report.published
      /\ report'.stopped = report.stopped
      /\ report'.withheld = Unavailable \cap Respelled
  BY <1>1, <1>2, <1>3 DEF Reports
<1> QED
  BY <1>4 DEF kept

\* A failing call of the confirmation leaves the job where it is.
LEMMA RemainingJob ==
  ASSUME job \in Jobs, budget \in Budgets, NEW t \in Targets, ConfirmRemaining(t)
  PROVE  /\ job' \in Jobs /\ budget' \in Budgets /\ budget'.writes = budget.writes
         /\ job.phase = "confirming" /\ job'.phase = "confirming"
         /\ job'.answer = job.answer /\ job'.leg = job.leg /\ job'.attempt = job.attempt
         /\ job'.clean => job' = job
<1>1. CASE UNCHANGED <<job, budget>>
  BY <1>1 DEF ConfirmRemaining
<1>2. CASE Faulted(job)
  <2>1. job' = [job EXCEPT !.clean = FALSE] /\ Fault
    BY <1>2 DEF Faulted
  <2>2. budget' \in Budgets /\ budget'.writes = budget.writes
    BY <2>1, PlanAssumption DEF Fault, Budgets
  <2> QED
    BY <2>1, <2>2 DEF ConfirmRemaining, Jobs
<1> QED
  BY <1>1, <1>2 DEF ConfirmRemaining

\* A report that publication stopped keeps its type.
LEMMA StoppedTypes ==
  ASSUME NEW r \in Reports
  PROVE  [r EXCEPT !.stopped = TRUE] \in Reports
BY DEF Reports

\* Each change of the coverage keeps its type.
LEMMA WatchTypes ==
  ASSUME watch \in Watches
  PROVE  /\ Unattached \in Watches /\ [Unattached EXCEPT !.attached = TRUE] \in Watches
         /\ Returned({}) \in Watches /\ Returned(Targets) \in Watches
         /\ [watch EXCEPT !.owed = {}] \in Watches
         /\ \A t \in Targets : Reported(t) \in Watches
         /\ \A t \in Targets : \A e \in Expected \cup {Unexpected} :
                [watch EXCEPT !.ledger[t] = e] \in Watches
<1> DEFINE L == [Targets -> Expected \cup {Unexpected}]
<1>1. /\ watch.ledger \in L /\ watch.batch \in L /\ watch.attached \in BOOLEAN
      /\ watch.seen \in SUBSET Targets /\ watch.comparing \in SUBSET Targets
      /\ watch.owed \in SUBSET Targets
  BY DEF Watches
<1>2. Unattached \in Watches /\ [Unattached EXCEPT !.attached = TRUE] \in Watches
  BY DEF Unattached, Watches
<1>3. ASSUME NEW t \in Targets PROVE Reported(t) \in Watches
  BY <1>1 DEF Reported, Watches
<1>4. Returned({}) \in Watches /\ Returned(Targets) \in Watches
  BY <1>1, <1>2 DEF Returned, Watches
<1>5. ASSUME NEW t \in Targets, NEW x \in Expected \cup {Unexpected}
      PROVE  [watch EXCEPT !.ledger[t] = x] \in Watches
  <2>1. [watch.ledger EXCEPT ![t] = x] \in L
    BY <1>1
  <2>2. [watch EXCEPT !.ledger[t] = x] = [watch EXCEPT !.ledger = [watch.ledger EXCEPT ![t] = x]]
    BY DEF Watches
  <2> QED
    BY <1>1, <2>1, <2>2 DEF Watches
<1>6. [watch EXCEPT !.owed = {}] \in Watches
  BY <1>1 DEF Watches
<1> QED
  BY <1>2, <1>3, <1>4, <1>5, <1>6

\* The files the plan and the other writers leave are files.
LEMMA FileTypes ==
  ASSUME vault \in [Targets -> Files], job \in Jobs, NEW t \in Targets
  PROVE  /\ Removed(t) \in Files /\ Written(t) \in Files /\ Initially(t) \in Files
         /\ Initially(t).bytes = Before[t]
         /\ \A b \in Bytes, s \in Stamps : [vault[t] EXCEPT !.bytes = b, !.stamp = s] \in Files
<1>1. /\ vault[t] \in Files /\ job.attempt \in 0..Attempts
      /\ Before[t] \in Bytes /\ After[t] \in Bytes
      /\ Attempts \in Nat /\ Writes \in Nat
  BY PlanAssumption DEF Jobs, Bytes
<1>2. job.attempt \in Stamps /\ 0 \in Stamps /\ Nothing \in Bytes
  BY <1>1 DEF Stamps, Bytes
<1> QED
  BY <1>1, <1>2 DEF Files, Removed, Written, Initially, Spellings

\* The listing of a vault is rows.
LEMMA ListingTypes ==
  ASSUME NEW v \in [Targets -> Files]
  PROVE  Listing(v) \in [Paths -> Bytes]
BY DEF Listing, Paths, Files, Bytes, Spellings

\* A publication that stops leaves the job, the report and the rest well typed.
LEMMA StopsTypes ==
  ASSUME NEW t \in Targets, NEW j \in Jobs, NEW r \in Reports, Stops(t, j, r),
         left \in SUBSET Targets, shadows \in SUBSET Targets
  PROVE  /\ job' \in Jobs /\ act' \in Acts /\ left' \in SUBSET Targets
         /\ shadows' \in SUBSET Targets /\ report' \in Reports
         /\ act'.on = NoTarget /\ job'.phase = "confirming" /\ job'.answer = j.answer
         /\ report'.stopped /\ shadows' = shadows \ {t} /\ left' = left \ {t}
<1>1. job' = [j EXCEPT !.phase = "confirming"] /\ act' = NoAct /\ left' = left \ {t}
      /\ shadows' = shadows \ {t} /\ report' = [r EXCEPT !.stopped = TRUE]
  BY DEF Stops
<1>2. job' \in Jobs /\ job'.phase = "confirming" /\ job'.answer = j.answer
  BY <1>1 DEF Jobs, Phases
<1>3. report' \in Reports /\ report'.stopped
  BY <1>1 DEF Reports
<1>4. act' \in Acts /\ act'.on = NoTarget
  BY <1>1, PlanAssumption DEF Acts, NoAct, Stamps
<1> QED
  BY <1>1, <1>2, <1>3, <1>4

\* A fault keeps the budget's type.
LEMMA FaultTypes ==
  ASSUME budget \in Budgets
  PROVE  Fault => budget' \in Budgets
BY PlanAssumption DEF Fault, Budgets

\* A sync and a change keep the types of what they touch.
LEMMA DiskTypes ==
  ASSUME vault \in [Targets -> Files], survives \in [Targets -> SUBSET Files], NEW t \in Targets
  PROVE  /\ Synced(t) => survives' \in [Targets -> SUBSET Files]
         /\ \A f \in Files : Change(t, f) =>
                vault' \in [Targets -> Files] /\ survives' \in [Targets -> SUBSET Files]
<1>1. vault[t] \in Files /\ survives[t] \in SUBSET Files
  OBVIOUS
<1> QED
  BY <1>1 DEF Synced, Change

\* The initial states are well typed.
LEMMA InitTypes == Init => TypeOK
<1> SUFFICES ASSUME Init PROVE TypeOK
  OBVIOUS
<1>1. /\ 0 \in Stamps /\ 0 \in 0..Attempts /\ budget \in Budgets
      /\ job \in Jobs /\ Nothing \in Bytes
  BY PlanAssumption DEF Init, Stamps, Budgets, Jobs, Phases, Bytes
<1>2. \A t \in Targets : Initially(t) \in Files
  BY <1>1, PlanAssumption DEF Initially, Files, Spellings, Bytes
<1>3. vault \in [Targets -> Files] /\ survives \in [Targets -> SUBSET Files]
  BY <1>2 DEF Init
<1>4. store \in [Paths -> Bytes]
  BY <1>3, ListingTypes DEF Init
<1>5. watch \in Watches
  BY DEF Init, Unattached, Watches
<1>6. act \in Acts /\ report \in Reports
  BY PlanAssumption, <1>1 DEF Init, Acts, NoAct, Reports, NoReport
<1>7. foreign \in SUBSET Targets /\ shadows \in SUBSET Targets /\ left \in SUBSET Targets
  BY DEF Init
<1>8. held \in [Targets -> {"none", "staged", "landed"}] /\ rows \in [Paths -> Bytes \cup {Kept}]
  BY DEF Init
<1> QED
  BY <1>1, <1>3, <1>4, <1>5, <1>6, <1>7, <1>8 DEF TypeOK

\* Beginning and staging keep the types.
LEMMA StagingTypes ==
  ASSUME TypeOK, Begin \/ BeginPublishing \/ \E t \in Targets : Stage(t) \/ StageStops(t)
  PROVE  TypeOK'
<1>0. /\ vault \in [Targets -> Files] /\ survives \in [Targets -> SUBSET Files]
      /\ job \in Jobs /\ watch \in Watches /\ held \in [Targets -> {"none", "staged", "landed"}]
      /\ left \in SUBSET Targets /\ shadows \in SUBSET Targets /\ budget \in Budgets
      /\ NoReport \in Reports /\ Attempts \in Nat
  BY PlanAssumption DEF TypeOK, Reports, NoReport
<1>1. /\ Returned({}) \in Watches
      /\ \A a \in {"stood_down", "refused"} :
             Over(a) \in Jobs /\ [Over(a) EXCEPT !.clean = FALSE] \in Jobs
      /\ [job EXCEPT !.phase = "publishing"] \in Jobs
      /\ Discarded \in SUBSET Targets
  <2>1. Returned({}) \in Watches
    BY <1>0, WatchTypes
  <2> QED
    BY <1>0, <2>1, JobTypes DEF Phases, Discarded
<1>2. CASE Begin
  <2>1. job' \in Jobs
    <3>1. job.attempt + 1 \in 0..Attempts
      BY <1>0, <1>2 DEF Begin, Jobs
    <3>2. \A p \in Phases, a \in {"none", "refused"} :
              [phase |-> p, attempt |-> job.attempt + 1, leg |-> TRUE, clean |-> TRUE,
               answer |-> a] \in Jobs
      BY <3>1 DEF Jobs
    <3> QED
      BY <1>2, <3>2 DEF Begin, Phases
  <2> QED
    BY <1>0, <1>2, <2>1 DEF Begin, TypeOK
<1>3. ASSUME NEW t \in Targets, Stage(t) PROVE TypeOK'
  <2>1. held' \in [Targets -> {"none", "staged", "landed"}] /\ shadows' \in SUBSET Targets
    BY <1>0, <1>3 DEF Stage
  <2> QED
    BY <1>0, <1>3, <2>1 DEF Stage, TypeOK
<1>4. ASSUME NEW t \in Targets, StageStops(t) PROVE TypeOK'
  <2>1. job' \in Jobs /\ budget' \in Budgets
    BY <1>0, <1>1, <1>4, FaultTypes DEF StageStops, Faulted
  <2> QED
    BY <1>0, <1>1, <1>4, <2>1 DEF StageStops, TypeOK
<1>5. CASE BeginPublishing
  <2>1. /\ job' \in Jobs /\ left' \in SUBSET Targets /\ shadows' \in SUBSET Targets
        /\ watch' \in Watches /\ held' \in [Targets -> {"none", "staged", "landed"}]
    BY <1>0, <1>1, <1>5 DEF BeginPublishing
  <2> QED
    BY <1>5, <2>1 DEF BeginPublishing, TypeOK
<1> QED
  BY <1>2, <1>3, <1>4, <1>5

\* Publishing a target keeps the types.
LEMMA PublishTypes ==
  ASSUME TypeOK, NEW t \in Targets, Publish(t)
  PROVE  TypeOK'
<1>0. /\ vault \in [Targets -> Files] /\ survives \in [Targets -> SUBSET Files]
      /\ job \in Jobs /\ watch \in Watches /\ act \in Acts /\ report \in Reports
      /\ left \in SUBSET Targets /\ shadows \in SUBSET Targets /\ budget \in Budgets
  BY DEF TypeOK
<1>1. /\ [job EXCEPT !.clean = FALSE] \in Jobs /\ vault[t].stamp \in Stamps
      /\ NoAct \in Acts
      /\ Result(t, "found") \in Reports /\ Told(t) \in Reports /\ Interrupted(t) \in Reports
      /\ left \ {t} \in SUBSET Targets /\ shadows \ {t} \in SUBSET Targets
      /\ Synced(t) => survives' \in [Targets -> SUBSET Files]
      /\ Fault => budget' \in Budgets
  <2>1. vault[t] \in Files
    BY <1>0
  <2>2. vault[t].stamp \in Stamps
    BY <2>1 DEF Files
  <2> QED
    BY <1>0, <2>2, JobTypes, ActTypes, ReportTypes, FaultTypes, DiskTypes
<1>2. ASSUME NEW j \in Jobs, NEW r \in Reports, Stops(t, j, r)
      PROVE  /\ job' \in Jobs /\ act' \in Acts /\ left' \in SUBSET Targets
             /\ shadows' \in SUBSET Targets /\ report' \in Reports
  BY <1>0, <1>2, StopsTypes
<1>3. CASE ConfirmLanded(t)
  <2>1. /\ job' \in Jobs /\ act' \in Acts /\ left' \in SUBSET Targets
        /\ shadows' \in SUBSET Targets /\ report' \in Reports /\ budget' \in Budgets
        /\ survives' \in [Targets -> SUBSET Files]
    BY <1>0, <1>1, <1>2, <1>3 DEF ConfirmLanded
  <2> QED
    BY <1>3, <2>1 DEF ConfirmLanded, TypeOK
<1>4. CASE Judge(t)
  <2>1. act' \in Acts
    <3>1. CASE Landed(t) /\ act' = [NoAct EXCEPT !.on = t, !.step = "sync", !.found = TRUE]
      BY <1>0, <1>1, <3>1, ActTypes
    <3>2. ASSUME NEW b \in BOOLEAN,
                 act' = [NoAct EXCEPT !.on = t, !.step = "act", !.stamp = vault[t].stamp,
                                      !.respelling = b]
          PROVE  act' \in Acts
      BY <1>0, <1>1, <3>2, ActTypes
    <3> QED
      BY <1>4, <3>1, <3>2 DEF Judge
  <2> QED
    BY <1>4, <2>1 DEF Judge, TypeOK
<1>5. CASE JudgeStops(t)
  <2>1. /\ job' \in Jobs /\ act' \in Acts /\ left' \in SUBSET Targets
        /\ shadows' \in SUBSET Targets /\ report' \in Reports /\ budget' \in Budgets
    BY <1>0, <1>1, <1>2, <1>5 DEF JudgeStops
  <2> QED
    BY <1>5, <2>1 DEF JudgeStops, TypeOK
<1>6. CASE Act(t)
  <2>1. vault' \in [Targets -> Files] /\ survives' \in [Targets -> SUBSET Files]
    BY <1>0, <1>6, FileTypes, DiskTypes DEF Act
  <2>2. watch' \in Watches /\ shadows' \in SUBSET Targets /\ act' \in Acts
    BY <1>0, <1>1, <1>6, WatchTypes, ActTypes DEF Act
  <2> QED
    BY <1>6, <2>1, <2>2 DEF Act, TypeOK
<1>7. CASE ActFinds(t)
  <2>1. act' \in Acts
    BY <1>0, <1>1, <1>7, ActTypes DEF ActFinds
  <2> QED
    BY <1>7, <2>1 DEF ActFinds, TypeOK
<1>8. CASE ActStops(t)
  <2>1. /\ job' \in Jobs /\ act' \in Acts /\ left' \in SUBSET Targets
        /\ shadows' \in SUBSET Targets /\ report' \in Reports /\ budget' \in Budgets
    BY <1>0, <1>1, <1>2, <1>8 DEF ActStops
  <2> QED
    BY <1>8, <2>1 DEF ActStops, TypeOK
<1>9. CASE Record(t)
  <2> DEFINE s == IF After[t] = Nothing THEN 0
                  ELSE IF act.respelling THEN act.stamp ELSE job.attempt
  <2>1. s \in Stamps /\ After[t] \in Bytes
    <3>1. job.attempt \in Stamps /\ act.stamp \in Stamps /\ 0 \in Stamps
      BY <1>0, PlanAssumption DEF Jobs, Acts, Stamps
    <3> QED
      BY <3>1, PlanAssumption DEF Bytes
  <2>2. [bytes |-> After[t], stamp |-> s] \in Expected
    BY <2>1 DEF Expected
  <2>3. watch' \in Watches /\ act' \in Acts
    BY <1>0, <1>1, <1>9, <2>2, WatchTypes, ActTypes DEF Record
  <2> QED
    BY <1>9, <2>3 DEF Record, TypeOK
<1>10. CASE SyncContent(t)
  <2>1. act' \in Acts /\ job' \in Jobs /\ budget' \in Budgets
        /\ survives' \in [Targets -> SUBSET Files]
    BY <1>0, <1>1, <1>10, ActTypes DEF SyncContent, Faulted
  <2> QED
    BY <1>10, <2>1 DEF SyncContent, TypeOK
<1>11. CASE JudgeRename(t)
  <2>1. /\ job' \in Jobs /\ act' \in Acts /\ left' \in SUBSET Targets
        /\ shadows' \in SUBSET Targets /\ report' \in Reports
    BY <1>0, <1>1, <1>2, <1>11, ActTypes DEF JudgeRename
  <2> QED
    BY <1>11, <2>1 DEF JudgeRename, TypeOK
<1>12. CASE Sync(t)
  BY <1>0, <1>1, <1>12 DEF Sync, TypeOK
<1>13. CASE SyncFails(t)
  <2>1. /\ job' \in Jobs /\ act' \in Acts /\ left' \in SUBSET Targets
        /\ shadows' \in SUBSET Targets /\ report' \in Reports /\ budget' \in Budgets
        /\ survives' \in [Targets -> SUBSET Files]
    BY <1>0, <1>1, <1>2, <1>13 DEF SyncFails
  <2> QED
    BY <1>13, <2>1 DEF SyncFails, TypeOK
<1>14. CASE ConfirmRemaining(t)
  <2>1. survives' \in [Targets -> SUBSET Files] /\ report' \in Reports
    BY <1>0, <1>1, <1>14 DEF ConfirmRemaining
  <2>2. job' \in Jobs /\ budget' \in Budgets
    BY <1>0, <1>14, RemainingJob DEF TypeOK
  <2> QED
    BY <1>0, <1>1, <1>14, <2>1, <2>2 DEF ConfirmRemaining, TypeOK
<1> QED
  BY <1>3, <1>4, <1>5, <1>6, <1>7, <1>8, <1>9, <1>10, <1>11, <1>12, <1>13, <1>14
  DEF Publish

\* The end of publication, the changeset and the answer keep the types.
LEMMA AnswerTypes ==
  ASSUME TypeOK, Published \/ ReadBack \/ Commit \/ CommitFails \/ NothingToCommit
  PROVE  TypeOK'
<1>0. /\ job \in Jobs /\ watch \in Watches /\ report \in Reports /\ budget \in Budgets
      /\ vault \in [Targets -> Files]
      /\ store \in [Paths -> Bytes] /\ rows \in [Paths -> Bytes \cup {Kept}]
  BY DEF TypeOK
<1>1. /\ Returned({}) \in Watches /\ Returned(Targets) \in Watches
      /\ Over(Answer) \in Jobs /\ [Over(Answer) EXCEPT !.clean = FALSE] \in Jobs
      /\ [p \in Paths |-> Kept] \in [Paths -> Bytes \cup {Kept}]
      /\ [job EXCEPT !.phase = "answering"] \in Jobs
      /\ [job EXCEPT !.phase = "committing"] \in Jobs
      /\ Fault => budget' \in Budgets
  <2>1. Answer \in {"applied", "interrupted", "refused"}
    BY DEF Answer
  <2> QED
    BY <1>0, <2>1, JobTypes, WatchTypes, FaultTypes DEF Phases
<1>2. CASE Published
  <2>1. report' \in Reports
    <3>1. CASE UNCHANGED report
      BY <1>0, <3>1
    <3>2. CASE report' = KeepAvailableSources(report)
      BY <1>0, <3>2, KeptReport
    <3> QED
      BY <1>2, <3>1, <3>2 DEF Published
  <2> QED
    BY <1>1, <1>2, <2>1 DEF Published, TypeOK
<1>3. CASE ReadBack
  <2>1. \A e \in Effects : e[2] \in Bytes /\ e[1] \in Paths
    BY PlanAssumption DEF Effects, Bytes, Paths, Spellings
  <2>2. ASSUME NEW p \in Paths, \E e \in Effects : e[1] = p /\ Readable(e)
        PROVE  (CHOOSE e \in Effects : e[1] = p)[2] \in Bytes
    BY <2>1, <2>2
  <2>3. rows' \in [Paths -> Bytes \cup {Kept}]
    BY <1>3, <2>2 DEF ReadBack
  <2> QED
    BY <1>1, <1>3, <2>3 DEF ReadBack, TypeOK
<1>4. CASE Commit
  <2>1. store' \in [Paths -> Bytes]
    <3>1. ASSUME NEW p \in Paths PROVE (IF rows[p] = Kept THEN store[p] ELSE rows[p]) \in Bytes
      BY <1>0
    <3> QED
      BY <1>4, <3>1 DEF Commit
  <2> QED
    BY <1>1, <1>4, <2>1 DEF Commit, TypeOK
<1>5. CASE CommitFails
  BY <1>1, <1>5 DEF CommitFails, Faulted, TypeOK
<1>6. CASE NothingToCommit
  BY <1>1, <1>6 DEF NothingToCommit, TypeOK
<1> QED
  BY <1>2, <1>3, <1>4, <1>5, <1>6

\* The coverage keeps the types.
LEMMA CoverageTypes ==
  ASSUME TypeOK, Settle \/ Suppress \/ Reconcile \/ Attach \/ \E t \in Targets : Expire(t)
  PROVE  TypeOK'
<1> DEFINE L == [Targets -> Expected \cup {Unexpected}]
<1>0. /\ watch \in Watches /\ budget \in Budgets /\ vault \in [Targets -> Files]
      /\ store \in [Paths -> Bytes]
      /\ watch.ledger \in L /\ watch.batch \in L /\ watch.seen \in SUBSET Targets
      /\ watch.comparing \in SUBSET Targets /\ watch.owed \in SUBSET Targets
  BY DEF TypeOK, Watches
<1>1. CASE Settle
  <2>1. [t \in Targets |-> IF t \in watch.seen THEN watch.ledger[t] ELSE Unexpected] \in L
    BY <1>0
  <2>2. watch' \in Watches
    BY <1>0, <1>1, <2>1 DEF Settle, Watches
  <2> QED
    BY <1>1, <2>2 DEF Settle, TypeOK
<1>2. CASE Suppress
  <2> DEFINE changed == {t \in watch.comparing : ~Echo(t)}
             ledger == [t \in Targets |->
                 IF t \in changed /\ watch.ledger[t] = watch.batch[t] THEN Unexpected
                 ELSE watch.ledger[t]]
  <2>1. ledger \in L /\ watch.owed \cup changed \in SUBSET Targets
        /\ [t \in Targets |-> Unexpected] \in L
    BY <1>0
  <2>2. watch' = [watch EXCEPT !.comparing = {}, !.batch = [t \in Targets |-> Unexpected],
                               !.owed = watch.owed \cup changed, !.ledger = ledger]
    BY <1>2 DEF Suppress
  <2> HIDE DEF changed, ledger
  <2>3. watch' \in Watches
    BY <1>0, <2>1, <2>2 DEF Watches
  <2> QED
    BY <1>2, <2>3 DEF Suppress, TypeOK
<1>3. CASE Reconcile
  <2>1. Listing(vault) \in [Paths -> Bytes]
    BY <1>0, ListingTypes
  <2>2. store' \in [Paths -> Bytes]
    BY <1>0, <1>3, <2>1 DEF Reconcile
  <2>3. watch' \in Watches
    BY <1>0, <1>3, WatchTypes DEF Reconcile
  <2> QED
    BY <1>3, <2>2, <2>3 DEF Reconcile, TypeOK
<1>4. CASE Attach
  BY <1>0, <1>4, WatchTypes, ListingTypes DEF Attach, TypeOK
<1>5. ASSUME NEW t \in Targets, Expire(t) PROVE TypeOK'
  <2>1. watch' \in Watches /\ budget' \in Budgets
    BY <1>0, <1>5, WatchTypes, FaultTypes DEF Expire
  <2> QED
    BY <1>5, <2>1 DEF Expire, TypeOK
<1> QED
  BY <1>1, <1>2, <1>3, <1>4, <1>5

\* The other writers and the faults keep the types.
LEMMA OtherTypes ==
  ASSUME TypeOK, TearDown \/ Crash \/ PowerCut \/ \E t \in Targets : ForeignWrite(t) \/ Sweep(t)
  PROVE  TypeOK'
<1>0. /\ job \in Jobs /\ watch \in Watches /\ budget \in Budgets /\ vault \in [Targets -> Files]
      /\ survives \in [Targets -> SUBSET Files]
      /\ Fault => budget' \in Budgets
  BY FaultTypes DEF TypeOK
<1>1. CASE TearDown
  <2>1. job' \in Jobs /\ budget' \in Budgets
    BY <1>0, <1>1, FaultTypes DEF TearDown, Faulted, Jobs
  <2> QED
    BY <1>1, <2>1 DEF TearDown, TypeOK
<1>2. ASSUME Lose
      PROVE  /\ job' \in Jobs /\ watch' \in Watches /\ left' \in SUBSET Targets
             /\ held' \in [Targets -> {"none", "staged", "landed"}] /\ act' \in Acts
             /\ report' \in Reports /\ rows' \in [Paths -> Bytes \cup {Kept}]
             /\ budget' \in Budgets
  <2>1. NoAct \in Acts /\ NoReport \in Reports
    BY PlanAssumption DEF Acts, NoAct, Stamps, Reports, NoReport
  <2> QED
    BY <1>0, <1>2, <2>1, JobTypes, WatchTypes, FaultTypes DEF Lose, Faulted
<1>3. CASE Crash
  BY <1>2, <1>3 DEF Crash, TypeOK
<1>4. CASE PowerCut
  <2>1. vault' \in [Targets -> Files]
    <3>1. UNION {survives[t] : t \in Targets} \subseteq Files
      BY <1>0
    <3> QED
      BY <1>4, <3>1 DEF PowerCut
  <2>2. survives' \in [Targets -> SUBSET Files]
    BY <1>4, <2>1 DEF PowerCut
  <2> QED
    BY <1>2, <1>4, <2>1, <2>2 DEF PowerCut, TypeOK
<1>5. ASSUME NEW t \in Targets, ForeignWrite(t) PROVE TypeOK'
  <2>1. budget' \in Budgets /\ Attempts + budget'.writes \in Stamps
    <3>1. /\ budget.writes \in 0..Writes /\ budget.writes < Writes
          /\ budget' = [budget EXCEPT !.writes = @ + 1]
      BY <1>0, <1>5 DEF ForeignWrite, Budgets
    <3>2. budget'.writes = budget.writes + 1
      BY <1>0, <3>1 DEF Budgets
    <3> QED
      BY <1>0, <3>1, <3>2, PlanAssumption DEF Budgets, Stamps
  <2>2. /\ Removed(t) \in Files
        /\ \A b \in {Before[t], After[t], Other} \ {Nothing} :
               [vault[t] EXCEPT !.bytes = b, !.stamp = Attempts + budget'.writes] \in Files
    BY <1>0, <2>1, FileTypes, PlanAssumption DEF Bytes
  <2>3. vault' \in [Targets -> Files] /\ survives' \in [Targets -> SUBSET Files]
    BY <1>0, <1>5, <2>2, DiskTypes DEF ForeignWrite
  <2>4. watch' \in Watches
    BY <1>0, <1>5, WatchTypes DEF ForeignWrite
  <2> QED
    BY <1>5, <2>1, <2>3, <2>4 DEF ForeignWrite, TypeOK
<1>6. ASSUME NEW t \in Targets, Sweep(t) PROVE TypeOK'
  <2>1. job' \in Jobs /\ budget' \in Budgets
    BY <1>0, <1>6, JobTypes, FaultTypes DEF Sweep, Faulted
  <2> QED
    BY <1>6, <2>1 DEF Sweep, TypeOK
<1> QED
  BY <1>1, <1>3, <1>4, <1>5, <1>6

\* Every step keeps the types.
LEMMA StepTypes == TypeOK /\ [Next]_vars => TypeOK'
<1> SUFFICES ASSUME TypeOK, [Next]_vars PROVE TypeOK'
  OBVIOUS
<1>1. CASE UNCHANGED vars
  BY <1>1 DEF vars, TypeOK
<1> QED
  BY <1>1, StagingTypes, PublishTypes, AnswerTypes, CoverageTypes, OtherTypes DEF Next

----------------------------------------------------------------------------
(* What a step does to the vault                                           *)

\* A step leaves the vault and the disk alone, syncs one target, acts on one,
\* lets another writer change one, or is a power cut.
LEMMA DiskSteps ==
  ASSUME [Next]_vars
  PROVE  \/ UNCHANGED <<vault, survives, foreign>>
         \/ \E t \in Targets : Synced(t) /\ UNCHANGED <<vault, foreign>>
         \/ \E t \in Targets : Act(t) \/ ForeignWrite(t)
         \/ PowerCut
<1>1. CASE UNCHANGED vars
  BY <1>1 DEF vars
<1>2. ASSUME NEW t \in Targets, Publish(t)
      PROVE  \/ UNCHANGED <<vault, survives, foreign>>
             \/ Synced(t) /\ UNCHANGED <<vault, foreign>>
             \/ Act(t)
  BY <1>2, Zenon DEF Publish, ConfirmLanded, Judge, JudgeStops, ActFinds, ActStops, Record,
         SyncContent, JudgeRename, Sync, SyncFails, ConfirmRemaining
<1>3. ASSUME NEW t \in Targets, Stage(t) \/ StageStops(t) \/ Expire(t) \/ Sweep(t)
      PROVE  UNCHANGED <<vault, survives, foreign>>
  BY <1>3 DEF Stage, StageStops, Expire, Sweep
<1>4. CASE Begin \/ BeginPublishing \/ Published
  BY <1>4 DEF Begin, BeginPublishing, Published
<1>5. CASE ReadBack \/ Commit \/ CommitFails \/ NothingToCommit
  BY <1>5 DEF ReadBack, Commit, CommitFails, NothingToCommit
<1>6. CASE Settle \/ Suppress \/ Reconcile \/ Attach \/ TearDown \/ Crash
  BY <1>6 DEF Settle, Suppress, Reconcile, Attach, TearDown, Crash
<1> QED
  BY <1>1, <1>2, <1>3, <1>4, <1>5, <1>6, Zenon DEF Next

\* What is listed is always among what a power cut may leave.
LEMMA ListedStep ==
  ASSUME TypeOK, Listed, [Next]_vars
  PROVE  Listed'
<1>0. vault \in [Targets -> Files] /\ survives \in [Targets -> SUBSET Files]
  BY DEF TypeOK
<1>1. CASE UNCHANGED <<vault, survives, foreign>>
  BY <1>1 DEF Listed
<1>2. ASSUME NEW t \in Targets, Synced(t), UNCHANGED vault PROVE Listed'
  BY <1>0, <1>2 DEF Listed, Synced
<1>3. ASSUME NEW t \in Targets, NEW f, Change(t, f) PROVE Listed'
  BY <1>0, <1>3 DEF Listed, Change
<1>4. ASSUME NEW t \in Targets, Act(t) \/ ForeignWrite(t) PROVE Listed'
  <2>1. \E f : Change(t, f)
    BY <1>4 DEF Act, ForeignWrite
  <2> QED
    BY <1>3, <2>1
<1>5. CASE PowerCut
  BY <1>5 DEF Listed, PowerCut
<1> QED
  BY <1>1, <1>2, <1>4, <1>5, DiskSteps

----------------------------------------------------------------------------
(* The publication under way                                               *)

\* With no publication under way there is nothing to hold.
LEMMA ActEnds == act'.on = NoTarget => ActInv'
BY PlanAssumption DEF ActInv

\* A step that leaves the publication and its turn alone, and changes a file no
\* other writer has touched by no hand, keeps what holds of it.
LEMMA ActStays ==
  ASSUME ActInv, UNCHANGED <<act, left>>, job'.phase = job.phase, foreign \subseteq foreign',
         \A t \in Targets \ foreign' : vault'[t] = vault[t]
  PROVE  ActInv'
BY DEF ActInv, Ready, Waits

\* Publishing a target keeps what holds of the publication under way.
LEMMA PublishKeepsAct ==
  ASSUME TypeOK, ActInv, NEW t \in Targets, Publish(t)
  PROVE  ActInv'
<1>0. /\ vault \in [Targets -> Files] /\ job \in Jobs /\ act \in Acts /\ report \in Reports
      /\ left \in SUBSET Targets /\ shadows \in SUBSET Targets
      /\ vault[t] \in Files /\ t # NoTarget
  BY PlanAssumption DEF TypeOK
<1>1. NoAct.on = NoTarget
  BY DEF NoAct
<1>2. ASSUME NEW j, NEW r, Stops(t, j, r) PROVE ActInv'
  BY <1>1, <1>2, ActEnds DEF Stops
<1>3. CASE ConfirmLanded(t) \/ JudgeStops(t) \/ ActStops(t) \/ Sync(t) \/ SyncFails(t)
  BY <1>1, <1>2, <1>3, ActEnds DEF ConfirmLanded, JudgeStops, ActStops, Sync, SyncFails
<1>4. CASE ConfirmRemaining(t)
  BY <1>4, ActEnds DEF ConfirmRemaining, ActInv
<1>5. CASE Judge(t)
  <2>1. /\ job'.phase = "publishing" /\ t \in Ready' /\ UNCHANGED <<vault, foreign>>
    BY <1>5 DEF Judge, Foremost, Ready, Waits
  <2>2. /\ act'.on = t /\ act'.step \in {"sync", "act"}
        /\ act'.step = "sync" => Landed(t)
        /\ act'.respelling => act'.step = "act" /\ vault[t].bytes = After[t]
        /\ act'.found => act'.step = "sync"
    <3>1. CASE Landed(t) /\ act' = [NoAct EXCEPT !.on = t, !.step = "sync", !.found = TRUE]
      BY <3>1 DEF NoAct
    <3>2. CASE /\ AtBefore(t)
               /\ act' = [NoAct EXCEPT !.on = t, !.step = "act", !.stamp = vault[t].stamp,
                              !.respelling = t \in Respelled /\ Before[t] = After[t]]
      <4>1. act'.on = t /\ act'.step = "act"
            /\ act'.respelling = (t \in Respelled /\ Before[t] = After[t])
            /\ ~act'.found
        BY <3>2 DEF NoAct
      <4> QED
        BY <3>2, <4>1 DEF AtBefore
    <3>3. CASE /\ Halfway(t)
               /\ act' = [NoAct EXCEPT !.on = t, !.step = "act", !.stamp = vault[t].stamp,
                              !.respelling = TRUE]
      <4>1. act'.on = t /\ act'.step = "act" /\ ~act'.found
        BY <3>3 DEF NoAct
      <4> QED
        BY <3>3, <4>1 DEF Halfway
    <3> QED
      BY <1>5, <3>1, <3>2, <3>3 DEF Judge
  <2> QED
    BY <2>1, <2>2 DEF ActInv, Landed
<1>6. CASE Act(t)
  <2>1. /\ act.on = t /\ act' = [act EXCEPT !.step = "record"] /\ Change(t, Written(t))
        /\ UNCHANGED <<foreign, job, left>> /\ act.step = "act"
    BY <1>6 DEF Act
  <2>2. act'.on = t /\ act'.respelling = act.respelling /\ act'.found = act.found
    BY <1>0, <2>1 DEF Acts
  <2>6. ~act.found /\ ~act'.found
    BY <1>0, <2>1, <2>2 DEF ActInv
  <2>3. vault'[t] = Written(t)
    BY <1>0, <2>1 DEF Change
  <2>4. t \notin foreign => vault'[t].bytes = After[t]
    <3>1. t \notin foreign /\ act.respelling => vault[t].bytes = After[t]
      BY <2>1 DEF ActInv
    <3> QED
      BY <1>0, <2>3, <3>1 DEF Written, Removed, Files
  <2>5. t \in Respelled /\ act.respelling => vault'[t].at = "new"
    BY <1>0, <2>3, PlanAssumption DEF Written, Files
  <2> QED
    BY <2>1, <2>2, <2>4, <2>5, <2>6 DEF ActInv, Ready, Waits
<1>7. CASE ActFinds(t)
  <2>1. act.on = t /\ act' = [act EXCEPT !.step = "sync", !.found = TRUE]
        /\ UNCHANGED <<vault, foreign, job, left>>
    BY <1>7 DEF ActFinds
  <2>2. act'.on = t /\ act'.step = "sync"
    BY <1>0, <2>1 DEF Acts
  <2>3. vault[t].bytes = After[t] /\ t \notin Respelled
    BY <1>7, PlanAssumption DEF ActFinds, Taken, Emptied, Landed
  <2> QED
    BY <2>1, <2>2, <2>3 DEF ActInv, Ready, Waits
<1>8. CASE Record(t)
  <2>1. act.on = t /\ act.step = "record" /\ act' = [act EXCEPT !.step = "sync"]
        /\ UNCHANGED <<vault, foreign, job, left>>
    BY <1>8 DEF Record
  <2>2. act'.on = t /\ act'.respelling = act.respelling /\ act'.found = act.found
    BY <1>0, <2>1 DEF Acts
  <2> QED
    BY <2>1, <2>2 DEF ActInv, Ready, Waits
<1>9. CASE SyncContent(t)
  <2>1. act.on = t /\ act.step = "sync" /\ UNCHANGED <<vault, foreign, left>>
        /\ job'.phase = job.phase
    BY <1>0, <1>9 DEF SyncContent, Faulted, Jobs
  <2>2. act'.on = t /\ act'.step = "judge" /\ ~act'.found
    BY <1>0, <1>9, <2>1 DEF SyncContent, ContentStep, Acts
  <2> QED
    BY <2>1, <2>2 DEF ActInv, Ready, Waits
<1>10. CASE JudgeRename(t)
  <2>1. CASE Stops(t, job, Interrupted(t))
    BY <1>2, <2>1
  <2>2. CASE /\ UNCHANGED <<job, left>>
             /\ \/ Landed(t) /\ act' = [act EXCEPT !.step = "sync", !.found = TRUE]
                \/ Halfway(t) /\ act' = [act EXCEPT !.step = "act", !.stamp = vault[t].stamp]
    <3>1. act.on = t /\ UNCHANGED <<vault, foreign>> /\ vault[t].bytes = After[t]
      BY <1>10, <2>2 DEF JudgeRename, Landed, Halfway
    <3>2. /\ act'.on = t /\ act'.step \in {"sync", "act"}
          /\ act'.step = "sync" => Landed(t)
          /\ act'.found => act'.step = "sync"
      BY <1>0, <1>10, <2>2, <3>1 DEF Acts, JudgeRename, ActInv
    <3> QED
      BY <2>2, <3>1, <3>2 DEF ActInv, Ready, Waits, Landed
  <2> QED
    BY <1>10, <2>1, <2>2 DEF JudgeRename
<1> QED
  BY <1>3, <1>4, <1>5, <1>6, <1>7, <1>8, <1>9, <1>10 DEF Publish

\* Every step keeps what holds of the publication under way.
LEMMA ActStep ==
  ASSUME TypeOK, ActInv, [Next]_vars
  PROVE  ActInv'
<1>0. vault \in [Targets -> Files] /\ job \in Jobs
  BY DEF TypeOK
<1>1. CASE UNCHANGED vars
  BY <1>1, ActStays DEF vars
<1>2. ASSUME job.phase # "publishing" \/ act = NoAct, UNCHANGED act PROVE ActInv'
  BY <1>2, ActEnds DEF ActInv, NoAct
<1>3. CASE Begin \/ BeginPublishing \/ Published \/ ReadBack \/ Commit \/ CommitFails
           \/ NothingToCommit \/ \E t \in Targets : Stage(t) \/ StageStops(t)
  BY <1>2, <1>3 DEF Begin, BeginPublishing, Published, ReadBack, Commit, CommitFails,
     NothingToCommit, Stage, StageStops
<1>4. CASE Crash \/ PowerCut
  BY <1>4, ActEnds DEF Crash, PowerCut, Lose, NoAct
<1>5. CASE Settle \/ Suppress \/ Reconcile \/ Attach \/ \E t \in Targets : Expire(t)
  BY <1>5, ActStays DEF Settle, Suppress, Reconcile, Attach, Expire
<1>6. CASE TearDown \/ \E t \in Targets : Sweep(t)
  <2>1. job'.phase = job.phase /\ UNCHANGED <<vault, foreign, left, act>>
    BY <1>0, <1>6 DEF TearDown, Sweep, Faulted, Jobs
  <2> QED
    BY <2>1, ActStays
<1>7. ASSUME NEW t \in Targets, ForeignWrite(t) PROVE ActInv'
  <2>1. \A u \in Targets \ foreign' : vault'[u] = vault[u]
    BY <1>0, <1>7 DEF ForeignWrite, Change
  <2> QED
    BY <1>7, <2>1, ActStays DEF ForeignWrite
<1> QED
  BY <1>1, <1>3, <1>4, <1>5, <1>6, <1>7, PublishKeepsAct DEF Next

----------------------------------------------------------------------------
(* What publication is past                                                *)

\* What was done stays done where neither a step nor another writer has been.
LEMMA DoneStays ==
  ASSUME NEW t \in Targets, survives'[t] = survives[t], Done(t)
  PROVE  Done(t)'
BY DEF Done

\* A step that keeps the phase, the answer and the turn keeps what is past.
LEMMA PastStays ==
  ASSUME PastInv, left' = left, job'.phase = job.phase, job'.answer = job.answer,
         report'.stopped = report.stopped, foreign \subseteq foreign',
         \A t \in Targets \ foreign' : survives'[t] = survives[t] \/ (job.phase = "publishing" /\ t \in left)
  PROVE  PastInv'
<1>1. ASSUME NEW t \in Targets \ foreign', Done(t), job.phase # "publishing" \/ t \notin left
      PROVE  Done(t)'
  BY <1>1, DoneStays
<1>2. job'.phase = "publishing" => \A t \in Targets \ (left' \cup foreign') : Done(t)'
  BY <1>1 DEF PastInv
<1>3. job'.phase \in {"answering", "committing"} =>
        left' = {} /\ (report'.stopped \/ \A t \in Targets \ foreign' : Done(t)')
  BY <1>1 DEF PastInv
<1>4. job'.answer = "applied" =>
        job'.phase = "idle" /\ \A t \in Targets \ foreign' : Done(t)'
  BY <1>1 DEF PastInv
<1>5. job'.phase = "confirming" => report'.stopped
  BY DEF PastInv
<1> QED
  BY <1>2, <1>3, <1>4, <1>5 DEF PastInv

\* A target publication comes past on the disk as the plan leaves it.
LEMMA PastGrows ==
  ASSUME TypeOK, PastInv, NEW t \in Targets, Synced(t), job.phase = "publishing",
         left' = left \ {t}, job' = job, foreign' = foreign,
         t \notin foreign => Landed(t)
  PROVE  PastInv'
<1>1. survives \in [Targets -> SUBSET Files]
  BY DEF TypeOK
<1>2. survives'[t] = {vault[t]} /\ \A u \in Targets \ {t} : survives'[u] = survives[u]
  BY <1>1 DEF Synced
<1>3. t \notin foreign => Done(t)'
  BY <1>2 DEF Done, Landed
<1>4. \A u \in Targets \ {t} : Done(u) => Done(u)'
  BY <1>2, DoneStays
<1>5. \A u \in Targets \ (left' \cup foreign') : Done(u)'
  BY <1>3, <1>4 DEF PastInv
<1>6. job'.phase = "publishing" /\ job'.answer # "applied"
  BY DEF PastInv
<1> QED
  BY <1>5, <1>6 DEF PastInv

\* Publishing a target keeps what is past.
LEMMA PublishKeepsPast ==
  ASSUME TypeOK, ActInv, PastInv, NEW t \in Targets, Publish(t)
  PROVE  PastInv'
<1>0. /\ vault \in [Targets -> Files] /\ survives \in [Targets -> SUBSET Files]
      /\ job \in Jobs /\ act \in Acts /\ report \in Reports /\ t # NoTarget
  BY PlanAssumption DEF TypeOK
<1>1. ASSUME NEW j \in Jobs, NEW r \in Reports, Stops(t, j, r), j.answer = job.answer,
             job.phase = "publishing"
      PROVE  PastInv'
  <2>1. job'.phase = "confirming" /\ job'.answer = j.answer /\ report'.stopped
    BY <1>1, <1>0, StopsTypes DEF TypeOK
  <2> QED
    BY <1>1, <2>1 DEF PastInv
<1>2. act.on = t => job.phase = "publishing" /\ t \in left
  BY <1>0 DEF ActInv, Ready
<1>3. /\ Result(t, "found") \in Reports /\ Told(t) \in Reports /\ Interrupted(t) \in Reports
      /\ [job EXCEPT !.clean = FALSE] \in Jobs
      /\ [job EXCEPT !.clean = FALSE].answer = job.answer
      /\ [job EXCEPT !.clean = FALSE].phase = job.phase
  BY <1>0, ReportTypes, JobTypes DEF Jobs
<1>4. CASE ConfirmLanded(t)
  <2>1. CASE Landed(t) /\ Synced(t) /\ left' = left \ {t} /\ UNCHANGED job
    BY <1>4, <2>1, PastGrows DEF ConfirmLanded
  <2>2. CASE Stops(t, [job EXCEPT !.clean = FALSE], Result(t, "found")) \/ Stops(t, job, report)
    BY <1>0, <1>1, <1>3, <1>4, <2>2 DEF ConfirmLanded
  <2> QED
    BY <1>4, <2>1, <2>2 DEF ConfirmLanded
<1>5. CASE Judge(t) \/ ActFinds(t) \/ Record(t)
  BY <1>5, PastStays DEF Judge, ActFinds, Record
<1>6. CASE JudgeStops(t) \/ ActStops(t)
  BY <1>0, <1>1, <1>2, <1>3, <1>6 DEF JudgeStops, ActStops
<1>7. CASE Act(t)
  <2>1. \A u \in Targets \ {t} : survives'[u] = survives[u]
    BY <1>0, <1>7 DEF Act, Change
  <2> QED
    BY <1>2, <1>7, <2>1, PastStays DEF Act
<1>8. CASE SyncContent(t)
  <2>1. \A u \in Targets \ {t} : survives'[u] = survives[u]
    BY <1>0, <1>8 DEF SyncContent, Synced
  <2>2. job'.phase = job.phase /\ job'.answer = job.answer
    BY <1>3, <1>8 DEF SyncContent, Faulted
  <2> QED
    BY <1>2, <1>8, <2>1, <2>2, PastStays DEF SyncContent
<1>9. CASE JudgeRename(t)
  <2>1. CASE Stops(t, job, Interrupted(t))
    BY <1>0, <1>1, <1>2, <1>3, <1>9, <2>1 DEF JudgeRename
  <2>2. CASE UNCHANGED <<job, left, report>>
    BY <1>9, <2>2, PastStays DEF JudgeRename
  <2> QED
    BY <1>9, <2>1, <2>2 DEF JudgeRename
<1>10. CASE Sync(t)
  <2>1. t \notin foreign => Landed(t)
    BY <1>0, <1>10 DEF Sync, ContentStep, ActInv, Landed
  <2> QED
    BY <1>2, <1>10, <2>1, PastGrows DEF Sync
<1>11. CASE SyncFails(t)
  BY <1>0, <1>1, <1>2, <1>3, <1>11 DEF SyncFails
<1>12. CASE ConfirmRemaining(t)
  <2>1. report'.stopped
    BY <1>0, <1>12 DEF ConfirmRemaining, PastInv, Result, Reports
  <2>2. job.phase = "confirming" /\ job'.phase = "confirming" /\ job'.answer = job.answer
    BY <1>0, <1>12, RemainingJob DEF TypeOK
  <2> QED
    BY <1>12, <2>1, <2>2 DEF ConfirmRemaining, PastInv
<1> QED
  BY <1>4, <1>5, <1>6, <1>7, <1>8, <1>9, <1>10, <1>11, <1>12 DEF Publish

\* A job that is over is idle with its answer.
LEMMA JobOver ==
  ASSUME job \in Jobs, NEW a \in {"none", "applied", "interrupted", "refused", "stood_down"},
         job' = Over(a) \/ Faulted(Over(a))
  PROVE  job'.phase = "idle" /\ job'.answer = a
BY DEF Over, Jobs, Faulted

\* Every step keeps what is past.
LEMMA PastStep ==
  ASSUME TypeOK, ActInv, PastInv, [Next]_vars
  PROVE  PastInv'
<1>0. survives \in [Targets -> SUBSET Files] /\ job \in Jobs /\ report \in Reports
  BY DEF TypeOK
<1>1. CASE UNCHANGED vars
  BY <1>1, PastStays DEF vars
<1>3. ASSUME job'.phase = "idle" \/ job'.phase = "staging", job'.answer # "applied"
      PROVE  PastInv'
  BY <1>3 DEF PastInv
<1>4. CASE Begin
  BY <1>3, <1>4 DEF Begin
<1>5. ASSUME NEW t \in Targets, Stage(t) PROVE PastInv'
  BY <1>3, <1>5 DEF Stage, PastInv
<1>6. ASSUME NEW t \in Targets, StageStops(t) PROVE PastInv'
  BY <1>0, <1>3, <1>6, JobOver DEF StageStops
<1>7. CASE BeginPublishing
  <2>1. CASE job' = Over("stood_down")
    BY <1>0, <1>3, <2>1, JobOver
  <2>2. CASE job' = [job EXCEPT !.phase = "publishing"] /\ left' = Targets
    BY <1>0, <1>7, <2>2 DEF BeginPublishing, PastInv, Jobs
  <2> QED
    BY <1>7, <2>1, <2>2 DEF BeginPublishing
<1>8. CASE Published
  <2>1. /\ job'.phase = "answering" /\ job'.answer = job.answer /\ left' = {}
        /\ UNCHANGED <<survives, foreign>> /\ report'.stopped = report.stopped
        /\ job.phase \in {"publishing", "confirming"} /\ left = {}
    BY <1>0, <1>8, KeptReport DEF Published, Jobs
  <2>2. report.stopped \/ \A t \in Targets \ foreign' : Done(t)'
    BY <2>1, DoneStays DEF PastInv
  <2> QED
    BY <2>1, <2>2 DEF PastInv
<1>9. CASE ReadBack
  <2>1. /\ job.phase = "answering" /\ job'.phase = "committing" /\ job'.answer = job.answer
        /\ UNCHANGED <<survives, foreign, left, report>>
    BY <1>0, <1>9 DEF ReadBack, Jobs
  <2>2. left' = {} /\ (report'.stopped \/ \A t \in Targets \ foreign' : Done(t)')
    BY <2>1, DoneStays DEF PastInv
  <2> QED
    BY <2>1, <2>2 DEF PastInv
<1>10. CASE Commit \/ CommitFails \/ NothingToCommit
  <2>0. Answer \in {"applied", "interrupted", "refused"}
    BY DEF Answer
  <2>1. /\ job.phase \in {"answering", "committing"} /\ UNCHANGED <<survives, foreign, report>>
        /\ job'.phase = "idle" /\ job'.answer = Answer
    <3>1. job' = Over(Answer) \/ Faulted(Over(Answer))
      BY <1>10 DEF Commit, CommitFails, NothingToCommit
    <3> QED
      BY <1>0, <1>10, <2>0, <3>1, JobOver DEF Commit, CommitFails, NothingToCommit
  <2>2. Answer = "applied" => \A t \in Targets \ foreign' : Done(t)'
    BY <2>1, DoneStays DEF PastInv, Answer
  <2> QED
    BY <2>1, <2>2 DEF PastInv
<1>11. CASE Crash \/ PowerCut
  BY <1>0, <1>3, <1>11, JobOver DEF Crash, PowerCut, Lose
<1>12. CASE Settle \/ Suppress \/ Reconcile \/ Attach \/ \E t \in Targets : Expire(t)
  BY <1>12, PastStays DEF Settle, Suppress, Reconcile, Attach, Expire
<1>13. CASE TearDown \/ \E t \in Targets : Sweep(t)
  <2>1. /\ job'.phase = job.phase /\ job'.answer = job.answer
        /\ UNCHANGED <<survives, foreign, left, report>>
    BY <1>0, <1>13 DEF TearDown, Sweep, Faulted, Jobs
  <2> QED
    BY <2>1, PastStays
<1>14. ASSUME NEW t \in Targets, ForeignWrite(t) PROVE PastInv'
  <2>1. \A u \in Targets \ foreign' : survives'[u] = survives[u]
    BY <1>0, <1>14 DEF ForeignWrite, Change
  <2> QED
    BY <1>14, <2>1, PastStays DEF ForeignWrite
<1> QED
  BY <1>1, <1>4, <1>5, <1>6, <1>7, <1>8, <1>9, <1>10, <1>11, <1>12, <1>13, <1>14,
     PublishKeepsPast DEF Next

----------------------------------------------------------------------------
(* The shadows                                                             *)

\* Every step keeps the shadows accounted for.
LEMMA ShadowStep ==
  ASSUME TypeOK, ActInv, PastInv, ShadowInv, [Next]_vars
  PROVE  ShadowInv'
<1>0. /\ job \in Jobs /\ watch \in Watches /\ shadows \in SUBSET Targets
      /\ held \in [Targets -> {"none", "staged", "landed"}]
  BY DEF TypeOK
<1>1. ASSUME UNCHANGED held, job'.phase = job.phase, watch'.attached = watch.attached,
             shadows' \subseteq shadows,
             left' \subseteq left,
             \A t \in left \ left' : t \notin shadows' \/ job.phase = "staging"
      PROVE  ShadowInv'
  BY <1>1 DEF ShadowInv
<1>2. ASSUME shadows' = {}, job'.phase = "idle" PROVE ShadowInv'
  BY <1>2 DEF ShadowInv
<1>4. CASE UNCHANGED vars
  BY <1>1, <1>4 DEF vars
<1>5. ASSUME NEW t \in Targets, Publish(t) PROVE ShadowInv'
  <2>1. act.on = t => job.phase = "publishing" /\ t \in left
    BY PlanAssumption DEF ActInv, Ready
  <2>2. ASSUME NEW j, NEW r, Stops(t, j, r), j.phase = "publishing", job.phase = "publishing",
               j \in Jobs, UNCHANGED <<held, watch>>
        PROVE  ShadowInv'
    <3>1. job'.phase = "confirming" /\ shadows' = shadows \ {t} /\ left' = left \ {t}
      BY <2>2 DEF Stops, Jobs, Phases
    <3> QED
      BY <2>2, <3>1 DEF ShadowInv
  <2>3. [job EXCEPT !.clean = FALSE] \in Jobs /\ [job EXCEPT !.clean = FALSE].phase = job.phase
    BY <1>0 DEF Jobs
  <2>4. CASE ConfirmLanded(t)
    <3>1. CASE left' = left \ {t} /\ UNCHANGED <<shadows, job>>
      BY <1>1, <2>4, <3>1 DEF ConfirmLanded, ShadowInv
    <3>2. CASE \/ Stops(t, [job EXCEPT !.clean = FALSE], Result(t, "found"))
               \/ Stops(t, job, report)
      BY <1>0, <2>2, <2>3, <2>4, <3>2 DEF ConfirmLanded
    <3> QED
      BY <2>4, <3>1, <3>2 DEF ConfirmLanded
  <2>5. CASE Judge(t) \/ ActFinds(t)
    BY <1>1, <2>5 DEF Judge, ActFinds
  <2>6. CASE JudgeStops(t) \/ ActStops(t) \/ SyncFails(t)
    BY <1>0, <2>1, <2>2, <2>3, <2>6 DEF JudgeStops, ActStops, SyncFails
  <2>7. CASE Act(t)
    BY <1>0, <1>1, <2>7 DEF Act, Reported, Watches
  <2>8. CASE Record(t)
    BY <1>0, <1>1, <2>8 DEF Record, Watches
  <2>9. CASE SyncContent(t)
    BY <1>1, <2>3, <2>9 DEF SyncContent, Faulted
  <2>10. CASE JudgeRename(t)
    <3>1. CASE Stops(t, job, Interrupted(t))
      BY <1>0, <2>1, <2>2, <2>10, <3>1 DEF JudgeRename
    <3>2. CASE UNCHANGED <<job, left, shadows>>
      BY <1>1, <2>10, <3>2 DEF JudgeRename
    <3> QED
      BY <2>10, <3>1, <3>2 DEF JudgeRename
  <2>11. CASE Sync(t) \/ ConfirmRemaining(t)
    <3>1. job'.phase = job.phase
      BY <1>0, <2>11, RemainingJob DEF Sync, TypeOK
    <3> QED
      BY <1>1, <2>11, <3>1 DEF Sync, ConfirmRemaining
  <2> QED
    BY <1>5, <2>4, <2>5, <2>6, <2>7, <2>8, <2>9, <2>10, <2>11 DEF Publish
<1>6. CASE Begin
  BY <1>6 DEF Begin, ShadowInv
<1>7. ASSUME NEW t \in Targets, Stage(t) PROVE ShadowInv'
  <2>1. /\ job.phase = "staging" /\ UNCHANGED <<job, watch>> /\ watch.attached
        /\ \A u \in Targets \ {t} : held'[u] = held[u]
        /\ shadows \subseteq {u \in Targets : held[u] = "staged"}
        /\ left' = left \ {t} /\ held[t] = "none" /\ \A u \in left : held[u] = "none"
    BY <1>0, <1>7 DEF Stage, ShadowInv, Foremost, Ready
  <2>2. \/ held'[t] = "staged" /\ shadows' \subseteq shadows \cup {t}
        \/ shadows' = shadows
    BY <1>0, <1>7 DEF Stage
  <2>3. shadows' \subseteq {u \in Targets : held'[u] = "staged"}
    BY <1>0, <2>1, <2>2
  <2>4. left \subseteq Targets
    BY DEF TypeOK
  <2>5. \A u \in left' : held'[u] = "none"
    BY <2>1, <2>4
  <2> QED
    BY <2>1, <2>3, <2>5 DEF ShadowInv
<1>8. ASSUME NEW t \in Targets, StageStops(t) PROVE ShadowInv'
  <2>1. shadows' = {}
    BY <1>8 DEF StageStops, Discarded, ShadowInv
  <2> QED
    BY <1>0, <1>2, <1>8, <2>1, JobOver DEF StageStops
<1>9. CASE BeginPublishing
  <2>1. CASE job' = [job EXCEPT !.phase = "publishing"] /\ left' = Targets
             /\ UNCHANGED <<shadows, held, watch>>
    BY <1>0, <1>9, <2>1 DEF BeginPublishing, ShadowInv, Jobs
  <2>2. CASE job' = Over("stood_down") /\ shadows' = Discarded
    <3>1. shadows' = {}
      BY <1>9, <2>2 DEF BeginPublishing, Discarded, ShadowInv
    <3> QED
      BY <1>0, <1>2, <2>2, <3>1, JobOver
  <2> QED
    BY <1>9, <2>1, <2>2 DEF BeginPublishing
<1>10. CASE Published \/ ReadBack
  <2>1. /\ job.phase \in {"publishing", "confirming", "answering"} /\ left = {} /\ left' = {}
        /\ UNCHANGED <<shadows, held, watch>> /\ job'.phase \in {"answering", "committing"}
    BY <1>0, <1>10 DEF Published, ReadBack, PastInv, Jobs
  <2> QED
    BY <2>1 DEF ShadowInv
<1>11. CASE Commit \/ CommitFails \/ NothingToCommit
  <2>1. Answer \in {"applied", "interrupted", "refused"}
    BY DEF Answer
  <2>2. job.phase \in {"answering", "committing"} /\ shadows' = shadows
    BY <1>11 DEF Commit, CommitFails, NothingToCommit
  <2>3. shadows = {}
    BY <2>2 DEF PastInv, ShadowInv
  <2>4. job'.phase = "idle"
    <3>1. job' = Over(Answer) \/ Faulted(Over(Answer))
      BY <1>11 DEF Commit, CommitFails, NothingToCommit
    <3> QED
      BY <1>0, <2>1, <3>1, JobOver
  <2> QED
    BY <1>2, <2>2, <2>3, <2>4
<1>12. CASE Crash \/ PowerCut
  <2>1. job'.phase = "idle" /\ ~watch'.attached
    BY <1>0, <1>12, JobOver DEF Crash, PowerCut, Lose, Unattached
  <2> QED
    BY <2>1 DEF ShadowInv
<1>13. CASE Settle \/ Suppress \/ Reconcile \/ \E t \in Targets : Expire(t) \/ ForeignWrite(t)
  <2>1. watch'.attached = watch.attached /\ UNCHANGED <<shadows, left, held, job>>
    BY <1>0, <1>13 DEF Settle, Suppress, Reconcile, Expire, ForeignWrite, Reported, Watches
  <2> QED
    BY <1>1, <2>1
<1>14. CASE Attach
  BY <1>2, <1>14 DEF Attach, ShadowInv
<1>15. CASE TearDown \/ \E t \in Targets : Sweep(t)
  <2>1. /\ job'.phase = job.phase /\ shadows' \subseteq shadows
        /\ UNCHANGED <<watch, left, held>>
    BY <1>0, <1>15 DEF TearDown, Sweep, Faulted, Jobs
  <2> QED
    BY <1>1, <2>1
<1> QED
  BY <1>4, <1>5, <1>6, <1>7, <1>8, <1>9, <1>10, <1>11, <1>12, <1>13, <1>14, <1>15 DEF Next

----------------------------------------------------------------------------
(* The report                                                              *)

\* A step that leaves the results and the turn alone keeps what is told.
LEMMA ReportStays ==
  ASSUME ReportInv, left' = left, report'.results = report.results,
         report'.withheld = report.withheld,
         \/ job'.phase = job.phase
         \/ /\ job.phase \in {"answering", "committing", "idle"}
            /\ job'.phase \in {"answering", "committing", "idle"}
  PROVE  ReportInv'
BY DEF ReportInv, SourcesSpent, Spends

\* A target is told of as publication comes past it.
LEMMA ReportGrows ==
  ASSUME TypeOK, ReportInv, NEW t \in Targets, NEW x \in {"wrote", "found"},
         job.phase \in {"publishing", "confirming"}, job'.phase \in {job.phase, "confirming"},
         x = "wrote" => job.phase = "publishing" /\ t \in Ready,
         left' = left \ {t}, report'.results = [report.results EXCEPT ![t] = x]
  PROVE  ReportInv'
<1>0. report.results \in [Targets -> {"none", "wrote", "found"}] /\ left \in SUBSET Targets
  BY DEF TypeOK, Reports
<1>1. report'.results[t] = x /\ \A u \in Targets \ {t} : report'.results[u] = report.results[u]
  BY <1>0
<1>2. \A u \in left' : report'.results[u] = "none"
  BY <1>0, <1>1 DEF ReportInv
<1>3. job'.phase = "publishing" => \A u \in Targets \ left' : report'.results[u] # "none"
  BY <1>1 DEF ReportInv
<1>4. ASSUME NEW d \in Draws, report'.results[d[2]] = "wrote"
      PROVE  report'.results[d[1]] # "none"
  <2>0. d[1] \in Targets /\ d[2] \in Targets /\ d[1] # d[2]
    BY PlanAssumption
  <2>1. CASE d[2] = t
    <3>1. job.phase = "publishing" /\ d[1] \notin left
      BY <1>1, <1>4, <2>0, <2>1 DEF Ready, Waits
    <3> QED
      BY <1>1, <2>0, <2>1, <3>1 DEF ReportInv
  <2>2. CASE d[2] # t
    <3>1. report.results[d[2]] = "wrote"
      BY <1>1, <1>4, <2>0, <2>2
    <3> QED
      BY <1>1, <2>0, <3>1 DEF ReportInv
  <2> QED
    BY <2>1, <2>2
<1> QED
  BY <1>2, <1>3, <1>4 DEF ReportInv

\* A target passed over once publication has stopped is not told of.
LEMMA ReportStops ==
  ASSUME ReportInv, job.phase \in {"publishing", "confirming"}, job'.phase = "confirming",
         left' \subseteq left, report'.results = report.results
  PROVE  ReportInv'
BY DEF ReportInv

\* Publishing a target keeps what is told.
LEMMA PublishKeepsReport ==
  ASSUME TypeOK, ActInv, ReportInv, NEW t \in Targets, Publish(t)
  PROVE  ReportInv'
<1>0. /\ job \in Jobs /\ act \in Acts /\ report \in Reports /\ t # NoTarget
      /\ report.results \in [Targets -> {"none", "wrote", "found"}]
  BY PlanAssumption DEF TypeOK, Reports
<1>1. act.on = t => job.phase = "publishing" /\ t \in Ready
  BY <1>0 DEF ActInv
<1>2. /\ Result(t, "found").results = [report.results EXCEPT ![t] = "found"]
      /\ Told(t).results = [report.results EXCEPT ![t] = "found"]
         \/ Told(t).results = [report.results EXCEPT ![t] = "wrote"]
      /\ Interrupted(t).results = report.results
      /\ Result(t, "found") \in Reports /\ Told(t) \in Reports /\ Interrupted(t) \in Reports
  <2>1. \A x \in {"wrote", "found"} :
            Result(t, x).results = [report.results EXCEPT ![t] = x] /\ Result(t, x) \in Reports
    BY <1>0 DEF Result, Reports
  <2>2. [Result(t, "wrote") EXCEPT !.published = TRUE].results = [report.results EXCEPT ![t] = "wrote"]
    BY <2>1 DEF Reports
  <2>3. Interrupted(t).results = report.results
    BY <1>0 DEF Interrupted, Reports
  <2> QED
    BY <1>0, <2>1, <2>2, <2>3, ReportTypes DEF Told
<1>3. [job EXCEPT !.clean = FALSE] \in Jobs /\ [job EXCEPT !.clean = FALSE].phase = job.phase
  BY <1>0 DEF Jobs
<1>4. ASSUME NEW j \in Jobs, NEW r \in Reports, Stops(t, j, r)
      PROVE  job'.phase = "confirming" /\ left' = left \ {t} /\ report'.results = r.results
  BY <1>4 DEF Stops, Jobs, Reports, Phases
<1>5. ASSUME NEW j \in Jobs, NEW r \in Reports, Stops(t, j, r), job.phase = "publishing",
             r.results = report.results
      PROVE  ReportInv'
  BY <1>4, <1>5, ReportStops
<1>6. ASSUME NEW j \in Jobs, NEW r \in Reports, Stops(t, j, r), job.phase = "publishing",
             NEW x \in {"wrote", "found"}, x = "wrote" => t \in Ready,
             r.results = [report.results EXCEPT ![t] = x]
      PROVE  ReportInv'
  <2>1. job'.phase = "confirming" /\ left' = left \ {t}
        /\ report'.results = [report.results EXCEPT ![t] = x]
    BY <1>4, <1>6
  <2> QED
    BY <1>6, <2>1, ReportGrows
<1>7. CASE ConfirmLanded(t)
  <2>1. CASE report' = Result(t, "found") /\ left' = left \ {t} /\ UNCHANGED job
    BY <1>2, <1>7, <2>1, ReportGrows DEF ConfirmLanded
  <2>2. CASE Stops(t, [job EXCEPT !.clean = FALSE], Result(t, "found"))
    BY <1>2, <1>3, <1>6, <1>7, <2>2 DEF ConfirmLanded
  <2>3. CASE Stops(t, job, report)
    BY <1>0, <1>5, <1>7, <2>3 DEF ConfirmLanded
  <2> QED
    BY <1>7, <2>1, <2>2, <2>3 DEF ConfirmLanded
<1>8. CASE Judge(t) \/ Act(t) \/ ActFinds(t) \/ Record(t)
  BY <1>8, ReportStays DEF Judge, Act, ActFinds, Record
<1>9. CASE JudgeStops(t) \/ ActStops(t)
  BY <1>0, <1>1, <1>2, <1>3, <1>5, <1>9 DEF JudgeStops, ActStops
<1>10. CASE SyncContent(t)
  BY <1>3, <1>10, ReportStays DEF SyncContent, Faulted
<1>11. CASE JudgeRename(t)
  <2>1. CASE Stops(t, job, Interrupted(t))
    BY <1>0, <1>1, <1>2, <1>5, <1>11, <2>1 DEF JudgeRename
  <2>2. CASE UNCHANGED <<job, left, report>>
    BY <2>2, ReportStays
  <2> QED
    BY <1>11, <2>1, <2>2 DEF JudgeRename
<1>12. CASE Sync(t)
  BY <1>1, <1>2, <1>12, ReportGrows DEF Sync
<1>13. CASE SyncFails(t)
  <2>1. PICK j \in Jobs : Stops(t, j, Told(t))
    BY <1>0, <1>3, <1>13 DEF SyncFails
  <2> QED
    BY <1>1, <1>2, <1>6, <1>13, <2>1 DEF SyncFails
<1>14. CASE ConfirmRemaining(t)
  <2>1. job.phase = "confirming" /\ job'.phase = "confirming"
    BY <1>0, <1>14, RemainingJob DEF TypeOK
  <2> QED
    BY <1>2, <1>14, <2>1, ReportGrows, ReportStops DEF ConfirmRemaining
<1> QED
  BY <1>7, <1>8, <1>9, <1>10, <1>11, <1>12, <1>13, <1>14 DEF Publish

\* What is kept of the report names no source that a target still needs.
LEMMA KeptSourcesSpent ==
  ASSUME TypeOK, report' = KeepAvailableSources(report),
         \A d \in Draws : report.results[d[2]] = "wrote" => report.results[d[1]] # "none"
  PROVE  SourcesSpent'
<1> SUFFICES ASSUME NEW d \in Draws, report'.results[d[2]] # "none", Spends(d[2]),
                    d[2] \notin report'.withheld, report'.results[d[1]] = "none"
             PROVE  \E e \in Draws : e[2] = d[1] /\ report'.results[e[1]] = "none"
  BY DEF SourcesSpent, Spends
<1>0. report.results \in [Targets -> {"none", "wrote", "found"}]
      /\ \A e \in Draws : e[1] \in Targets /\ e[2] \in Targets
  BY PlanAssumption DEF TypeOK, Reports
<1>1. /\ report'.withheld = Unavailable \cap Respelled
      /\ \A t \in Targets :
             report'.results[t] =
                 IF t \in Unavailable \ Respelled THEN "none" ELSE report.results[t]
  BY KeptReport DEF TypeOK
<1>2. d[2] \notin Unavailable /\ report.results[d[2]] # "none"
  BY <1>0, <1>1
<1>3. report.results[d[1]] # "none"
  BY <1>0, <1>2 DEF Unavailable
<1>4. d[1] \in Unavailable
  BY <1>0, <1>1, <1>3
<1>5. PICK e \in Draws : e[2] = d[1] /\ report.results[e[1]] = "none"
  BY <1>4 DEF Unavailable
<1> QED
  BY <1>0, <1>1, <1>5

\* Every step keeps what is told.
LEMMA ReportStep ==
  ASSUME TypeOK, ActInv, ReportInv, [Next]_vars
  PROVE  ReportInv'
<1>0. job \in Jobs /\ report \in Reports
  BY DEF TypeOK
<1>1. CASE UNCHANGED vars
  BY <1>1, ReportStays DEF vars
<1>2. \A t \in Targets : NoReport.results[t] = "none"
  BY DEF NoReport
<1>3. ASSUME \A t \in Targets : report'.results[t] = "none", job'.phase \in {"idle", "staging"}
      PROVE  ReportInv'
  BY <1>3, PlanAssumption DEF ReportInv, SourcesSpent
<1>4. CASE Begin
  BY <1>2, <1>3, <1>4 DEF Begin
<1>5. ASSUME NEW t \in Targets, Stage(t) PROVE ReportInv'
  BY <1>3, <1>5 DEF Stage, ReportInv
<1>6. ASSUME NEW t \in Targets, StageStops(t) PROVE ReportInv'
  <2>1. job'.phase = "idle"
    BY <1>0, <1>6, JobOver DEF StageStops
  <2> QED
    BY <1>3, <1>6, <2>1 DEF StageStops, ReportInv
<1>7. CASE BeginPublishing
  <2>0. UNCHANGED report /\ \A t \in Targets : report.results[t] = "none"
    BY <1>7 DEF BeginPublishing, ReportInv
  <2>1. CASE job' = Over("stood_down")
    BY <1>0, <1>3, <2>0, <2>1, JobOver
  <2>2. CASE job' = [job EXCEPT !.phase = "publishing"] /\ left' = Targets
    BY <1>0, <2>0, <2>2, PlanAssumption DEF ReportInv, Jobs
  <2> QED
    BY <1>7, <2>1, <2>2 DEF BeginPublishing
<1>8. CASE Published
  <2>0. job'.phase = "answering" /\ left = {}
    BY <1>0, <1>8 DEF Published, Jobs
  <2>1. CASE job.phase = "publishing" /\ UNCHANGED report
    BY <1>0, <2>0, <2>1, PlanAssumption DEF ReportInv, SourcesSpent
  <2>2. CASE job.phase = "confirming"
             /\ report' = KeepAvailableSources(report)
    <3>1. SourcesSpent'
      BY <2>2, KeptSourcesSpent DEF ReportInv
    <3> QED
      BY <2>0, <3>1 DEF ReportInv
  <2> QED
    BY <1>8, <2>1, <2>2 DEF Published
<1>9. CASE ReadBack
  BY <1>0, <1>9, ReportStays DEF ReadBack, Jobs
<1>10. CASE Commit \/ CommitFails \/ NothingToCommit
  <2>1. Answer \in {"applied", "interrupted", "refused"}
    BY DEF Answer
  <2>2. job' = Over(Answer) \/ Faulted(Over(Answer))
    BY <1>10 DEF Commit, CommitFails, NothingToCommit
  <2>3. /\ job.phase \in {"answering", "committing"} /\ job'.phase = "idle"
        /\ UNCHANGED <<left, report>>
    BY <1>0, <1>10, <2>1, <2>2, JobOver DEF Commit, CommitFails, NothingToCommit
  <2> QED
    BY <2>3, ReportStays
<1>11. CASE Crash \/ PowerCut
  BY <1>0, <1>2, <1>3, <1>11, JobOver DEF Crash, PowerCut, Lose
<1>12. CASE \/ Settle \/ Suppress \/ Reconcile \/ Attach
            \/ \E t \in Targets : Expire(t) \/ ForeignWrite(t)
  BY <1>12, ReportStays DEF Settle, Suppress, Reconcile, Attach, Expire, ForeignWrite
<1>13. CASE TearDown \/ \E t \in Targets : Sweep(t)
  <2>1. job'.phase = job.phase /\ UNCHANGED <<left, report>>
    BY <1>0, <1>13 DEF TearDown, Sweep, Faulted, Jobs
  <2> QED
    BY <2>1, ReportStays
<1> QED
  BY <1>1, <1>4, <1>5, <1>6, <1>7, <1>8, <1>9, <1>10, <1>11, <1>12, <1>13,
     PublishKeepsReport DEF Next

----------------------------------------------------------------------------
(* Publication and its contract                                            *)

bytes == [t \in Targets |-> vault[t].bytes]
keeps == [t \in Targets |-> {f.bytes : f \in survives[t]}]

\* What a change and a sync are to the contract.
LEMMA ContractSteps ==
  ASSUME TypeOK, NEW t \in Targets
  PROVE  /\ \A f \in Files : Change(t, f) => Contract!Change(t, f.bytes)
         /\ Synced(t) /\ UNCHANGED <<vault, foreign>> => Contract!Sync(t)
<1>0. vault \in [Targets -> Files] /\ survives \in [Targets -> SUBSET Files]
  BY DEF TypeOK
<1>1. ASSUME NEW f \in Files, Change(t, f) PROVE Contract!Change(t, f.bytes)
  <2>1. vault' = [vault EXCEPT ![t] = f] /\ survives' = [survives EXCEPT ![t] = @ \cup {f}]
    BY <1>1 DEF Change
  <2>2. bytes' = [bytes EXCEPT ![t] = f.bytes]
    BY <1>0, <2>1 DEF bytes
  <2>3. {g.bytes : g \in survives[t] \cup {f}} = {g.bytes : g \in survives[t]} \cup {f.bytes}
    OBVIOUS
  <2>4. keeps' = [keeps EXCEPT ![t] = @ \cup {f.bytes}]
    BY <1>0, <2>1, <2>3 DEF keeps
  <2> QED
    BY <2>2, <2>4 DEF Contract!Change, bytes, keeps
<1>2. ASSUME Synced(t), UNCHANGED <<vault, foreign>> PROVE Contract!Sync(t)
  <2>1. survives' = [survives EXCEPT ![t] = {vault[t]}]
    BY <1>2 DEF Synced
  <2>2. keeps' = [keeps EXCEPT ![t] = {bytes[t]}] /\ bytes' = bytes
    BY <1>0, <1>2, <2>1 DEF keeps, bytes
  <2> QED
    BY <1>2, <2>2 DEF Contract!Sync, bytes, keeps
<1> QED
  BY <1>1, <1>2

\* An act takes its target to its after-state when its turn has come, or touches
\* what another writer has.
LEMMA ActImplements ==
  ASSUME TypeOK, Listed, ActInv, PastInv, NEW t \in Targets, Act(t)
  PROVE  Contract!Next
<1>0. /\ vault \in [Targets -> Files] /\ survives \in [Targets -> SUBSET Files] /\ job \in Jobs
      /\ act.on = t /\ act.step = "act" /\ t # NoTarget /\ foreign' = foreign
      /\ Change(t, Written(t))
  BY PlanAssumption DEF TypeOK, Act
<1>4. Written(t) \in Files
  <2>1. vault \in [Targets -> Files] /\ job \in Jobs
    BY <1>0
  <2> QED
    BY <2>1, FileTypes
<1>1. PICK f \in Files : f = Written(t) /\ Contract!Change(t, f.bytes) /\ f.bytes \in Bytes
  <2>1. PICK f \in Files : f = Written(t)
    BY <1>4
  <2>2. Change(t, f)
    BY <1>0, <2>1
  <2>3. Contract!Change(t, f.bytes) /\ f.bytes \in Bytes
    BY <2>2, ContractSteps DEF Files
  <2> QED
    BY <2>1, <2>3
<1>2. CASE t \in foreign
  <2>2. foreign' = foreign \cup {t}
    BY <1>0, <1>2
  <2>1. Contract!Foreign(t)
    BY <1>1, <2>2 DEF Contract!Foreign
  <2> QED
    BY <2>1 DEF Contract!Next
<1>3. CASE t \notin foreign
  <2>1. act.respelling => vault[t].bytes = After[t]
    BY <1>0, <1>3 DEF ActInv
  <2>2. Written(t).bytes = After[t]
    BY <1>0, <2>1 DEF Written, Removed, Files
  <2>3. \A d \in Draws : d[2] = t => Contract!Safe(d[1])
    <3> SUFFICES ASSUME NEW d \in Draws, d[2] = t PROVE Contract!Safe(d[1])
      OBVIOUS
    <3>1. d[1] \in Targets /\ d[1] \notin left
      BY <1>0, PlanAssumption DEF ActInv, Ready, Waits
    <3>2. d[1] \in foreign \/ Done(d[1])
      BY <1>0, <3>1 DEF ActInv, PastInv
    <3>3. ASSUME Done(d[1]) PROVE keeps[d[1]] = {After[d[1]]}
      <4>1. keeps[d[1]] = {g.bytes : g \in survives[d[1]]} /\ vault[d[1]] \in survives[d[1]]
        BY <3>1 DEF keeps, Listed
      <4>2. \A g \in survives[d[1]] : g.bytes = After[d[1]]
        BY <3>3 DEF Done
      <4> QED
        BY <4>1, <4>2
    <3> QED
      BY <3>1, <3>2, <3>3 DEF Contract!Safe, keeps
  <2>4. Contract!Land(t)
    BY <1>0, <1>1, <2>2, <2>3 DEF Contract!Land
  <2> QED
    BY <2>4 DEF Contract!Next
<1> QED
  BY <1>2, <1>3

\* Every step is one of the contract, or leaves what it speaks of alone.
LEMMA StepImplements ==
  ASSUME TypeOK, Listed, ActInv, PastInv, [Next]_vars
  PROVE  [Contract!Next]_(Contract!vars)
<1>0. vault \in [Targets -> Files] /\ survives \in [Targets -> SUBSET Files]
  BY DEF TypeOK
<1>1. CASE UNCHANGED <<vault, survives, foreign>>
  BY <1>1 DEF Contract!vars
<1>2. ASSUME NEW t \in Targets, Synced(t), UNCHANGED <<vault, foreign>> PROVE Contract!Next
  BY <1>2, ContractSteps DEF Contract!Next
<1>3. ASSUME NEW t \in Targets, ForeignWrite(t) PROVE Contract!Next
  <2>1. PICK f \in Files : Change(t, f)
    <3>1. /\ budget.writes \in 0..Writes /\ budget.writes < Writes
          /\ budget' = [budget EXCEPT !.writes = @ + 1] /\ budget \in Budgets
          /\ job \in Jobs
      BY <1>3 DEF ForeignWrite, TypeOK, Budgets
    <3>2. Attempts + budget'.writes \in Stamps
      BY <3>1, PlanAssumption DEF Budgets, Stamps
    <3>3. \A b \in {Before[t], After[t], Other} \ {Nothing} :
              [vault[t] EXCEPT !.bytes = b, !.stamp = Attempts + budget'.writes] \in Files
      BY <1>0, <3>1, <3>2, FileTypes, PlanAssumption DEF Bytes
    <3>4. Removed(t) \in Files
      BY <1>0, <3>1, FileTypes
    <3> QED
      BY <1>3, <3>3, <3>4 DEF ForeignWrite
  <2>2. f.bytes \in Bytes
    BY DEF Files
  <2>3. Contract!Foreign(t)
    BY <1>3, <2>1, <2>2, ContractSteps DEF ForeignWrite, Contract!Foreign
  <2> QED
    BY <2>3 DEF Contract!Next
<1>4. CASE PowerCut
  <2>1. vault' \in [Targets -> Files] /\ \A t \in Targets : vault'[t] \in survives[t]
    <3>1. UNION {survives[t] : t \in Targets} \subseteq Files
      BY <1>0
    <3> QED
      BY <1>4, <3>1 DEF PowerCut
  <2>2. bytes' \in [Targets -> Bytes] /\ \A t \in Targets : bytes'[t] \in keeps[t]
    BY <2>1 DEF bytes, keeps, Files
  <2>3. keeps' = [t \in Targets |-> {bytes'[t]}]
    BY <1>4 DEF PowerCut, keeps, bytes
  <2>4. Contract!PowerCut
    BY <1>4, <2>2, <2>3 DEF PowerCut, Contract!PowerCut, bytes, keeps
  <2> QED
    BY <2>4 DEF Contract!Next
<1> QED
  BY <1>1, <1>2, <1>3, <1>4, ActImplements, DiskSteps

\* A step of the contract keeps what it promises of the content a plan moves.
LEMMA ContractKeeps ==
  ASSUME \A t \in Targets : bytes[t] \in keeps[t], Contract!Survives,
         [Contract!Next]_(Contract!vars)
  PROVE  Contract!Survives'
<1> SUFFICES ASSUME NEW d \in Draws
             PROVE  \/ d[1] \in foreign' \/ d[2] \in foreign'
                    \/ keeps'[d[2]] = {Before[d[2]]} \/ keeps'[d[1]] = {After[d[1]]}
  BY DEF Contract!Survives, keeps
<1>0. /\ d[1] \in Targets /\ d[2] \in Targets /\ d[1] # d[2]
      /\ \/ d[1] \in foreign \/ d[2] \in foreign
         \/ keeps[d[2]] = {Before[d[2]]} \/ keeps[d[1]] = {After[d[1]]}
  BY PlanAssumption DEF Contract!Survives, keeps
<1>1. CASE UNCHANGED Contract!vars
  BY <1>0, <1>1 DEF Contract!vars, keeps
<1>2. ASSUME NEW t \in Targets, Contract!Land(t)
      PROVE  \/ d[1] \in foreign' \/ d[2] \in foreign'
             \/ keeps'[d[2]] = {Before[d[2]]} \/ keeps'[d[1]] = {After[d[1]]}
  <2>1. keeps' = [keeps EXCEPT ![t] = @ \cup {After[t]}] /\ foreign' = foreign
        /\ \A e \in Draws : e[2] = t => e[1] \in foreign \/ keeps[e[1]] = {After[e[1]]}
    BY <1>2 DEF Contract!Land, Contract!Change, Contract!Safe, keeps
  <2>2. keeps \in [Targets -> SUBSET {f.bytes : f \in UNION {survives[u] : u \in Targets}}]
    BY DEF keeps
  <2> QED
    BY <1>0, <2>1, <2>2
<1>3. ASSUME NEW t \in Targets, Contract!Foreign(t)
      PROVE  \/ d[1] \in foreign' \/ d[2] \in foreign'
             \/ keeps'[d[2]] = {Before[d[2]]} \/ keeps'[d[1]] = {After[d[1]]}
  <2>1. /\ foreign' = foreign \cup {t}
        /\ \A u \in Targets \ {t} : keeps'[u] = keeps[u]
    BY <1>3 DEF Contract!Foreign, Contract!Change, keeps
  <2> QED
    BY <1>0, <2>1
<1>4. ASSUME NEW t \in Targets, Contract!Sync(t)
      PROVE  \/ d[1] \in foreign' \/ d[2] \in foreign'
             \/ keeps'[d[2]] = {Before[d[2]]} \/ keeps'[d[1]] = {After[d[1]]}
  <2>1. /\ foreign' = foreign /\ keeps'[t] = {bytes[t]}
        /\ \A u \in Targets \ {t} : keeps'[u] = keeps[u]
    BY <1>4 DEF Contract!Sync, keeps, bytes
  <2> QED
    BY <1>0, <2>1
<1>5. CASE Contract!PowerCut
  <2>1. /\ foreign' = foreign
        /\ \A u \in Targets : keeps'[u] = {bytes'[u]} /\ bytes'[u] \in keeps[u]
    BY <1>5 DEF Contract!PowerCut, keeps, bytes
  <2> QED
    BY <1>0, <2>1
<1> QED
  BY <1>1, <1>2, <1>3, <1>4, <1>5 DEF Contract!Next

----------------------------------------------------------------------------
(* The theorems                                                            *)

\* The initial states have the invariant, and what the contract promises of them.
LEMMA InitInv == Init => Inv /\ ContentSurvives /\ Contract!Init
<1> SUFFICES ASSUME Init PROVE Inv /\ ContentSurvives /\ Contract!Init
  OBVIOUS
<1>1. TypeOK
  BY InitTypes
<1>2. /\ \A t \in Targets : vault[t] = Initially(t) /\ survives[t] = {Initially(t)}
      /\ \A t \in Targets : Initially(t).bytes = Before[t]
  BY DEF Init, Initially
<1>3. Listed /\ ActInv /\ PastInv /\ ShadowInv
  BY <1>2, PlanAssumption DEF Init, Listed, ActInv, PastInv, ShadowInv, NoAct
<1>4. ContentSurvives
  BY <1>2, PlanAssumption DEF ContentSurvives
<1>6. ReportInv
  BY PlanAssumption DEF Init, ReportInv, SourcesSpent, NoReport
<1>5. bytes = Before /\ keeps = [t \in Targets |-> {Before[t]}] /\ foreign = {}
  BY <1>2, PlanAssumption DEF bytes, keeps, Init
<1> QED
  BY <1>1, <1>3, <1>4, <1>5, <1>6 DEF Inv, Contract!Init, bytes, keeps

\* Every step keeps the inductive invariant.
LEMMA StepInv == Inv /\ [Next]_vars => Inv'
BY StepTypes, ListedStep, ActStep, PastStep, ShadowStep, ReportStep DEF Inv

\* The inductive invariant holds of every run of the applier.
THEOREM InvHolds == Spec => []Inv
BY InitInv, StepInv, PTL DEF Spec

\* For any plan and any bounds, every variable of the applier has its type.
THEOREM ApplierTyped == Spec => []TypeOK
BY InvHolds, PTL DEF Inv

\* For any plan, any writers and any faults, publication implements its contract:
\* no target is written before every target that draws on it is on the disk.
THEOREM PublicationImplements == Spec => ImplementsContract
<1>1. Inv /\ [Next]_vars => [Contract!Next]_(Contract!vars)
  BY StepImplements DEF Inv
<1> QED
  BY <1>1, InitInv, InvHolds, PTL DEF Spec, ImplementsContract, Contract!Spec

\* A document a plan moves survives a power cut at any moment of publication.
THEOREM MovedContentSurvives == Spec => []ContentSurvives
<1>1. Inv => (ContentSurvives <=> Contract!Survives)
  <2> SUFFICES ASSUME Inv, NEW d \in Draws
               PROVE  /\ (\A f \in survives[d[2]] : f.bytes = Before[d[2]])
                             <=> keeps[d[2]] = {Before[d[2]]}
                      /\ (\A f \in survives[d[1]] : f.bytes = After[d[1]])
                             <=> keeps[d[1]] = {After[d[1]]}
    BY DEF ContentSurvives, Contract!Survives, keeps
  <2>1. d[1] \in Targets /\ d[2] \in Targets
        /\ survives[d[1]] # {} /\ survives[d[2]] # {}
    BY PlanAssumption DEF Inv, Listed
  <2> QED
    BY <2>1 DEF keeps
<1>2. Inv => \A t \in Targets : bytes[t] \in keeps[t]
  BY DEF Inv, Listed, bytes, keeps
<1>3. Inv /\ Inv' /\ ContentSurvives /\ [Next]_vars => ContentSurvives'
  <2> SUFFICES ASSUME Inv, Inv', ContentSurvives, [Next]_vars PROVE ContentSurvives'
    OBVIOUS
  <2>1. Contract!Survives
    BY <1>1
  <2>2. Contract!Survives'
    BY <1>2, <2>1, StepImplements, ContractKeeps DEF Inv
  <2>3. Inv' => (ContentSurvives' <=> Contract!Survives')
    BY <1>1, PTL
  <2> QED
    BY <2>2, <2>3
<1> QED
  BY <1>3, InitInv, InvHolds, PTL DEF Spec

\* A plan answered as applied stays applied through any power cut.
THEOREM AppliedStays == Spec => []AppliedIsDurable
<1>1. Inv => AppliedIsDurable
  BY DEF Inv, PastInv, AppliedIsDurable, Done
<1> QED
  BY <1>1, InvHolds, PTL

\* For any plan, chains of moves included, no answer names a source as landed while
\* a target that draws on it is not, nor taken over by one left out in its turn.
THEOREM SourcesReportedSpent == Spec => []ReportedSourcesSpent
<1>1. Inv => ReportedSourcesSpent
  BY DEF Inv, ReportInv, SourcesSpent, ReportedSourcesSpent
<1> QED
  BY <1>1, InvHolds, PTL

\* However a job ends, no shadow outlives it under a coverage.
THEOREM ShadowsAreAccounted == Spec => []ShadowsAccounted
<1>1. Inv => ShadowsAccounted
  BY DEF Inv, ShadowInv, ShadowsAccounted
<1> QED
  BY <1>1, InvHolds, PTL

----------------------------------------------------------------------------
(* Sending the plan again                                                  *)

\* A file the plan leaves at t, at one of its states or cut short between them.
Planned(t, f) ==
    \/ f.bytes = After[t] /\ (t \in Respelled => f.at = "new")
    \/ f.bytes \in {Before[t], After[t]} /\ (t \in Respelled => f.at = "old")

\* A source is as the plan found it, where it is drawn from, until what draws on it is on the disk.
Drawn ==
    \A d \in Draws :
        \/ Done(d[1])
        \/ \A f \in survives[d[2]] :
               f.bytes = Before[d[2]] /\ (d[2] \in Respelled => f.at = "old")

\* An act is still to be done when it comes, and only a respell whose content
\* changes is judged a second time.
ActFits ==
    \A t \in Targets : act.on = t =>
        /\ act.step = "act" =>
               /\ ~Landed(t)
               /\ act.respelling => t \in Respelled
               /\ ~act.respelling => AtBefore(t)
        /\ (t \in Respelled /\ ~act.respelling /\ ~act.found) \/ act.step = "judge"
               => t \in Respelled /\ Before[t] # After[t]
        /\ act.step = "judge" => act.respelling

\* Staging found each target as it stands, and holds the shadow of what is to be
\* written.
HeldFits ==
    \A t \in Targets :
        /\ held[t] = "landed" => Landed(t)
        /\ held[t] = "staged" /\ AtBefore(t) /\ Shadowed(t) => t \in shadows

\* An attempt no fault has met stands and has stopped at nothing.
CleanInv ==
    /\ job.leg /\ job.phase # "confirming" /\ ~report.stopped
    /\ act.on # NoTarget => act.first # "unsynced" /\ held[act.on] = "staged"
    /\ job.phase = "staging" => \A t \in Targets \ left : held[t] # "none"
    /\ job.phase = "publishing" => \A t \in Targets : held[t] # "none"
    /\ job.phase \in {"staging", "publishing"} => HeldFits

ResendInv ==
    /\ job.phase # "idle" => job.answer = "none"
    /\ foreign = {} =>
           /\ \A t \in Targets : \A f \in survives[t] : Planned(t, f)
           /\ Drawn /\ ActFits
           /\ job.clean /\ job.phase # "idle" => CleanInv
           /\ job.clean /\ job.phase = "idle" => job.answer \in {"none", "applied"}

\* What stands at a target is a state of the plan, or one cut short.
LEMMA PlannedStands ==
  ASSUME NEW t \in Targets, Planned(t, vault[t])
  PROVE  Landed(t) \/ Halfway(t) \/ AtBefore(t)
BY DEF Planned, Landed, Halfway, AtBefore

\* A power cut and a sync take states away, and every other step but an act
\* leaves them: what holds of each holds on.
LEMMA FewerStay ==
  ASSUME Drawn, \A t \in Targets : \A f \in survives[t] : Planned(t, f),
         \A t \in Targets : survives'[t] \subseteq survives[t]
  PROVE  Drawn' /\ \A t \in Targets : \A f \in survives'[t] : Planned(t, f)
BY PlanAssumption DEF Drawn, Done

\* An act leaves its target at a state of the plan, after what draws on it.
LEMMA ActPlanned ==
  ASSUME Inv, foreign = {}, Drawn, ActFits, NEW t \in Targets, Act(t),
         \A u \in Targets : \A f \in survives[u] : Planned(u, f)
  PROVE  Drawn' /\ \A u \in Targets : \A f \in survives'[u] : Planned(u, f)
<1>0. /\ vault \in [Targets -> Files] /\ survives \in [Targets -> SUBSET Files]
      /\ job \in Jobs /\ act \in Acts /\ vault[t] \in survives[t] /\ t # NoTarget
  BY PlanAssumption DEF Inv, TypeOK, Listed
<1>1. /\ act.on = t /\ act.step = "act" /\ ~Landed(t)
      /\ survives'[t] = survives[t] \cup {Written(t)}
      /\ \A u \in Targets \ {t} : survives'[u] = survives[u]
  BY <1>0 DEF Act, Change, ActFits
<1>2. Planned(t, Written(t))
  <2>1. CASE After[t] = Nothing
    <3>1. t \notin Respelled /\ Written(t).bytes = Nothing
      BY <1>0, <2>1, PlanAssumption DEF Written, Removed, Files
    <3> QED
      BY <2>1, <3>1 DEF Planned
  <2>2. CASE After[t] # Nothing /\ act.respelling
    <3>1. vault[t].bytes = After[t] /\ t \in Respelled
      BY <1>0, <1>1, <2>2 DEF ActFits, Inv, ActInv
    <3>2. Written(t).bytes = After[t] /\ Written(t).at = "new"
      BY <1>0, <2>2, <3>1 DEF Written, Files
    <3> QED
      BY <3>2 DEF Planned
  <2>3. CASE After[t] # Nothing /\ ~act.respelling
    <3>1. Written(t).bytes = After[t] /\ (t \in Respelled => Written(t).at = "old")
      BY <2>3 DEF Written
    <3> QED
      BY <3>1 DEF Planned
  <2> QED
    BY <2>1, <2>2, <2>3
<1>3. ASSUME NEW u \in Targets, NEW f \in survives'[u] PROVE Planned(u, f)
  BY <1>1, <1>2, <1>3
<1>4. ASSUME NEW d \in Draws
      PROVE  \/ Done(d[1])'
             \/ \A f \in survives'[d[2]] :
                    f.bytes = Before[d[2]] /\ (d[2] \in Respelled => f.at = "old")
  <2>0. d[1] \in Targets /\ d[2] \in Targets /\ d[1] # d[2]
    BY PlanAssumption
  <2>1. CASE d[2] = t
    <3>1. job.phase = "publishing" /\ t \in left /\ d[1] \notin left
      BY <1>0, <1>1, <2>0, <2>1 DEF Inv, ActInv, Ready, Waits
    <3>2. Done(d[1])
      BY <2>0, <3>1 DEF Inv, PastInv
    <3> QED
      BY <1>1, <2>0, <2>1, <3>2 DEF Done
  <2>2. CASE d[1] = t
    <3>1. ~Done(t)
      BY <1>0, <1>1 DEF Done, Landed
    <3> QED
      BY <1>1, <2>0, <2>2, <3>1 DEF Drawn
  <2>3. CASE d[1] # t /\ d[2] # t
    BY <1>1, <2>0, <2>3 DEF Drawn, Done
  <2> QED
    BY <2>1, <2>2, <2>3
<1> QED
  BY <1>3, <1>4 DEF Drawn

\* Every step leaves the files at states of the plan, and sources in their order.
LEMMA PlannedStep ==
  ASSUME Inv, ResendInv, [Next]_vars, foreign' = {}
  PROVE  Drawn' /\ \A t \in Targets : \A f \in survives'[t] : Planned(t, f)
<1>0. /\ vault \in [Targets -> Files] /\ survives \in [Targets -> SUBSET Files]
      /\ \A t \in Targets : vault[t] \in survives[t]
  BY DEF Inv, TypeOK, Listed
<1>1. CASE UNCHANGED <<vault, survives, foreign>>
  BY <1>1, FewerStay DEF ResendInv
<1>2. ASSUME NEW t \in Targets, Synced(t), UNCHANGED <<vault, foreign>>
      PROVE  Drawn' /\ \A u \in Targets : \A f \in survives'[u] : Planned(u, f)
  <2>1. \A u \in Targets : survives'[u] \subseteq survives[u]
    BY <1>0, <1>2 DEF Synced
  <2> QED
    BY <1>2, <2>1, FewerStay DEF ResendInv
<1>3. ASSUME NEW t \in Targets, Act(t)
      PROVE  Drawn' /\ \A u \in Targets : \A f \in survives'[u] : Planned(u, f)
  <2>1. foreign = {}
    BY <1>3 DEF Act
  <2> QED
    BY <1>3, <2>1, ActPlanned DEF ResendInv
<1>4. ASSUME NEW t \in Targets, ForeignWrite(t) PROVE FALSE
  BY <1>4 DEF ForeignWrite
<1>5. CASE PowerCut
  <2>1. foreign = {} /\ \A t \in Targets : survives'[t] \subseteq survives[t]
    BY <1>5 DEF PowerCut
  <2> QED
    BY <2>1, FewerStay DEF ResendInv
<1> QED
  BY <1>1, <1>2, <1>3, <1>4, <1>5, DiskSteps

\* Publishing a target leaves an act that fits.
LEMMA PublishActFits ==
  ASSUME Inv, ResendInv, foreign = {}, NEW t \in Targets, Publish(t)
  PROVE  ActFits'
<1>0. /\ vault \in [Targets -> Files] /\ job \in Jobs /\ act \in Acts /\ t # NoTarget
      /\ ActInv /\ ActFits
  BY PlanAssumption DEF Inv, TypeOK, ResendInv
<1>1. NoAct.on = NoTarget
  BY DEF NoAct
<1>2. act'.on = NoTarget => ActFits'
  BY PlanAssumption DEF ActFits
<1>3. CASE ConfirmLanded(t) \/ JudgeStops(t) \/ ActStops(t) \/ Sync(t) \/ SyncFails(t)
  <2>1. UNCHANGED <<act, vault>> \/ act' = NoAct
    BY <1>0, <1>3, Zenon DEF ConfirmLanded, JudgeStops, ActStops, Sync, SyncFails, Stops
  <2> QED
    BY <1>0, <1>1, <1>2, <2>1 DEF ActFits, Landed, AtBefore
<1>4. CASE ConfirmRemaining(t)
  BY <1>0, <1>4 DEF ConfirmRemaining, ActFits, Landed, AtBefore
<1>5. CASE Judge(t)
  <2>1. CASE act' = [NoAct EXCEPT !.on = t, !.step = "sync", !.found = TRUE]
    <3>1. act'.on = t /\ act'.step = "sync" /\ act'.found
      BY <2>1 DEF NoAct
    <3> QED
      BY <3>1 DEF ActFits
  <2>2. CASE /\ AtBefore(t)
             /\ act' = [NoAct EXCEPT !.on = t, !.step = "act", !.stamp = vault[t].stamp,
                            !.respelling = t \in Respelled /\ Before[t] = After[t]]
    <3>1. /\ act'.on = t /\ act'.step = "act" /\ ~act'.found
          /\ act'.respelling = (t \in Respelled /\ Before[t] = After[t])
      BY <2>2 DEF NoAct
    <3>2. ~Landed(t) /\ vault' = vault
      BY <1>5, <2>2 DEF AtBefore, Judge
    <3> QED
      BY <2>2, <3>1, <3>2 DEF ActFits, Landed, AtBefore
  <2>3. CASE /\ Halfway(t)
             /\ act' = [NoAct EXCEPT !.on = t, !.step = "act", !.stamp = vault[t].stamp,
                            !.respelling = TRUE]
    <3>1. act'.on = t /\ act'.step = "act" /\ act'.respelling
      BY <2>3 DEF NoAct
    <3>2. ~Landed(t) /\ t \in Respelled /\ vault' = vault
      BY <1>5, <2>3 DEF Halfway, Landed, Judge
    <3> QED
      BY <3>1, <3>2 DEF ActFits, Landed, AtBefore
  <2> QED
    BY <1>5, <2>1, <2>2, <2>3 DEF Judge
<1>6. CASE Act(t) \/ Record(t)
  <2>1. act.on = t /\ act' \in {[act EXCEPT !.step = "record"], [act EXCEPT !.step = "sync"]}
    BY <1>6 DEF Act, Record
  <2>2. /\ act'.on = t /\ act'.respelling = act.respelling /\ act'.found = act.found
        /\ act'.step \in {"record", "sync"}
    BY <1>0, <2>1 DEF Acts
  <2> QED
    BY <1>0, <2>1, <2>2 DEF ActFits
<1>7. CASE ActFinds(t)
  <2>1. act'.on = t /\ act'.found /\ act'.step = "sync"
    BY <1>0, <1>7 DEF ActFinds, Acts
  <2> QED
    BY <2>1 DEF ActFits
<1>8. CASE SyncContent(t)
  <2>1. act'.on = t /\ act'.respelling /\ act'.step = "judge"
    BY <1>0, <1>8 DEF SyncContent, Acts
  <2>2. t \in Respelled /\ Before[t] # After[t]
    BY <1>0, <1>8 DEF SyncContent, ContentStep, ActFits
  <2> QED
    BY <2>1, <2>2 DEF ActFits
<1>9. CASE JudgeRename(t)
  <2>1. act.on = t /\ t \in Respelled /\ Before[t] # After[t] /\ vault' = vault
    BY <1>0, <1>9 DEF JudgeRename, ActFits
  <2>2. CASE act' = [act EXCEPT !.step = "sync", !.found = TRUE]
    BY <1>0, <2>1, <2>2 DEF ActFits, Acts
  <2>3. CASE act' = [act EXCEPT !.step = "act", !.stamp = vault[t].stamp] /\ Halfway(t)
    <3>1. /\ act'.on = t /\ act'.step = "act" /\ act'.respelling = act.respelling
          /\ act'.found = act.found
      BY <1>0, <2>1, <2>3 DEF Acts
    <3>2. act.respelling
      BY <1>0, <1>9 DEF JudgeRename, ActFits
    <3> QED
      BY <2>1, <2>3, <3>1, <3>2 DEF ActFits, Landed, Halfway
  <2>4. CASE act' = NoAct
    BY <1>1, <1>2, <2>4
  <2> QED
    BY <1>9, <2>2, <2>3, <2>4 DEF JudgeRename, Stops
<1> QED
  BY <1>3, <1>4, <1>5, <1>6, <1>7, <1>8, <1>9 DEF Publish

\* Every step leaves an act that fits.
LEMMA ActFitsStep ==
  ASSUME Inv, ResendInv, [Next]_vars, foreign' = {}
  PROVE  ActFits'
<1>0. /\ foreign \subseteq foreign' => foreign = {}
      /\ foreign = {} => ActFits
  BY DEF ResendInv
<1>1. UNCHANGED <<act, vault>> /\ foreign = {} => ActFits'
  BY <1>0 DEF ActFits, Landed, AtBefore
<1>2. CASE UNCHANGED vars
  BY <1>1, <1>2 DEF vars
<1>3. ASSUME NEW t \in Targets, Publish(t) PROVE ActFits'
  <2>1. foreign = {}
    BY <1>0, <1>3 DEF Publish, ConfirmLanded, Judge, JudgeStops, Act, ActFinds, ActStops,
       Record, SyncContent, JudgeRename, Sync, SyncFails, ConfirmRemaining
  <2> QED
    BY <1>3, <2>1, PublishActFits
<1>4. CASE Begin \/ BeginPublishing \/ Published \/ ReadBack \/ Commit \/ CommitFails
           \/ NothingToCommit
  BY <1>1, <1>4 DEF Begin, BeginPublishing, Published, ReadBack, Commit, CommitFails,
     NothingToCommit
<1>5. CASE Settle \/ Suppress \/ Reconcile \/ Attach \/ TearDown
           \/ \E t \in Targets : Stage(t) \/ StageStops(t) \/ Expire(t) \/ Sweep(t)
  BY <1>1, <1>5 DEF Settle, Suppress, Reconcile, Attach, TearDown, Stage, StageStops, Expire,
     Sweep
<1>6. CASE Crash \/ PowerCut
  BY <1>6, PlanAssumption DEF Crash, PowerCut, Lose, ActFits, NoAct
<1>7. ASSUME NEW t \in Targets, ForeignWrite(t) PROVE ActFits'
  BY <1>7 DEF ForeignWrite
<1> QED
  BY <1>2, <1>3, <1>4, <1>5, <1>6, <1>7 DEF Next

----------------------------------------------------------------------------
(* An attempt no fault has met                                             *)

\* What stands at each target no other writer has touched, and that what a target
\* still to be written draws on is there.
LEMMA TargetsStand ==
  ASSUME Inv, ResendInv, foreign = {}, NEW t \in Targets
  PROVE  /\ Landed(t) \/ Halfway(t) \/ AtBefore(t)
         /\ AtBefore(t) => SourcesStand(t)
<1>1. \A u \in Targets : vault[u] \in survives[u]
  BY DEF Inv, Listed
<1>2. Landed(t) \/ Halfway(t) \/ AtBefore(t)
  BY <1>1, PlannedStands DEF ResendInv
<1>3. AtBefore(t) => ~Done(t)
  BY <1>1 DEF AtBefore, Landed, Done
<1>4. AtBefore(t) => SourcesStand(t)
  BY <1>1, <1>3, PlanAssumption DEF SourcesStand, ResendInv, Drawn
<1> QED
  BY <1>2, <1>4

\* The plan is sent over targets that fit it.
LEMMA TargetsFit ==
  ASSUME Inv, ResendInv, foreign = {}
  PROVE  Fit
<1>1. ASSUME NEW d \in Draws, AtBefore(d[1]) PROVE ~BeforeUnseen(d[2])
  <2>1. d[1] \in Targets /\ d[2] \in Targets
    BY PlanAssumption
  <2>2. \A t \in Targets : vault[t] \in survives[t]
    BY DEF Inv, Listed
  <2>3. ~Done(d[1])
    BY <1>1, <2>1, <2>2 DEF AtBefore, Landed, Done
  <2>4. vault[d[2]].bytes = Before[d[2]] /\ (d[2] \in Respelled => vault[d[2]].at = "old")
    BY <2>1, <2>2, <2>3 DEF ResendInv, Drawn
  <2> QED
    BY <2>4 DEF BeforeUnseen, Spends, Landed, Halfway
<1> QED
  BY <1>1, TargetsStand DEF Fit

\* An attempt whose staging and whose files stay as they are stays clean.
LEMMA CleanStays ==
  ASSUME CleanInv, UNCHANGED <<vault, held, shadows>>, left' = left \/ job.phase # "staging",
         job'.leg = job.leg, job'.phase = job.phase, report'.stopped = report.stopped,
         act'.on # NoTarget => act'.first # "unsynced" /\ held[act'.on] = "staged"
  PROVE  CleanInv'
BY DEF CleanInv, HeldFits, Landed, AtBefore, Halfway, Shadowed

\* What is on its way to the disk where no other writer has been.
LEMMA ActingFits ==
  ASSUME Inv, ResendInv, foreign = {}, NEW t \in Targets, act.on = t
  PROVE  /\ job.phase = "publishing" /\ t \in left
         /\ act.step = "act" => ~Landed(t) /\ ~act.found
         /\ act.step # "act" \/ act.respelling => vault[t].bytes = After[t]
         /\ act.step = "sync" /\ ~ContentStep(t) => Landed(t)
         /\ act.step = "act" => ~(Taken(t) /\ ~Landed(t)) /\ ~(Emptied(t) /\ After[t] # Nothing)
         /\ act.step = "judge" => Landed(t) \/ Halfway(t)
<1>0. /\ t # NoTarget /\ act \in Acts /\ ActInv /\ ActFits
  BY PlanAssumption DEF Inv, TypeOK, ResendInv
<1>1. /\ job.phase = "publishing" /\ t \in left
      /\ act.step = "act" => ~Landed(t) /\ ~act.found
      /\ act.step # "act" \/ act.respelling => vault[t].bytes = After[t]
  BY <1>0 DEF ActInv, ActFits, Ready
<1>2. act.step = "sync" /\ ~ContentStep(t) => Landed(t)
  BY <1>0 DEF ActInv, ContentStep, Landed
<1>3. act.step = "act" => ~(Taken(t) /\ ~Landed(t)) /\ ~(Emptied(t) /\ After[t] # Nothing)
  <2>1. CASE act.respelling
    <3>1. act.step = "act" => t \in Respelled /\ vault[t].bytes = After[t]
      BY <1>0, <1>1, <2>1 DEF ActFits
    <3> QED
      BY <3>1, PlanAssumption DEF Taken, Emptied
  <2>2. CASE ~act.respelling
    <3>1. act.step = "act" => vault[t].bytes = Before[t]
      BY <1>0, <2>2 DEF ActFits, AtBefore
    <3> QED
      BY <2>2, <3>1 DEF Taken, Emptied
  <2> QED
    BY <2>1, <2>2
<1>4. act.step = "judge" => Landed(t) \/ Halfway(t)
  <2>1. act.step = "judge" => vault[t].bytes = After[t] /\ Before[t] # After[t]
    BY <1>0, <1>1 DEF ActFits
  <2> QED
    BY <2>1, TargetsStand DEF AtBefore
<1> QED
  BY <1>1, <1>2, <1>3, <1>4

\* The act itself keeps what staging found.
LEMMA ActHeldFits ==
  ASSUME Inv, ResendInv, foreign = {}, HeldFits, NEW t \in Targets, Act(t)
  PROVE  HeldFits'
<1>0. /\ vault \in [Targets -> Files] /\ job \in Jobs /\ act \in Acts /\ vault[t] \in Files
      /\ act.on = t /\ act.step = "act" /\ ActFits
  BY DEF Inv, TypeOK, ResendInv, Act
<1>1. /\ vault'[t] = Written(t) /\ \A u \in Targets \ {t} : vault'[u] = vault[u]
      /\ held' = held /\ shadows \ {t} \subseteq shadows'
  BY <1>0 DEF Act, Change
<1>2. ~Landed(t) /\ ~act.found /\ (act.respelling => t \in Respelled /\ vault[t].bytes = After[t])
  BY <1>0, ActingFits DEF ActFits
<1>3. ~AtBefore(t)'
  <2>1. CASE After[t] = Nothing
    <3>1. vault'[t].bytes = After[t] /\ t \notin Respelled
      BY <1>0, <1>1, <2>1, PlanAssumption DEF Written, Removed, Files
    <3> QED
      BY <3>1 DEF AtBefore, Landed
  <2>2. CASE After[t] # Nothing /\ act.respelling
    <3>1. vault'[t].bytes = After[t] /\ vault'[t].at = "new"
      BY <1>0, <1>1, <1>2, <2>2 DEF Written, Files
    <3> QED
      BY <3>1 DEF AtBefore, Landed
  <2>3. CASE After[t] # Nothing /\ ~act.respelling
    <3>1. vault'[t].bytes = After[t]
      BY <1>1, <2>3 DEF Written
    <3>2. t \in Respelled => Before[t] # After[t]
      BY <1>0, <1>2, <2>3 DEF ActFits
    <3> QED
      BY <3>1, <3>2 DEF AtBefore, Landed
  <2> QED
    BY <2>1, <2>2, <2>3
<1>4. ASSUME NEW u \in Targets, held'[u] = "landed" PROVE Landed(u)'
  <2>1. u # t
    BY <1>1, <1>2, <1>4 DEF HeldFits
  <2> QED
    BY <1>1, <1>4, <2>1 DEF HeldFits, Landed
<1>5. ASSUME NEW u \in Targets, held'[u] = "staged", AtBefore(u)', Shadowed(u)' PROVE u \in shadows'
  <2>1. u # t
    BY <1>3, <1>5
  <2> QED
    BY <1>1, <1>5, <2>1 DEF HeldFits, AtBefore, Landed, Shadowed, Halfway
<1> QED
  BY <1>4, <1>5 DEF HeldFits

\* A fault the attempt meets is told by the job.
LEMMA FaultsTell ==
  ASSUME job \in Jobs
  PROVE  /\ \A j \in Jobs : Faulted(j) => ~job'.clean
         /\ \A t \in Targets, r \in Reports : ~(Stops(t, [job EXCEPT !.clean = FALSE], r) /\ job'.clean)
BY DEF Faulted, Jobs, Stops, Phases

\* Publishing a target stops at nothing, but for a fault, where no other writer is.
LEMMA PublishClean ==
  ASSUME Inv, ResendInv, foreign = {}, CleanInv, NEW t \in Targets, Publish(t), job'.clean
  PROVE  CleanInv'
<1>0. /\ job \in Jobs /\ act \in Acts /\ report \in Reports /\ ActInv
      /\ held \in [Targets -> {"none", "staged", "landed"}]
      /\ Result(t, "found") \in Reports /\ Told(t) \in Reports /\ Interrupted(t) \in Reports
      /\ Result(t, "found").stopped = report.stopped /\ Told(t).stopped = report.stopped
  <2>1. job \in Jobs /\ act \in Acts /\ report \in Reports /\ ActInv
        /\ held \in [Targets -> {"none", "staged", "landed"}]
    BY DEF Inv, TypeOK
  <2> QED
    BY <2>1, ReportTypes DEF Result, Told, Reports
<1>1. job.phase # "confirming" /\ (job.phase = "publishing" => HeldFits)
  BY DEF CleanInv
<1>2. ASSUME NEW r \in Reports, Stops(t, [job EXCEPT !.clean = FALSE], r) PROVE FALSE
  BY <1>0, <1>2, FaultsTell
<1>3. /\ NoAct.on = NoTarget /\ t # NoTarget
      /\ act.on # NoTarget => act.first # "unsynced" /\ held[act.on] = "staged"
  BY PlanAssumption DEF NoAct, CleanInv
<1>4. CASE ConfirmLanded(t)
  <2>1. Landed(t)
    BY <1>1, <1>4 DEF ConfirmLanded, HeldFits
  <2>2. UNCHANGED <<vault, held, shadows, job, act>> /\ report' = Result(t, "found")
        /\ job.phase # "staging"
    BY <1>0, <1>2, <1>4, <2>1 DEF ConfirmLanded
  <2> QED
    BY <1>0, <1>3, <2>2, CleanStays
<1>5. CASE Judge(t)
  <2>1. act'.first # "unsynced" /\ act'.on = t /\ held[t] = "staged"
    BY <1>5 DEF Judge, NoAct
  <2> QED
    BY <1>5, <2>1, CleanStays DEF Judge
<1>6. CASE JudgeStops(t)
  BY <1>0, <1>1, <1>2, <1>6, TargetsStand DEF JudgeStops, HeldFits
<1>7. CASE Act(t)
  <2>1. /\ job.phase = "publishing" /\ act'.first = act.first /\ act.on # NoTarget
        /\ held[act.on] = "staged" /\ act'.on = act.on
        /\ UNCHANGED <<job, held, report, left>>
    BY <1>0, <1>3, <1>7, ActingFits DEF Act, Acts
  <2>2. HeldFits'
    BY <1>1, <1>7, <2>1, ActHeldFits
  <2> QED
    BY <2>1, <2>2 DEF CleanInv
<1>8. CASE ActFinds(t) \/ Record(t)
  <2>1. act'.first = act.first /\ UNCHANGED <<vault, held, shadows, job, left, report>>
        /\ act.on # NoTarget /\ act'.on = act.on
    BY <1>0, <1>3, <1>8 DEF ActFinds, Record, Acts
  <2> QED
    BY <1>3, <2>1, CleanStays
<1>9. CASE ActStops(t)
  <2>1. act.on = t /\ act.step = "act"
    BY <1>9 DEF ActStops
  <2>2. ~(Taken(t) /\ ~Landed(t)) /\ ~(Emptied(t) /\ After[t] # Nothing)
    BY <2>1, ActingFits
  <2>3. ASSUME Swept(t) PROVE FALSE
    <3>1. AtBefore(t) /\ (t \in Respelled => Before[t] # After[t])
      BY <2>1, <2>3, ActingFits DEF Swept, ResendInv, ActFits
    <3>2. Shadowed(t)
      BY <2>3, <3>1 DEF Swept, Shadowed, AtBefore, Halfway
    <3>3. held[t] = "staged" /\ HeldFits
      BY <1>1, <1>3, <2>1, ActingFits
    <3> QED
      BY <2>3, <3>1, <3>2, <3>3 DEF HeldFits, Swept
  <2> QED
    BY <1>0, <1>2, <1>9, <2>2, <2>3 DEF ActStops
<1>10. CASE SyncContent(t)
  <2>1. ~Faulted(job)
    BY <1>0, FaultsTell
  <2>2. act'.first = "synced" /\ UNCHANGED <<vault, held, shadows, job, left, report>>
        /\ act.on # NoTarget /\ act'.on = act.on
    BY <1>0, <1>3, <1>10, <2>1 DEF SyncContent, Acts
  <2> QED
    BY <1>3, <2>2, CleanStays
<1>11. CASE JudgeRename(t)
  <2>1. (Landed(t) \/ Halfway(t)) /\ act.on # NoTarget
    BY <1>3, <1>11, ActingFits DEF JudgeRename
  <2>2. UNCHANGED <<vault, held, shadows, job, left, report>>
        /\ act' \in {[act EXCEPT !.step = "sync", !.found = TRUE],
                     [act EXCEPT !.step = "act", !.stamp = vault[t].stamp]}
    BY <1>11, <2>1 DEF JudgeRename
  <2>3. act'.first # "unsynced" /\ act'.on = act.on /\ held[act.on] = "staged"
    BY <1>0, <1>3, <2>1, <2>2 DEF Acts
  <2>4. /\ UNCHANGED <<vault, held, shadows>> /\ left' = left
        /\ job'.leg = job.leg /\ job'.phase = job.phase /\ report'.stopped = report.stopped
    BY <2>2
  <2> QED
    BY <2>3, <2>4, CleanStays
<1>12. CASE Sync(t)
  <2>1. act.on = t /\ Landed(t) /\ job.phase = "publishing"
    BY <1>12, ActingFits DEF Sync
  <2>2. UNCHANGED <<vault, held, job>> /\ act' = NoAct /\ report'.stopped = report.stopped
        /\ shadows' = shadows \ {t}
    BY <1>0, <1>12 DEF Sync
  <2>3. HeldFits'
    BY <1>1, <2>1, <2>2 DEF HeldFits, Landed, AtBefore, Shadowed, Halfway
  <2> QED
    BY <1>3, <2>1, <2>2, <2>3 DEF CleanInv
<1>13. CASE SyncFails(t)
  BY <1>0, <1>2, <1>3, <1>13 DEF SyncFails
<1>14. CASE ConfirmRemaining(t)
  BY <1>1, <1>14 DEF ConfirmRemaining
<1> QED
  BY <1>4, <1>5, <1>6, <1>7, <1>8, <1>9, <1>10, <1>11, <1>12, <1>13, <1>14 DEF Publish

\* Staging a target finds it as it stands, and stages a shadow for what is to be
\* written.
LEMMA StageClean ==
  ASSUME Inv, CleanInv, NEW t \in Targets, Stage(t)
  PROVE  CleanInv'
<1>0. /\ held \in [Targets -> {"none", "staged", "landed"}] /\ left \in SUBSET Targets
      /\ shadows \in SUBSET Targets
  BY DEF Inv, TypeOK
<1>1. /\ job.phase = "staging" /\ left' = left \ {t}
      /\ UNCHANGED <<vault, job, act, report>>
  BY <1>0 DEF Stage
<1>2. /\ \A u \in Targets \ {t} : held'[u] = held[u]
      /\ \/ held'[t] = "landed" /\ Landed(t) /\ shadows' = shadows
         \/ held'[t] = "staged" /\ shadows' = IF Shadowed(t) THEN shadows \cup {t} ELSE shadows
  BY <1>0 DEF Stage
<1>3. HeldFits'
  <2>1. ASSUME NEW u \in Targets
        PROVE  /\ held'[u] = "landed" => Landed(u)'
               /\ held'[u] = "staged" /\ AtBefore(u)' /\ Shadowed(u)' => u \in shadows'
    <3>1. Landed(u)' = Landed(u) /\ AtBefore(u)' = AtBefore(u) /\ Shadowed(u)' = Shadowed(u)
      BY <1>1 DEF Landed, AtBefore, Shadowed, Halfway
    <3>2. CASE u = t
      BY <1>2, <3>1, <3>2
    <3>3. CASE u # t
      BY <1>1, <1>2, <3>1, <3>3 DEF CleanInv, HeldFits
    <3> QED
      BY <3>2, <3>3
  <2> QED
    BY <2>1 DEF HeldFits
<1>4. \A u \in Targets \ left' : held'[u] # "none"
  BY <1>1, <1>2 DEF CleanInv
<1>5. act'.on = NoTarget
  BY <1>1 DEF Inv, ActInv
<1> QED
  BY <1>1, <1>3, <1>4, <1>5 DEF CleanInv

\* Every step of a clean attempt leaves it clean, and it ends applied.
LEMMA CleanStep ==
  ASSUME Inv, ResendInv, [Next]_vars, foreign' = {}, job'.clean
  PROVE  /\ job'.phase # "idle" => CleanInv'
         /\ job'.phase = "idle" => job'.answer \in {"none", "applied"}
<1>0. /\ job \in Jobs /\ report \in Reports /\ act \in Acts
      /\ held \in [Targets -> {"none", "staged", "landed"}]
  BY DEF Inv, TypeOK
<1> DEFINE Clean == /\ job'.phase # "idle" => CleanInv'
                    /\ job'.phase = "idle" => job'.answer \in {"none", "applied"}
<1>1. foreign = {} /\ job.clean /\ job.phase # "idle" => CleanInv
  BY DEF ResendInv
<1>2. ASSUME UNCHANGED <<vault, held, shadows, job, left, act, report>>, foreign = {} PROVE Clean
  <2>1. CASE job.phase = "idle"
    BY <1>2, <2>1 DEF ResendInv
  <2>2. CASE job.phase # "idle"
    <3>1. CleanInv
      BY <1>1, <1>2, <2>2
    <3> QED
      BY <1>2, <2>2, <3>1, CleanStays DEF CleanInv
  <2> QED
    BY <2>1, <2>2
<1>3. \A a \in {"none", "applied", "interrupted", "refused", "stood_down"} :
        /\ Over(a) \in Jobs /\ Over(a).clean = job.clean /\ Over(a).phase = "idle"
        /\ Over(a).answer = a
  BY <1>0 DEF Over, Jobs, Phases
<1>4. ASSUME NEW a \in {"none", "applied", "interrupted", "refused", "stood_down"},
             Faulted(Over(a))
      PROVE  FALSE
  BY <1>0, <1>3, <1>4, FaultsTell
<1>5. Faulted(job) => FALSE
  BY <1>0, FaultsTell
<1>6. CASE UNCHANGED vars
  BY <1>2, <1>6 DEF vars
<1>7. ASSUME NEW t \in Targets, Publish(t) PROVE Clean
  <2>1. /\ foreign = {} /\ job.clean /\ job.phase \in {"publishing", "confirming"}
        /\ job'.phase # "idle"
    <3>1. foreign' = foreign
      BY <1>7 DEF Publish, ConfirmLanded, Judge, JudgeStops, Act, ActFinds, ActStops,
         Record, SyncContent, JudgeRename, Sync, SyncFails, ConfirmRemaining
    <3>2. job.phase \in {"publishing", "confirming"}
      BY <1>7, PlanAssumption DEF Inv, ActInv, Publish, ConfirmLanded, Judge, JudgeStops, Act,
         ActFinds, ActStops, Record, SyncContent, JudgeRename, Sync, SyncFails, ConfirmRemaining
    <3>3. \/ job' = job \/ Faulted(job)
          \/ \E r : Stops(t, job, r) \/ Stops(t, [job EXCEPT !.clean = FALSE], r)
      BY <1>7, Zenon DEF Publish, ConfirmLanded, Judge, JudgeStops, Act, ActFinds, ActStops,
         Record, SyncContent, JudgeRename, Sync, SyncFails, ConfirmRemaining
    <3>4. job'.phase # "idle" /\ job.clean
      BY <1>0, <1>5, <3>2, <3>3 DEF Stops, Jobs, Phases
    <3> QED
      BY <3>1, <3>2, <3>4
  <2>2. CleanInv'
    BY <1>1, <1>7, <2>1, PublishClean
  <2> QED
    BY <2>1, <2>2
<1>8. CASE Begin
  <2>1. foreign = {} /\ Fit
    BY <1>8, TargetsFit DEF Begin
  <2>2. /\ job' = [phase |-> "staging", attempt |-> job.attempt + 1, leg |-> TRUE,
                   clean |-> TRUE, answer |-> "none"]
        /\ left' = Targets /\ report' = NoReport /\ act' = act
        /\ held' = [t \in Targets |-> "none"] /\ job.phase = "idle"
    BY <1>8, <2>1 DEF Begin
  <2>3. HeldFits' /\ ~report'.stopped /\ act.on = NoTarget
    BY <2>2 DEF HeldFits, NoReport, Inv, ActInv
  <2> QED
    BY <2>2, <2>3 DEF CleanInv
<1>9. ASSUME NEW t \in Targets, Stage(t) PROVE Clean
  <2>1. foreign = {} /\ UNCHANGED job /\ job.phase = "staging"
    BY <1>9 DEF Stage
  <2> QED
    BY <1>1, <1>9, <2>1, StageClean
<1>10. ASSUME NEW t \in Targets, StageStops(t) PROVE FALSE
  BY <1>4, <1>10, TargetsStand DEF StageStops
<1>11. CASE BeginPublishing
  <2>1. job.clean
    BY <1>0, <1>3, <1>11 DEF BeginPublishing, Jobs
  <2>2. CleanInv /\ job.phase = "staging"
    BY <1>1, <1>11, <2>1 DEF BeginPublishing
  <2>3. /\ job' = [job EXCEPT !.phase = "publishing"] /\ left' = Targets /\ left = {}
        /\ UNCHANGED <<vault, shadows, held, act, report>>
    BY <1>11, <2>2 DEF BeginPublishing, CleanInv
  <2>4. job'.phase = "publishing" /\ job'.leg = job.leg
    BY <1>0, <2>3 DEF Jobs
  <2> QED
    BY <2>2, <2>3, <2>4 DEF CleanInv, HeldFits, Landed, AtBefore, Halfway, Shadowed
<1>12. CASE Published \/ ReadBack
  <2>1. /\ job'.phase \in {"answering", "committing"} /\ job'.leg = job.leg
        /\ job.clean = job'.clean /\ UNCHANGED <<foreign, act, held>>
        /\ job.phase # "idle" /\ report'.stopped = report.stopped
    BY <1>0, <1>12, KeptReport DEF Published, ReadBack, Jobs
  <2> QED
    BY <1>1, <2>1 DEF CleanInv
<1>13. CASE Commit \/ CommitFails \/ NothingToCommit
  <2>0. Answer \in {"applied", "interrupted", "refused"}
    BY DEF Answer
  <2>1. job' = Over(Answer) /\ job.phase # "idle" /\ foreign = {}
    BY <1>4, <1>13, <2>0 DEF Commit, CommitFails, NothingToCommit
  <2>2. job.clean /\ job'.phase = "idle" /\ job'.answer = Answer
    BY <1>3, <2>0, <2>1
  <2>3. ~report.stopped
    BY <1>1, <2>1, <2>2 DEF CleanInv
  <2> QED
    BY <2>2, <2>3 DEF Answer
<1>14. CASE Crash \/ PowerCut
  BY <1>4, <1>14 DEF Crash, PowerCut, Lose
<1>15. CASE Settle \/ Suppress \/ Reconcile \/ \E t \in Targets : Expire(t)
  BY <1>2, <1>15 DEF Settle, Suppress, Reconcile, Expire
<1>16. CASE Attach
  <2>1. job.phase = "idle" /\ UNCHANGED <<job, foreign>>
    BY <1>16 DEF Attach, Inv, ShadowInv
  <2> QED
    BY <2>1 DEF ResendInv
<1>17. CASE TearDown
  BY <1>0, <1>17 DEF TearDown, Faulted, Jobs
<1>18. ASSUME NEW t \in Targets, Sweep(t) PROVE FALSE
  BY <1>5, <1>18 DEF Sweep
<1>19. ASSUME NEW t \in Targets, ForeignWrite(t) PROVE FALSE
  BY <1>19 DEF ForeignWrite
<1> QED
  BY <1>6, <1>7, <1>8, <1>9, <1>10, <1>11, <1>12, <1>13, <1>14, <1>15, <1>16, <1>17, <1>18,
     <1>19 DEF Next

\* A job under way has no answer.
LEMMA AnswerStep ==
  ASSUME Inv, job.phase # "idle" => job.answer = "none", [Next]_vars
  PROVE  job'.phase # "idle" => job'.answer = "none"
<1>0. job \in Jobs
  BY DEF Inv, TypeOK
<1>1. /\ \A j \in Jobs : Faulted(j) => job'.phase = j.phase /\ job'.answer = j.answer
      /\ \A a \in {"none", "applied", "interrupted", "refused", "stood_down"} :
             Over(a) \in Jobs /\ Over(a).phase = "idle"
  BY <1>0, JobTypes DEF Over, Jobs, Phases, Faulted
<1>2. Answer \in {"applied", "interrupted", "refused"}
  BY DEF Answer
<1>3. ASSUME NEW t \in Targets, Publish(t)
      PROVE  job'.answer = job.answer /\ job.phase # "idle"
  <2>1. job.phase \in {"publishing", "confirming"}
    BY <1>3, PlanAssumption DEF Inv, ActInv, Publish, ConfirmLanded, Judge, JudgeStops, Act,
       ActFinds, ActStops, Record, SyncContent, JudgeRename, Sync, SyncFails, ConfirmRemaining
  <2>2. \/ job' = job \/ Faulted(job)
        \/ \E r : Stops(t, job, r) \/ Stops(t, [job EXCEPT !.clean = FALSE], r)
    BY <1>3, Zenon DEF Publish, ConfirmLanded, Judge, JudgeStops, Act, ActFinds, ActStops,
       Record, SyncContent, JudgeRename, Sync, SyncFails, ConfirmRemaining
  <2> QED
    BY <1>0, <1>1, <2>1, <2>2 DEF Stops, Jobs, Phases
<1>4. CASE Begin
  BY <1>4 DEF Begin
<1>5. CASE BeginPublishing \/ Published \/ ReadBack
  BY <1>0, <1>1, <1>5 DEF BeginPublishing, Published, ReadBack, Jobs
<1>6. CASE Commit \/ CommitFails \/ NothingToCommit
  BY <1>1, <1>2, <1>6 DEF Commit, CommitFails, NothingToCommit
<1>7. CASE Crash \/ PowerCut \/ \E t \in Targets : StageStops(t)
  BY <1>1, <1>7 DEF Crash, PowerCut, Lose, StageStops
<1>8. CASE UNCHANGED vars \/ Settle \/ Suppress \/ Reconcile \/ Attach
           \/ \E t \in Targets : Stage(t) \/ Expire(t) \/ ForeignWrite(t)
  BY <1>8 DEF vars, Settle, Suppress, Reconcile, Attach, Stage, Expire, ForeignWrite
<1>9. CASE TearDown \/ \E t \in Targets : Sweep(t)
  BY <1>0, <1>9 DEF TearDown, Sweep, Faulted, Jobs
<1> QED
  BY <1>3, <1>4, <1>5, <1>6, <1>7, <1>8, <1>9 DEF Next

\* "Send the plan again to finish it": for any plan, an attempt no fault meets over
\* files no other writer has touched is applied, whatever power cuts, stops and
\* half-done renames the attempts before it left.
THEOREM CleanResendIsApplied == Spec => []CleanResendApplies
<1>1. Init => ResendInv
  <2> SUFFICES ASSUME Init PROVE ResendInv
    OBVIOUS
  <2>1. \A t \in Targets : survives[t] = {Initially(t)} /\ Planned(t, Initially(t))
    BY DEF Init, Initially, Planned
  <2>2. \A t \in Targets :
            Initially(t).bytes = Before[t] /\ (t \in Respelled => Initially(t).at = "old")
    BY DEF Initially
  <2>3. Drawn
    <3>1. \A d \in Draws : d[2] \in Targets
      BY PlanAssumption
    <3> QED
      BY <2>1, <2>2, <3>1 DEF Drawn
  <2>4. ActFits
    BY PlanAssumption DEF Init, NoAct, ActFits
  <2> QED
    BY <2>1, <2>3, <2>4 DEF Init, ResendInv
<1>2. Inv /\ ResendInv /\ [Next]_vars => ResendInv'
  <2> SUFFICES ASSUME Inv, ResendInv, [Next]_vars PROVE ResendInv'
    OBVIOUS
  <2>1. foreign' = {} =>
            /\ Drawn' /\ \A t \in Targets : \A f \in survives'[t] : Planned(t, f)
            /\ ActFits'
            /\ job'.clean /\ job'.phase # "idle" => CleanInv'
            /\ job'.clean /\ job'.phase = "idle" => job'.answer \in {"none", "applied"}
    BY PlannedStep, ActFitsStep, CleanStep
  <2>2. job'.phase # "idle" => job'.answer = "none"
    BY AnswerStep DEF ResendInv
  <2> QED
    BY <2>1, <2>2 DEF ResendInv
<1>3. ResendInv => CleanResendApplies
  BY DEF ResendInv, CleanResendApplies
<1> QED
  BY <1>1, <1>2, <1>3, InvHolds, PTL DEF Spec

----------------------------------------------------------------------------
(* The store after the vault                                               *)

\* What the store will list at p when the job under way has committed.
Coming(p) == IF rows[p] = Kept THEN store[p] ELSE rows[p]
Right(t) == \A s \in Spellings : Coming(<<t, s>>) = Listing(vault)[<<t, s>>]

\* A report of t is on its way that will not be taken for the plan's own write.
Differs(t, e) == e # [bytes |-> vault[t].bytes, stamp |-> vault[t].stamp]
Reached(t) ==
    \/ t \in watch.owed
    \/ t \in watch.seen /\ Differs(t, watch.ledger[t])
    \/ t \in watch.comparing /\ Differs(t, watch.batch[t])

\* The plan has changed t, and the changeset will say so.
Changing(t) ==
    act.on = t /\ (act.first # "none" \/ act.step = "record" \/ (act.step = "sync" /\ ~act.found))
Pends(t) ==
    /\ job.phase \in {"publishing", "confirming", "answering"}
    /\ report.results[t] = "wrote" \/ t \in report.half \/ Changing(t)

\* Every row is right, or will be.
Follows(t) ==
    \/ Reached(t)
    \/ Pends(t) /\ vault[t].bytes = After[t]
    \/ ~Pends(t) /\ Right(t)
RowInv == watch.attached => \A t \in Targets : Follows(t)

\* What is renamed is as it was judged, or its change is on its way.
Renames(t) ==
    act.on = t /\ act.step = "act" /\ act.respelling => vault[t].bytes = After[t] \/ Reached(t)
RenameInv == watch.attached => \A t \in Targets : Renames(t)

\* No stamp is one another writer has yet to leave.
Last == Attempts + budget.writes
StampInv ==
    /\ \A t \in Targets : \A f \in survives[t] : f.stamp <= Last
    /\ \A t \in Targets : watch.ledger[t].stamp <= Last
    /\ act.stamp <= Last

\* Under which spelling a target stands.
OneSpelling == \A t \in Targets \ Respelled : \A f \in survives[t] : f.at = "new"
ActAt ==
    \A t \in Respelled : act.on = t =>
        vault[t].at = IF act.step \in {"record", "sync"} /\ (act.respelling \/ act.found)
                      THEN "new" ELSE "old"
FirstAt == \A t \in Targets \ Respelled : act.on = t => act.first = "none"
ResultsAt ==
    /\ job.phase # "idle" => \A t \in Targets : report.results[t] # "none" => vault[t].at = "new"
    /\ job.phase # "idle" => \A t \in report.half :
           t \in Respelled \ left /\ vault[t].at = "old" /\ report.results[t] = "none"
    /\ job.phase \in {"staging", "publishing"} => report.half = {}
    /\ job.phase # "idle" => \A t \in report.withheld :
           job.phase \in {"answering", "committing"} /\ report.results[t] = "found"
Blank(p) == store[p] = Nothing /\ rows[p] \in {Kept, Nothing}
RowsAt ==
    watch.attached => \A t \in Targets :
        /\ t \notin Respelled => Blank(<<t, "old">>)
        /\ vault[t].at = "old" => Blank(<<t, "new">>)
RowsKept == job.phase # "committing" => \A p \in Paths : rows[p] = Kept
AtInv == OneSpelling /\ ActAt /\ FirstAt /\ ResultsAt

FollowInv == StampInv /\ AtInv /\ RowsKept /\ RowsAt /\ RenameInv /\ RowInv

\* What a step does to a coverage that stands after it: nothing is forgotten but by
\* a settling, a reconcile or an attach.
LEMMA ReturnedKeeps ==
  ASSUME watch \in Watches, NEW S \in SUBSET Targets, watch' = Returned(S), watch'.attached
  PROVE  /\ watch.attached = watch'.attached /\ watch'.ledger = watch.ledger
         /\ watch'.seen = watch.seen /\ watch'.comparing = watch.comparing
         /\ watch'.batch = watch.batch /\ watch'.owed = watch.owed \cup S
BY DEF Returned, Unattached, Watches

\* A change that writes no new stamp, or another writer's next one.
LEMMA StampsOf ==
  ASSUME TypeOK, Listed, StampInv, NEW t \in Targets
  PROVE  /\ Last \in Nat /\ 0 <= Last /\ job.attempt \in Nat /\ job.attempt <= Last
         /\ vault[t].stamp \in Nat /\ vault[t].stamp <= Last
         /\ budget.writes \in Nat /\ Attempts \in Nat /\ act.stamp \in Nat
<1>1. /\ Attempts \in Nat /\ budget.writes \in Nat /\ vault[t] \in Files
      /\ job.attempt \in 0..Attempts /\ act.stamp \in Stamps
  BY PlanAssumption DEF TypeOK, Budgets, Jobs, Acts
<1>2. vault[t].stamp \in Nat /\ act.stamp \in Nat
  BY <1>1, PlanAssumption DEF Files, Stamps
<1> QED
  BY <1>1, <1>2 DEF Last, StampInv, Listed

\* The stamps of files stay in bounds.
LEMMA FileStampStep ==
  ASSUME TypeOK, Listed, StampInv, [Next]_vars, Last <= Last', Last' \in Nat
  PROVE  \A t \in Targets : \A f \in survives'[t] : f.stamp <= Last'
<1>0. vault \in [Targets -> Files] /\ survives \in [Targets -> SUBSET Files]
  BY DEF TypeOK
<1>1. \A t \in Targets : \A f \in survives[t] : f.stamp <= Last'
  <2> SUFFICES ASSUME NEW t \in Targets, NEW f \in survives[t] PROVE f.stamp <= Last'
    OBVIOUS
  <2>1. f \in Files
    BY <1>0
  <2>2. f.stamp \in Nat /\ Last \in Nat
    BY <2>1, PlanAssumption, StampsOf DEF Files, Stamps
  <2> QED
    BY <2>2 DEF StampInv
<1>2. CASE UNCHANGED <<vault, survives, foreign>>
  BY <1>1, <1>2
<1>3. ASSUME NEW t \in Targets, Synced(t), UNCHANGED vault
      PROVE  \A u \in Targets : \A f \in survives'[u] : f.stamp <= Last'
  BY <1>0, <1>1, <1>3 DEF Synced, Listed
<1>4. ASSUME NEW t \in Targets, NEW f \in Files, f.stamp <= Last', Change(t, f)
      PROVE  \A u \in Targets : \A g \in survives'[u] : g.stamp <= Last'
  BY <1>0, <1>1, <1>4 DEF Change
<1>5. ASSUME NEW t \in Targets, Act(t)
      PROVE  \A u \in Targets : \A f \in survives'[u] : f.stamp <= Last'
  <2>1. Written(t) \in Files /\ Written(t).stamp <= Last'
    <3>1. Written(t) \in Files /\ vault[t] \in Files
      BY <1>0, FileTypes DEF TypeOK
    <3>2. vault[t].stamp <= Last' /\ job.attempt <= Last' /\ 0 <= Last'
      BY StampsOf
    <3>3. Written(t).stamp \in {0, vault[t].stamp, job.attempt}
      BY <3>1 DEF Written, Removed, Files
    <3> QED
      BY <3>1, <3>2, <3>3
  <2> QED
    BY <1>4, <1>5, <2>1 DEF Act
<1>6. ASSUME NEW t \in Targets, ForeignWrite(t)
      PROVE  \A u \in Targets : \A f \in survives'[u] : f.stamp <= Last'
  <2>1. Removed(t) \in Files /\ Removed(t).stamp = 0
    BY <1>0, FileTypes DEF TypeOK, Removed, Files
  <2>2. CASE Change(t, Removed(t))
    BY <1>4, <2>1, <2>2
  <2>3. ASSUME NEW b \in {Before[t], After[t], Other} \ {Nothing},
               Change(t, [vault[t] EXCEPT !.bytes = b, !.stamp = Attempts + budget'.writes])
        PROVE  \A u \in Targets : \A f \in survives'[u] : f.stamp <= Last'
    <3> DEFINE f == [vault[t] EXCEPT !.bytes = b, !.stamp = Attempts + budget'.writes]
    <3>1. b \in Bytes /\ Attempts + budget'.writes \in Stamps
      <4>1. budget' \in Budgets
        <5>1. budget.writes < Writes /\ budget' = [budget EXCEPT !.writes = @ + 1]
          BY <1>6 DEF ForeignWrite
        <5>2. budget \in Budgets
          BY DEF TypeOK
        <5> QED
          BY <5>1, <5>2, PlanAssumption DEF Budgets
      <4> QED
        BY <4>1, PlanAssumption DEF Budgets, Stamps, Bytes
    <3>2. f \in Files
      BY <1>0, <3>1, FileTypes DEF TypeOK
    <3>3. f.stamp = Attempts + budget'.writes
      BY <1>0 DEF Files
    <3>4. f.stamp <= Last'
      BY <3>3 DEF Last
    <3> QED
      BY <1>4, <2>3, <3>2, <3>4
  <2> QED
    BY <1>6, <2>2, <2>3 DEF ForeignWrite
<1>7. CASE PowerCut
  BY <1>1, <1>7 DEF PowerCut
<1> QED
  BY <1>2, <1>3, <1>5, <1>6, <1>7, DiskSteps

\* Where the coverage changes.
LEMMA WatchSteps ==
  ASSUME [Next]_vars
  PROVE  \/ watch' = watch
         \/ watch' = Returned({}) \/ watch' = Returned(Targets)
         \/ watch' = Unattached \/ watch' = [Unattached EXCEPT !.attached = TRUE]
         \/ Settle \/ Suppress \/ Reconcile
         \/ \E t \in Targets : Act(t) \/ Record(t) \/ Expire(t) \/ ForeignWrite(t)
<1>1. ASSUME NEW t \in Targets, Publish(t) PROVE watch' = watch \/ Act(t) \/ Record(t)
  BY <1>1, Zenon DEF Publish, ConfirmLanded, Judge, JudgeStops, ActFinds, ActStops,
     SyncContent, JudgeRename, Sync, SyncFails, ConfirmRemaining
<1>2. CASE Begin \/ BeginPublishing \/ Published \/ ReadBack \/ TearDown \/ UNCHANGED vars
  BY <1>2 DEF Begin, BeginPublishing, Published, ReadBack, TearDown, vars
<1>3. CASE Commit \/ CommitFails \/ NothingToCommit \/ Attach \/ Crash \/ PowerCut
  BY <1>3 DEF Commit, CommitFails, NothingToCommit, Attach, Crash, PowerCut, Lose
<1>4. ASSUME NEW t \in Targets, Stage(t) \/ StageStops(t) \/ Sweep(t)
      PROVE  watch' = watch \/ watch' = Returned({})
  BY <1>4 DEF Stage, StageStops, Sweep
<1> QED
  BY <1>1, <1>2, <1>3, <1>4, Zenon DEF Next

\* Away from publication, what is under way stays or is gone.
LEMMA ActSteps ==
  ASSUME [Next]_vars
  PROVE  (\E t \in Targets : Publish(t)) \/ act' = act \/ act' = NoAct
<1>1. CASE Begin \/ BeginPublishing \/ Published \/ ReadBack \/ Commit \/ CommitFails
           \/ NothingToCommit \/ TearDown \/ UNCHANGED vars
  BY <1>1 DEF Begin, BeginPublishing, Published, ReadBack, Commit, CommitFails,
     NothingToCommit, TearDown, vars
<1>2. CASE Settle \/ Suppress \/ Reconcile \/ Attach \/ Crash \/ PowerCut
  BY <1>2 DEF Settle, Suppress, Reconcile, Attach, Crash, PowerCut, Lose
<1>3. ASSUME NEW t \in Targets,
             Stage(t) \/ StageStops(t) \/ Expire(t) \/ ForeignWrite(t) \/ Sweep(t)
      PROVE  act' = act
  BY <1>3 DEF Stage, StageStops, Expire, ForeignWrite, Sweep
<1> QED
  BY <1>1, <1>2, <1>3, Zenon DEF Next

\* No write of another writer is taken back.
LEMMA WritesGrow ==
  ASSUME TypeOK, [Next]_vars
  PROVE  Last \in Nat /\ Last' \in Nat /\ Last <= Last'
<1>0. budget \in Budgets
  BY DEF TypeOK
<1>1. budget' = budget \/ Fault \/ \E t \in Targets : ForeignWrite(t)
  <2>1. ASSUME NEW t \in Targets, Publish(t) PROVE budget' = budget \/ Fault
    BY <2>1, Zenon DEF Publish, ConfirmLanded, Judge, JudgeStops, Act, ActFinds, ActStops, Record,
       SyncContent, JudgeRename, Sync, SyncFails, ConfirmRemaining, Faulted
  <2>2. CASE Begin \/ BeginPublishing \/ Published \/ ReadBack \/ Commit \/ CommitFails
             \/ NothingToCommit
    BY <2>2 DEF Begin, BeginPublishing, Published, ReadBack, Commit, CommitFails,
       NothingToCommit, Faulted
  <2>3. CASE Settle \/ Suppress \/ Reconcile \/ Attach \/ TearDown \/ Crash \/ PowerCut
             \/ UNCHANGED vars
    BY <2>3 DEF Settle, Suppress, Reconcile, Attach, TearDown, Crash, PowerCut, Lose, Faulted, vars
  <2>4. ASSUME NEW t \in Targets, Stage(t) \/ StageStops(t) \/ Expire(t) \/ Sweep(t)
        PROVE  budget' = budget \/ Fault
    BY <2>4, Zenon DEF Stage, StageStops, Expire, Sweep, Faulted
  <2> QED
    BY <2>1, <2>2, <2>3, <2>4, Zenon DEF Next
<1>2. budget'.writes = budget.writes \/ budget'.writes = budget.writes + 1
  BY <1>0, <1>1 DEF Fault, ForeignWrite, Budgets
<1>3. budget.writes \in Nat
  BY <1>0, PlanAssumption DEF Budgets
<1> QED
  BY <1>2, <1>3, PlanAssumption DEF Last

\* A batch is settled: what is not the plan's own write is owed.
LEMMA SuppressDoes ==
  ASSUME watch \in Watches, Suppress
  PROVE  /\ watch'.attached = watch.attached /\ watch'.seen = watch.seen
         /\ watch'.comparing = {} /\ watch.comparing # {}
         /\ watch'.owed = watch.owed \cup {t \in watch.comparing : ~Echo(t)}
         /\ \A t \in Targets : watch'.ledger[t] \in {watch.ledger[t], Unexpected}
<1> DEFINE changed == {t \in watch.comparing : ~Echo(t)}
           L == [t \in Targets |->
                   IF t \in changed /\ watch.ledger[t] = watch.batch[t] THEN Unexpected
                   ELSE watch.ledger[t]]
           B == [t \in Targets |-> Unexpected]
<1>1. /\ watch.comparing # {}
      /\ watch' = [watch EXCEPT !.comparing = {}, !.batch = B, !.owed = @ \cup changed,
                               !.ledger = L]
  BY DEF Suppress
<1>2. \A t \in Targets : L[t] \in {watch.ledger[t], Unexpected}
  OBVIOUS
<1> HIDE DEF L, B, changed
<1>3. /\ watch'.attached = watch.attached /\ watch'.seen = watch.seen
      /\ watch'.comparing = {} /\ watch'.owed = watch.owed \cup changed /\ watch'.ledger = L
  BY <1>1 DEF Watches
<1> QED
  BY <1>1, <1>2, <1>3 DEF changed

\* No stamp of a file, the ledger or the act under way is another writer's next.
LEMMA StampStep ==
  ASSUME TypeOK, Listed, StampInv, [Next]_vars
  PROVE  StampInv'
<1>0. /\ watch \in Watches /\ watch.ledger \in [Targets -> Expected \cup {Unexpected}]
      /\ act \in Acts /\ job \in Jobs
  BY DEF TypeOK, Watches
<1>1. Last \in Nat /\ Last' \in Nat /\ Last <= Last'
  BY WritesGrow
<1>2. \A t \in Targets : watch.ledger[t].stamp <= Last'
  <2> SUFFICES ASSUME NEW t \in Targets PROVE watch.ledger[t].stamp <= Last'
    OBVIOUS
  <2>1. watch.ledger[t].stamp \in Int /\ watch.ledger[t].stamp <= Last
    BY <1>0, PlanAssumption DEF Expected, Unexpected, Stamps, StampInv
  <2> QED
    BY <1>1, <2>1
<1>3. act.stamp <= Last'
  BY <1>0, <1>1, PlanAssumption DEF StampInv, Acts, Stamps
<1>4. Unexpected.stamp <= Last' /\ NoAct.stamp <= Last'
  BY <1>1 DEF Unexpected, NoAct
<1>5. \A t \in Targets : watch'.ledger[t].stamp <= Last'
  <2>1. CASE watch'.ledger = watch.ledger
    BY <1>2, <2>1
  <2>2. CASE watch' = Unattached \/ watch' = [Unattached EXCEPT !.attached = TRUE]
    BY <1>4, <2>2 DEF Unattached
  <2>3. CASE watch' = Returned({}) \/ watch' = Returned(Targets)
    <3>1. watch'.ledger = watch.ledger \/ watch' = Unattached
      BY <1>0, <2>3 DEF Returned, Watches
    <3> QED
      BY <2>1, <2>2, <3>1
  <2>4. ASSUME NEW t \in Targets, Record(t)
        PROVE  \A u \in Targets : watch'.ledger[u].stamp <= Last'
    <3>1. /\ watch'.ledger[t].stamp \in {0, act.stamp, job.attempt}
          /\ \A u \in Targets \ {t} : watch'.ledger[u] = watch.ledger[u]
      BY <1>0, <2>4 DEF Record, Watches
    <3>2. 0 <= Last' /\ job.attempt <= Last'
      BY <1>1, StampsOf
    <3> QED
      BY <1>2, <1>3, <3>1, <3>2
  <2>5. CASE Suppress \/ \E t \in Targets : Expire(t)
    <3>1. \A u \in Targets : watch'.ledger[u] \in {watch.ledger[u], Unexpected}
      <4>1. CASE Suppress
        BY <1>0, <4>1, SuppressDoes
      <4>2. ASSUME NEW t \in Targets, Expire(t)
            PROVE  \A u \in Targets : watch'.ledger[u] \in {watch.ledger[u], Unexpected}
        BY <1>0, <4>2 DEF Expire, Watches
      <4> QED
        BY <2>5, <4>1, <4>2
    <3> QED
      BY <1>2, <1>4, <3>1
  <2>6. CASE Settle \/ Reconcile \/ \E t \in Targets : Act(t) \/ ForeignWrite(t)
    <3>1. watch'.ledger = watch.ledger
      BY <1>0, <2>6 DEF Settle, Reconcile, ForeignWrite, Act, Reported, Watches
    <3> QED
      BY <2>1, <3>1
  <2> QED
    BY <2>1, <2>2, <2>3, <2>4, <2>5, <2>6, WatchSteps
<1>6. act'.stamp <= Last'
  <2>1. ASSUME NEW t \in Targets, Publish(t) PROVE act'.stamp <= Last'
    <3>1. vault[t].stamp <= Last'
      BY <1>1, StampsOf
    <3>2. act' = act \/ act'.stamp \in {act.stamp, NoAct.stamp, vault[t].stamp}
      <4>1. NoAct \in Acts
        BY <1>0, ActTypes, PlanAssumption DEF Acts, NoAct, Stamps
      <4>2. CASE Judge(t)
        BY <2>1, <4>1, <4>2 DEF Judge, Acts
      <4>3. CASE Act(t) \/ ActFinds(t) \/ Record(t) \/ SyncContent(t) \/ JudgeRename(t)
        BY <1>0, <4>3 DEF Act, ActFinds, Record, SyncContent, JudgeRename, Stops, Acts
      <4>4. CASE ConfirmLanded(t) \/ JudgeStops(t) \/ ActStops(t) \/ Sync(t) \/ SyncFails(t)
                 \/ ConfirmRemaining(t)
        BY <4>4 DEF ConfirmLanded, JudgeStops, ActStops, Sync, SyncFails, ConfirmRemaining, Stops
      <4> QED
        BY <2>1, <4>2, <4>3, <4>4 DEF Publish
    <3> QED
      BY <1>3, <1>4, <3>1, <3>2
  <2> QED
    BY <1>3, <1>4, <2>1, ActSteps
<1>7. \A t \in Targets : \A f \in survives'[t] : f.stamp <= Last'
  BY <1>1, FileStampStep
<1> QED
  BY <1>5, <1>6, <1>7 DEF StampInv

----------------------------------------------------------------------------
(* Spellings                                                               *)

\* Only the plan's act, or a power cut, changes how an entry is spelled.
LEMMA SpelledSteps ==
  ASSUME TypeOK, [Next]_vars
  PROVE  PowerCut \/ \A u \in Targets : vault'[u].at = vault[u].at \/ Act(u)
<1>0. vault \in [Targets -> Files]
  BY DEF TypeOK
<1>1. ASSUME NEW t \in Targets, NEW f, Change(t, f), f.at = vault[t].at
      PROVE  \A u \in Targets : vault'[u].at = vault[u].at
  BY <1>0, <1>1 DEF Change
<1>2. ASSUME NEW t \in Targets, ForeignWrite(t) PROVE \A u \in Targets : vault'[u].at = vault[u].at
  <2>1. vault[t] \in Files
    BY <1>0
  <2>2. Removed(t).at = vault[t].at
    BY <2>1 DEF Removed, Files
  <2>3. \A b, s : [vault[t] EXCEPT !.bytes = b, !.stamp = s].at = vault[t].at
    BY <2>1 DEF Files
  <2> QED
    BY <1>1, <1>2, <2>2, <2>3 DEF ForeignWrite
<1>3. ASSUME NEW t \in Targets, Act(t)
      PROVE  \A u \in Targets : vault'[u].at = vault[u].at \/ Act(u)
  BY <1>0, <1>3 DEF Act, Change
<1> QED
  BY <1>2, <1>3, DiskSteps

\* An act spells its target anew where it renames it, and nowhere else.
LEMMA ActSpells ==
  ASSUME TypeOK, Listed, ActInv, OneSpelling, ActAt, NEW t \in Targets, Act(t)
  PROVE  /\ vault'[t] = Written(t)
         /\ vault'[t].at = IF act.respelling THEN "new" ELSE vault[t].at
<1>0. vault \in [Targets -> Files] /\ vault[t] \in Files /\ act \in Acts
  BY DEF TypeOK
<1>1. vault'[t] = Written(t)
  BY <1>0 DEF Act, Change
<1>2. act.on = t /\ act.step = "act"
  BY DEF Act
<1>3. t \notin Respelled => vault[t].at = "new"
  BY DEF OneSpelling, Listed
<1>4. t \in Respelled => vault[t].at = "old" /\ After[t] # Nothing
  BY <1>2, PlanAssumption DEF ActAt
<1> QED
  BY <1>0, <1>1, <1>3, <1>4 DEF Written, Removed, Files

LEMMA OneSpellingStep ==
  ASSUME TypeOK, Listed, OneSpelling, [Next]_vars
  PROVE  OneSpelling'
<1>0. vault \in [Targets -> Files] /\ survives \in [Targets -> SUBSET Files]
  BY DEF TypeOK
<1>1. CASE UNCHANGED <<vault, survives, foreign>>
  BY <1>1 DEF OneSpelling
<1>2. ASSUME NEW t \in Targets, Synced(t), UNCHANGED vault PROVE OneSpelling'
  BY <1>0, <1>2 DEF Synced, OneSpelling, Listed
<1>3. ASSUME NEW t \in Targets, NEW f, t \notin Respelled => f.at = "new", Change(t, f)
      PROVE  OneSpelling'
  BY <1>0, <1>3 DEF Change, OneSpelling
<1>4. ASSUME NEW t \in Targets, Act(t) \/ ForeignWrite(t) PROVE OneSpelling'
  <2>1. vault[t] \in Files /\ (t \notin Respelled => vault[t].at = "new")
    BY <1>0 DEF OneSpelling, Listed
  <2>2. t \notin Respelled =>
          /\ Removed(t).at = "new" /\ Written(t).at = "new"
          /\ \A b, s : [vault[t] EXCEPT !.bytes = b, !.stamp = s].at = "new"
    BY <2>1 DEF Removed, Written, Files
  <2> QED
    BY <1>3, <1>4, <2>2 DEF Act, ForeignWrite
<1>5. CASE PowerCut
  BY <1>5 DEF PowerCut, OneSpelling
<1> QED
  BY <1>1, <1>2, <1>4, <1>5, DiskSteps

LEMMA ActAtEnds == act'.on = NoTarget => ActAt'
BY PlanAssumption DEF ActAt

\* Publishing a target keeps it spelled as its step has it.
LEMMA PublishActAt ==
  ASSUME TypeOK, Listed, ActInv, OneSpelling, ActAt, NEW t \in Targets, Publish(t)
  PROVE  ActAt'
<1>0. /\ vault \in [Targets -> Files] /\ job \in Jobs /\ act \in Acts
      /\ vault[t] \in Files /\ t # NoTarget /\ vault[t].at \in Spellings
  BY PlanAssumption DEF TypeOK, Files
<1>1. NoAct.on = NoTarget /\ NoAct \in Acts
  BY PlanAssumption DEF NoAct, Acts, Stamps
<1>2. ASSUME NEW j, NEW r, Stops(t, j, r) PROVE ActAt'
  BY <1>1, <1>2, ActAtEnds DEF Stops
<1>3. CASE ConfirmLanded(t) \/ JudgeStops(t) \/ ActStops(t) \/ Sync(t) \/ SyncFails(t)
  BY <1>1, <1>2, <1>3, ActAtEnds DEF ConfirmLanded, JudgeStops, ActStops, Sync, SyncFails
<1>4. CASE ConfirmRemaining(t)
  BY <1>4 DEF ConfirmRemaining, ActAt
<1>5. CASE Judge(t)
  <2>1. CASE Landed(t) /\ act' = [NoAct EXCEPT !.on = t, !.step = "sync", !.found = TRUE]
    BY <1>1, <1>5, <2>1 DEF Judge, ActAt, Acts, Landed
  <2>2. CASE /\ AtBefore(t)
             /\ act' = [NoAct EXCEPT !.on = t, !.step = "act", !.stamp = vault[t].stamp,
                            !.respelling = t \in Respelled /\ Before[t] = After[t]]
    BY <1>1, <1>5, <2>2 DEF Judge, ActAt, Acts, AtBefore
  <2>3. CASE /\ Halfway(t)
             /\ act' = [NoAct EXCEPT !.on = t, !.step = "act", !.stamp = vault[t].stamp,
                            !.respelling = TRUE]
    BY <1>1, <1>5, <2>3 DEF Judge, ActAt, Acts, Halfway
  <2> QED
    BY <1>5, <2>1, <2>2, <2>3 DEF Judge
<1>6. CASE Act(t)
  <2>1. act.on = t /\ act' = [act EXCEPT !.step = "record"] /\ act.step = "act"
    BY <1>6 DEF Act
  <2>2. act'.on = t /\ act'.respelling = act.respelling /\ act'.step = "record" /\ ~act'.found
    BY <1>0, <2>1 DEF Acts, ActInv
  <2>3. vault'[t].at = IF act.respelling THEN "new" ELSE vault[t].at
    BY <1>6, ActSpells
  <2> QED
    BY <2>1, <2>2, <2>3 DEF ActAt
<1>7. CASE ActFinds(t)
  <2>1. act.on = t /\ act' = [act EXCEPT !.step = "sync", !.found = TRUE]
    BY <1>7 DEF ActFinds
  <2>2. act'.on = t
    BY <1>0, <2>1 DEF Acts
  <2>3. t \notin Respelled
    BY <1>7, PlanAssumption DEF ActFinds, Taken, Emptied
  <2> QED
    BY <2>2, <2>3 DEF ActAt
<1>8. CASE Record(t)
  <2>1. act.on = t /\ act.step = "record" /\ act' = [act EXCEPT !.step = "sync"] /\ vault' = vault
    BY <1>8 DEF Record
  <2>2. act'.on = t /\ act'.respelling = act.respelling /\ act'.found = act.found /\ act'.step = "sync"
    BY <1>0, <2>1 DEF Acts
  <2> QED
    BY <2>1, <2>2 DEF ActAt
<1>9. CASE SyncContent(t)
  <2>1. act.on = t /\ act.step = "sync" /\ vault' = vault /\ ~act.respelling /\ ~act.found
    BY <1>9 DEF SyncContent, ContentStep
  <2>2. act'.on = t /\ act'.step = "judge"
    BY <1>0, <1>9, <2>1 DEF SyncContent, Acts
  <2> QED
    BY <2>1, <2>2 DEF ActAt
<1>10. CASE JudgeRename(t)
  <2>1. CASE Stops(t, job, Interrupted(t))
    BY <1>2, <2>1
  <2>2. CASE Landed(t) /\ act' = [act EXCEPT !.step = "sync", !.found = TRUE]
    BY <1>0, <1>10, <2>2 DEF JudgeRename, ActAt, Acts, Landed
  <2>3. CASE Halfway(t) /\ act' = [act EXCEPT !.step = "act", !.stamp = vault[t].stamp]
    BY <1>0, <1>10, <2>3 DEF JudgeRename, ActAt, Acts, Halfway
  <2> QED
    BY <1>10, <2>1, <2>2, <2>3 DEF JudgeRename
<1> QED
  BY <1>3, <1>4, <1>5, <1>6, <1>7, <1>8, <1>9, <1>10 DEF Publish

LEMMA ActAtStep ==
  ASSUME TypeOK, Listed, ActInv, OneSpelling, ActAt, [Next]_vars
  PROVE  ActAt'
<1>1. ASSUME NEW t \in Targets, Publish(t) PROVE ActAt'
  BY <1>1, PublishActAt
<1>2. CASE act' = NoAct
  BY <1>2, ActAtEnds DEF NoAct
<1>3. CASE act' = act /\ \A t \in Targets : ~Publish(t)
  <2>1. CASE PowerCut
    BY <1>2, <2>1 DEF PowerCut, Lose
  <2>2. CASE \A u \in Targets : vault'[u].at = vault[u].at
    BY <1>3, <2>2, PlanAssumption DEF ActAt
  <2> QED
    BY <1>3, <2>1, <2>2, SpelledSteps DEF Publish
<1> QED
  BY <1>1, <1>2, <1>3, ActSteps

\* Only a rename has a first step.
LEMMA FirstStep ==
  ASSUME TypeOK, FirstAt, [Next]_vars
  PROVE  FirstAt'
<1>0. act \in Acts /\ NoAct.first = "none" /\ NoAct.on = NoTarget /\ NoAct \in Acts
  BY PlanAssumption DEF TypeOK, NoAct, Acts, Stamps
<1>1. ASSUME NEW t \in Targets, Publish(t) PROVE FirstAt'
  <2>1. CASE Judge(t)
    BY <1>0, <2>1 DEF Judge, FirstAt, Acts
  <2>2. CASE Act(t) \/ ActFinds(t) \/ Record(t)
    BY <1>0, <2>2 DEF Act, ActFinds, Record, FirstAt, Acts
  <2>3. CASE SyncContent(t)
    <3>1. act'.on = t /\ t \in Respelled
      BY <1>0, <2>3 DEF SyncContent, ContentStep, Acts
    <3> QED
      BY <3>1 DEF FirstAt
  <2>4. CASE JudgeRename(t)
    BY <1>0, <2>4, PlanAssumption DEF JudgeRename, Stops, FirstAt, Acts
  <2>5. CASE ConfirmLanded(t) \/ JudgeStops(t) \/ ActStops(t) \/ Sync(t) \/ SyncFails(t)
             \/ ConfirmRemaining(t)
    <3>1. act' = act \/ act' = NoAct
      BY <2>5 DEF ConfirmLanded, JudgeStops, ActStops, Sync, SyncFails, ConfirmRemaining, Stops
    <3> QED
      BY <1>0, <3>1 DEF FirstAt
  <2> QED
    BY <1>1, <2>1, <2>2, <2>3, <2>4, <2>5 DEF Publish
<1> QED
  BY <1>0, <1>1, ActSteps DEF FirstAt

\* What publishing t tells, and of whom.
LEMMA PublishTells ==
  ASSUME TypeOK, Listed, ActInv, ReportInv, AtInv, NEW t \in Targets, Publish(t)
  PROVE  /\ t \in left /\ report.results[t] = "none" /\ left' \subseteq left
         /\ job.phase \in {"publishing", "confirming"}
         /\ \/ job'.phase = job.phase
            \/ job.phase = "publishing" /\ job'.phase = "confirming"
         /\ \A u \in Targets \ {t} : report'.results[u] = report.results[u]
         /\ report'.half \ {t} = report.half /\ report'.withheld = report.withheld
         /\ job'.phase = "publishing" => report'.half = {}
         /\ report'.results[t] # "none" => vault'[t].at = "new" /\ t \notin report'.half
         /\ t \in report'.half => t \in Respelled \ left' /\ vault'[t].at = "old"
<1>0. /\ vault \in [Targets -> Files] /\ job \in Jobs /\ act \in Acts /\ report \in Reports
      /\ left \in SUBSET Targets
  BY DEF TypeOK
<1>1. t \in left /\ job.phase \in {"publishing", "confirming"}
  BY <1>0, PlanAssumption DEF Publish, ConfirmLanded, Judge, JudgeStops, Act, ActFinds, ActStops,
     Record, SyncContent, JudgeRename, Sync, SyncFails, ConfirmRemaining, ActInv, Foremost, Ready
<1>2. report.results[t] = "none" /\ t \notin report.half /\ report.half \ {t} = report.half
  <2>1. report.results[t] = "none" /\ t \notin report.half
    BY <1>1 DEF ReportInv, AtInv, ResultsAt
  <2> QED
    BY <2>1
<1>3. \A x \in {"found", "wrote"} :
          /\ Result(t, x).results[t] = x /\ Result(t, x).half = report.half
          /\ Result(t, x).withheld = report.withheld
          /\ \A u \in Targets \ {t} : Result(t, x).results[u] = report.results[u]
  BY <1>0 DEF Result, Reports
<1>4. /\ Told(t).results[t] \in {"found", "wrote"} /\ Told(t).half = report.half
      /\ Told(t).withheld = report.withheld
      /\ \A u \in Targets \ {t} : Told(t).results[u] = report.results[u]
  <2>1. Result(t, "wrote") \in Reports
    BY <1>0 DEF Result, Reports
  <2> QED
    BY <1>3, <2>1 DEF Told, Reports
<1>5. /\ Interrupted(t).results = report.results /\ Interrupted(t).withheld = report.withheld
      /\ Interrupted(t).half \ {t} = report.half
      /\ t \in Interrupted(t).half => act.first # "none"
  BY <1>0, <1>2 DEF Interrupted, Reports
<1>6. Landed(t) => vault[t].at = "new"
  BY DEF Landed, AtInv, OneSpelling, Listed
<1>7. /\ [job EXCEPT !.clean = FALSE] \in Jobs /\ [job EXCEPT !.clean = FALSE].phase = job.phase
  BY <1>0 DEF Jobs
<1>8. ASSUME NEW j \in Jobs, NEW r \in Reports, Stops(t, j, r), job.phase = "publishing"
      PROVE  /\ left' = left \ {t} /\ job'.phase = "confirming"
             /\ report'.results = r.results /\ report'.half = r.half
             /\ report'.withheld = r.withheld
  <2>1. /\ [r EXCEPT !.stopped = TRUE].results = r.results
        /\ [r EXCEPT !.stopped = TRUE].half = r.half
        /\ [r EXCEPT !.stopped = TRUE].withheld = r.withheld
    BY DEF Reports
  <2>2. [j EXCEPT !.phase = "confirming"].phase = "confirming"
    BY DEF Jobs
  <2> QED
    BY <1>8, <2>1, <2>2 DEF Stops
<1>9. Result(t, "found") \in Reports /\ Told(t) \in Reports /\ Interrupted(t) \in Reports
  BY <1>0, ReportTypes
<1>10. job.phase = "publishing" => report.half = {}
  BY DEF AtInv, ResultsAt
<1>11. CASE ConfirmLanded(t)
  <2>1. job.phase = "publishing" /\ vault' = vault
    BY <1>11 DEF ConfirmLanded
  <2>2. CASE Landed(t) /\ report' = Result(t, "found") /\ left' = left \ {t} /\ job' = job
    BY <1>1, <1>2, <1>3, <1>6, <1>10, <2>1, <2>2
  <2>3. CASE Landed(t) /\ Stops(t, [job EXCEPT !.clean = FALSE], Result(t, "found"))
    BY <1>1, <1>2, <1>3, <1>6, <1>7, <1>8, <1>9, <1>10, <2>1, <2>3
  <2>4. CASE Stops(t, job, report)
    BY <1>0, <1>1, <1>2, <1>8, <1>10, <2>1, <2>4
  <2> QED
    BY <1>11, <2>2, <2>3, <2>4 DEF ConfirmLanded
<1>12. CASE Judge(t) \/ Act(t) \/ ActFinds(t) \/ Record(t)
  BY <1>1, <1>2, <1>10, <1>12 DEF Judge, Act, ActFinds, Record
<1>13. CASE JudgeStops(t)
  BY <1>0, <1>1, <1>2, <1>7, <1>8, <1>10, <1>13 DEF JudgeStops
<1>14. ASSUME NEW j \in Jobs, Stops(t, j, Interrupted(t)), act.on = t, act.step \in {"act", "judge"},
              vault' = vault
       PROVE  /\ report'.results = report.results /\ report'.half \ {t} = report.half
              /\ report'.withheld = report.withheld
              /\ job.phase = "publishing" /\ job'.phase = "confirming" /\ left' = left \ {t}
              /\ t \in report'.half => t \in Respelled \ left' /\ vault'[t].at = "old"
  <2>1. job.phase = "publishing"
    BY <1>14, PlanAssumption DEF ActInv
  <2>2. t \in Interrupted(t).half => t \in Respelled /\ vault[t].at = "old"
    BY <1>5, <1>14 DEF AtInv, FirstAt, ActAt
  <2> QED
    BY <1>5, <1>8, <1>9, <1>14, <2>1, <2>2
<1>15. CASE ActStops(t)
  BY <1>0, <1>1, <1>2, <1>7, <1>14, <1>15 DEF ActStops
<1>16. CASE SyncContent(t)
  <2>1. job'.phase = job.phase /\ UNCHANGED <<left, report>>
    BY <1>7, <1>16 DEF SyncContent, Faulted
  <2> QED
    BY <1>1, <1>2, <1>10, <2>1
<1>17. CASE JudgeRename(t)
  <2>1. CASE Stops(t, job, Interrupted(t))
    BY <1>0, <1>1, <1>2, <1>14, <1>17, <2>1 DEF JudgeRename
  <2>2. CASE UNCHANGED <<job, left, report>>
    BY <1>1, <1>2, <1>10, <2>2
  <2> QED
    BY <1>17, <2>1, <2>2 DEF JudgeRename
<1>18. CASE Sync(t) \/ SyncFails(t)
  <2>1. /\ act.on = t /\ act.step = "sync" /\ ~ContentStep(t) /\ vault' = vault
        /\ job.phase = "publishing"
    BY <1>18, PlanAssumption DEF Sync, SyncFails, ActInv
  <2>2. vault[t].at = "new"
    BY <2>1 DEF ContentStep, AtInv, ActAt, OneSpelling, Listed
  <2>3. CASE report' = Told(t) /\ left' = left \ {t} /\ job' = job
    BY <1>1, <1>2, <1>4, <1>10, <2>1, <2>2, <2>3
  <2>4. CASE Stops(t, job, Told(t)) \/ Stops(t, [job EXCEPT !.clean = FALSE], Told(t))
    BY <1>0, <1>1, <1>2, <1>4, <1>7, <1>8, <1>9, <1>10, <2>1, <2>2, <2>4
  <2> QED
    BY <1>18, <2>3, <2>4 DEF Sync, SyncFails
<1>19. CASE ConfirmRemaining(t)
  <2>1. /\ left' = left \ {t} /\ vault' = vault
        /\ job.phase = "confirming" /\ job'.phase = "confirming"
    BY <1>0, <1>19, RemainingJob DEF ConfirmRemaining, TypeOK
  <2>2. CASE Landed(t) /\ report' = Result(t, "found")
    BY <1>1, <1>2, <1>3, <1>6, <2>1, <2>2
  <2>3. CASE report' = report
    BY <1>1, <1>2, <2>1, <2>3
  <2> QED
    BY <1>19, <2>2, <2>3 DEF ConfirmRemaining
<1> QED
  BY <1>11, <1>12, <1>13, <1>15, <1>16, <1>17, <1>18, <1>19 DEF Publish

\* Publishing a target changes no other.
LEMMA PublishAlone ==
  ASSUME TypeOK, NEW t \in Targets, Publish(t)
  PROVE  /\ \A u \in Targets \ {t} : vault'[u] = vault[u]
         /\ vault' = vault \/ Act(t)
         /\ UNCHANGED <<store, rows>>
<1>0. vault \in [Targets -> Files]
  BY DEF TypeOK
<1>1. UNCHANGED <<store, rows>>
  BY Zenon DEF Publish, ConfirmLanded, Judge, JudgeStops, Act, ActFinds, ActStops,
     Record, SyncContent, JudgeRename, Sync, SyncFails, ConfirmRemaining
<1>2. vault' = vault \/ Act(t)
  BY Zenon DEF Publish, ConfirmLanded, Judge, JudgeStops, ActFinds, ActStops,
     Record, SyncContent, JudgeRename, Sync, SyncFails, ConfirmRemaining
<1> QED
  BY <1>0, <1>1, <1>2 DEF Act, Change

\* The ways a job ends.
LEMMA JobEnds ==
  ASSUME TypeOK,
         \/ Commit \/ CommitFails \/ NothingToCommit \/ Crash \/ PowerCut
         \/ \E t \in Targets : StageStops(t)
  PROVE  job'.phase = "idle"
<1>0. job \in Jobs /\ Answer \in {"applied", "interrupted", "refused"}
  BY DEF TypeOK, Answer
<1>1. \E a \in {"none", "applied", "interrupted", "refused"} :
          job' = Over(a) \/ Faulted(Over(a))
  BY <1>0 DEF Commit, CommitFails, NothingToCommit, Crash, PowerCut, Lose, StageStops
<1> QED
  BY <1>0, <1>1, JobOver

\* The steps that leave the job where it is.
Quiet ==
    \/ Settle \/ Suppress \/ Reconcile \/ Attach \/ TearDown \/ UNCHANGED vars
    \/ \E t \in Targets : Stage(t) \/ Expire(t) \/ ForeignWrite(t) \/ Sweep(t)

LEMMA QuietSteps ==
  ASSUME TypeOK, Quiet
  PROVE  /\ job'.phase = job.phase /\ UNCHANGED <<act, report, rows>> /\ left' \subseteq left
         /\ \A u \in Targets : vault'[u].at = vault[u].at
<1>0. job \in Jobs /\ vault \in [Targets -> Files]
  BY DEF TypeOK
<1>1. CASE Settle \/ Suppress \/ Reconcile \/ Attach \/ UNCHANGED vars
  BY <1>1 DEF Settle, Suppress, Reconcile, Attach, vars
<1>2. CASE TearDown \/ \E t \in Targets : Sweep(t)
  BY <1>0, <1>2 DEF TearDown, Sweep, Faulted, Jobs
<1>3. CASE \E t \in Targets : Stage(t) \/ Expire(t)
  BY <1>3 DEF Stage, Expire
<1>4. ASSUME NEW t \in Targets, ForeignWrite(t)
      PROVE  /\ job'.phase = job.phase /\ UNCHANGED <<act, report, rows, left>>
             /\ \A u \in Targets : vault'[u].at = vault[u].at
  <2>1. \A u \in Targets : ~Act(u)
    <3>1. act' = act /\ act \in Acts
      BY <1>4 DEF ForeignWrite, TypeOK
    <3> QED
      BY <3>1 DEF Act, Acts
  <2>2. ~PowerCut
    <3>1. budget' = [budget EXCEPT !.writes = @ + 1] /\ budget \in Budgets
      BY <1>4 DEF ForeignWrite, TypeOK
    <3>2. PowerCut => budget' = [budget EXCEPT !.faults = @ + 1]
      BY DEF PowerCut, Lose, Faulted, Fault
    <3> QED
      BY <3>1, <3>2, PlanAssumption DEF Budgets
  <2>3. [Next]_vars
    BY <1>4 DEF Next
  <2>4. UNCHANGED <<job, act, report, rows, left>>
    BY <1>4 DEF ForeignWrite
  <2> QED
    BY <2>1, <2>2, <2>3, <2>4, SpelledSteps
<1> QED
  BY <1>1, <1>2, <1>3, <1>4, Zenon DEF Quiet

\* Of them only a reconcile and an attach write the store.
LEMMA QuietStore ==
  ASSUME TypeOK, Quiet, ~Reconcile, ~Attach
  PROVE  store' = store /\ watch'.attached = watch.attached
<1>0. watch \in Watches
  BY DEF TypeOK
<1>1. CASE Settle \/ TearDown \/ UNCHANGED vars \/ \E u \in Targets : Stage(u) \/ Sweep(u)
  BY <1>0, <1>1 DEF Settle, TearDown, Stage, Sweep, vars, Watches
<1>2. CASE Suppress
  BY <1>0, <1>2, SuppressDoes DEF Suppress
<1>3. CASE \E u \in Targets : Expire(u) \/ ForeignWrite(u)
  BY <1>0, <1>3 DEF Expire, ForeignWrite, Reported, Watches
<1> QED
  BY <1>1, <1>2, <1>3 DEF Quiet

LEMMA NextSteps ==
  ASSUME [Next]_vars
  PROVE  \/ \E t \in Targets : Publish(t) \/ StageStops(t)
         \/ Begin \/ BeginPublishing \/ Published \/ ReadBack
         \/ Commit \/ CommitFails \/ NothingToCommit \/ Crash \/ PowerCut
         \/ Quiet
BY Zenon DEF Next, Quiet

LEMMA ResultsAtStep ==
  ASSUME TypeOK, Listed, ActInv, PastInv, ReportInv, AtInv, [Next]_vars
  PROVE  ResultsAt'
<1>0. report \in Reports /\ job \in Jobs /\ left \subseteq Targets
  BY DEF TypeOK
<1>1. ASSUME job'.phase = "idle" PROVE ResultsAt'
  BY <1>1 DEF ResultsAt
<1>2. ASSUME NEW t \in Targets, Publish(t) PROVE ResultsAt'
  <2>1. job.phase # "idle" /\ report.half \subseteq Targets
    BY <1>0, <1>2, PublishTells DEF Reports
  <2>2. \A u \in Targets : report'.results[u] # "none" => vault'[u].at = "new"
    <3> SUFFICES ASSUME NEW u \in Targets, report'.results[u] # "none" PROVE vault'[u].at = "new"
      OBVIOUS
    <3>1. CASE u = t
      BY <1>2, <3>1, PublishTells
    <3>2. CASE u # t
      <4>1. report.results[u] # "none" /\ vault'[u] = vault[u]
        BY <1>2, <3>2, PublishTells, PublishAlone
      <4> QED
        BY <2>1, <4>1 DEF AtInv, ResultsAt
    <3> QED
      BY <3>1, <3>2
  <2>3. \A u \in report'.half :
            u \in Respelled \ left' /\ vault'[u].at = "old" /\ report'.results[u] = "none"
    <3> SUFFICES ASSUME NEW u \in report'.half
                 PROVE  u \in Respelled \ left' /\ vault'[u].at = "old" /\ report'.results[u] = "none"
      OBVIOUS
    <3>1. CASE u = t
      BY <1>2, <3>1, PublishTells
    <3>2. CASE u # t
      <4>1. u \in report.half /\ u \in Targets /\ left' \subseteq left
        BY <1>2, <2>1, <3>2, PublishTells
      <4>2. vault'[u] = vault[u] /\ report'.results[u] = report.results[u]
        BY <1>2, <3>2, <4>1, PublishTells, PublishAlone
      <4> QED
        BY <2>1, <4>1, <4>2 DEF AtInv, ResultsAt
    <3> QED
      BY <3>1, <3>2
  <2>4. job'.phase \in {"staging", "publishing"} => report'.half = {}
    BY <1>2, PublishTells
  <2>5. report'.withheld = {}
    BY <1>2, <2>1, PublishTells DEF AtInv, ResultsAt
  <2> QED
    BY <2>2, <2>3, <2>4, <2>5 DEF ResultsAt
<1>3. CASE Begin
  BY <1>3 DEF Begin, NoReport, ResultsAt
<1>4. CASE BeginPublishing
  <2>1. CASE job' = [job EXCEPT !.phase = "publishing"]
    <3>1. job.phase = "staging" /\ job'.phase = "publishing" /\ report' = report
      BY <1>0, <1>4, <2>1 DEF BeginPublishing, Jobs
    <3>2. /\ report.half = {} /\ report.withheld = {}
          /\ \A t \in Targets : report.results[t] = "none"
      BY <3>1 DEF AtInv, ResultsAt, ReportInv
    <3> QED
      BY <3>1, <3>2 DEF ResultsAt
  <2>2. CASE job' = Over("stood_down")
    BY <1>0, <1>1, <2>2, JobOver
  <2> QED
    BY <1>4, <2>1, <2>2 DEF BeginPublishing
<1>5. CASE Published
  <2>1. /\ job.phase # "idle" /\ job'.phase = "answering" /\ UNCHANGED <<vault, left>>
    BY <1>0, <1>5 DEF Published, Jobs
  <2>2. /\ \A t \in Targets : report'.results[t] \in {report.results[t], "none"}
        /\ report'.half = report.half
    BY <1>0, <1>5, KeptReport DEF Published
  <2>3. report.half \subseteq Targets
    BY <1>0 DEF Reports
  <2>4. ASSUME NEW t \in report'.withheld PROVE report'.results[t] = "found"
    <3>1. CASE report' = KeepAvailableSources(report)
      <4>1. t \in Unavailable \cap Respelled
        BY <1>0, <2>4, <3>1, KeptReport
      <4>2. t \in Targets /\ report.results[t] = "found"
        BY <4>1, PlanAssumption DEF Unavailable
      <4> QED
        BY <1>0, <3>1, <4>1, <4>2, KeptReport
    <3>2. CASE job.phase = "publishing" /\ report' = report
      BY <2>4, <3>2 DEF AtInv, ResultsAt
    <3> QED
      BY <1>5, <3>1, <3>2 DEF Published
  <2> QED
    BY <2>1, <2>2, <2>3, <2>4 DEF AtInv, ResultsAt
<1>6. CASE ReadBack
  <2>1. /\ job.phase # "idle" /\ job'.phase = "committing" /\ UNCHANGED <<vault, left, report>>
    BY <1>0, <1>6 DEF ReadBack, Jobs
  <2> QED
    BY <2>1 DEF AtInv, ResultsAt
<1>7. CASE Commit \/ CommitFails \/ NothingToCommit \/ Crash \/ PowerCut
           \/ \E t \in Targets : StageStops(t)
  BY <1>1, <1>7, JobEnds
<1>8. CASE Quiet
  <2>1. /\ job'.phase = job.phase /\ report' = report /\ left' \subseteq left
        /\ \A u \in Targets : vault'[u].at = vault[u].at
    BY <1>8, QuietSteps
  <2>2. report.half \subseteq Targets
    BY <1>0 DEF Reports
  <2> QED
    BY <2>1, <2>2 DEF AtInv, ResultsAt
<1> QED
  BY <1>2, <1>3, <1>4, <1>5, <1>6, <1>7, <1>8, NextSteps

LEMMA AtStep ==
  ASSUME TypeOK, Listed, ActInv, PastInv, ReportInv, AtInv, [Next]_vars
  PROVE  AtInv'
<1>1. OneSpelling /\ ActAt /\ FirstAt
  BY DEF AtInv
<1> QED
  BY <1>1, OneSpellingStep, ActAtStep, FirstStep, ResultsAtStep DEF AtInv

----------------------------------------------------------------------------
(* Rows                                                                    *)

\* Rows are written only between the second look and the commit.
LEMMA RowsKeptStep ==
  ASSUME TypeOK, ActInv, RowsKept, [Next]_vars
  PROVE  RowsKept'
<1>0. job \in Jobs
  BY DEF TypeOK
<1>1. ASSUME job.phase # "committing", rows' = rows PROVE RowsKept'
  BY <1>1 DEF RowsKept
<1>2. ASSUME NEW t \in Targets, Publish(t) PROVE RowsKept'
  <2>1. rows' = rows
    BY <1>2, PublishAlone
  <2>2. job.phase \in {"publishing", "confirming"}
    BY <1>2, PlanAssumption
    DEF Publish, ConfirmLanded, Judge, JudgeStops, Act, ActFinds, ActStops, Record, SyncContent,
        JudgeRename, Sync, SyncFails, ConfirmRemaining, ActInv
  <2> QED
    BY <1>1, <2>1, <2>2
<1>3. CASE Begin \/ BeginPublishing \/ Published \/ NothingToCommit
           \/ \E t \in Targets : StageStops(t)
  <2>1. job.phase # "committing" /\ rows' = rows
    BY <1>3 DEF Begin, BeginPublishing, Published, NothingToCommit, StageStops
  <2> QED
    BY <1>1, <2>1
<1>4. CASE Commit \/ CommitFails \/ Crash \/ PowerCut
  BY <1>4 DEF Commit, CommitFails, Crash, PowerCut, Lose, RowsKept
<1>5. CASE ReadBack
  BY <1>0, <1>5 DEF ReadBack, RowsKept, Jobs
<1>6. CASE Quiet
  <2>1. rows' = rows /\ job'.phase = job.phase
    BY <1>6, QuietSteps
  <2> QED
    BY <2>1 DEF RowsKept
<1> QED
  BY <1>2, <1>3, <1>4, <1>5, <1>6, NextSteps

\* What a publication told of t makes of its rows, at a spelling.
LEMMA EffectsAt ==
  ASSUME NEW t \in Targets, NEW s \in Spellings, NEW x
  PROVE  <<<<t, s>>, x>> \in Effects <=>
            \/ s = "new" /\ report.results[t] # "none" /\ x = After[t]
            \/ s = "old" /\ t \in report.half /\ x = After[t]
            \/ /\ s = "old" /\ report.results[t] # "none"
               /\ t \in Respelled \ report.withheld /\ x = Nothing
<1> DEFINE E1 == {q \in Paths : \/ (report.results[q[1]] # "none" /\ q[2] = "new")
                               \/ (q[1] \in report.half /\ q[2] = "old")}
           E2 == {q \in Paths : /\ report.results[q[1]] # "none" /\ q[2] = "old"
                                /\ q[1] \in Respelled \ report.withheld}
<1>1. Effects = {<<p, After[p[1]]>> : p \in E1} \cup {<<p, Nothing>> : p \in E2}
  BY DEF Effects
<1>2. /\ <<t, s>> \in Paths /\ <<t, s>>[1] = t /\ <<t, s>>[2] = s
      /\ "old" # "new"
  BY DEF Paths
<1>3. /\ <<t, s>> \in E1 <=>
            \/ report.results[t] # "none" /\ s = "new"
            \/ t \in report.half /\ s = "old"
      /\ <<t, s>> \in E2 <=>
            report.results[t] # "none" /\ t \in Respelled \ report.withheld /\ s = "old"
  BY <1>2
<1> HIDE DEF E1, E2
<1>4. <<<<t, s>>, x>> \in {<<p, After[p[1]]>> : p \in E1} <=> <<t, s>> \in E1 /\ x = After[t]
  BY <1>2
<1>5. <<<<t, s>>, x>> \in {<<p, Nothing>> : p \in E2} <=> <<t, s>> \in E2 /\ x = Nothing
  BY <1>2
<1> QED
  BY <1>1, <1>3, <1>4, <1>5

\* An effect is of a path and a content.
LEMMA EffectsPair == \A e \in Effects : e = <<e[1], e[2]>>
BY DEF Effects

\* The rows the second look writes of a target published, cut short, or neither.
LEMMA ReadBackRows ==
  ASSUME TypeOK, Listed, AtInv, ReadBack, NEW t \in Targets
  PROVE  /\ report.results[t] # "none" =>
               /\ vault[t].at = "new"
               /\ rows'[<<t, "new">>] = IF vault[t].bytes = After[t] THEN After[t] ELSE Kept
               /\ rows'[<<t, "old">>] =
                      IF t \in Respelled \ report.withheld THEN Nothing ELSE Kept
               /\ t \in report.withheld => report.results[t] = "found"
         /\ t \in report.half =>
               /\ vault[t].at = "old" /\ t \in Respelled /\ report.results[t] = "none"
               /\ rows'[<<t, "old">>] = IF vault[t].bytes = After[t] THEN After[t] ELSE Kept
               /\ rows'[<<t, "new">>] = Kept
         /\ report.results[t] = "none" /\ t \notin report.half =>
               rows'[<<t, "old">>] = Kept /\ rows'[<<t, "new">>] = Kept
<1>1. job.phase = "answering"
  BY DEF ReadBack
<1>2. /\ report.results[t] # "none" => vault[t].at = "new" /\ t \notin report.half
      /\ t \in report.half => t \in Respelled /\ vault[t].at = "old"
      /\ t \in report.withheld => report.results[t] = "found"
  BY <1>1 DEF AtInv, ResultsAt
<1>3. ASSUME NEW s \in Spellings, NEW x, <<<<t, s>>, x>> \in Effects,
             \A y : <<<<t, s>>, y>> \in Effects => y = x
      PROVE  rows'[<<t, s>>] = IF Readable(<<<<t, s>>, x>>) THEN x ELSE Kept
  <2> DEFINE p == <<t, s>>
  <2>1. p \in Paths
    BY DEF Paths
  <2>2. \A e \in Effects : e[1] = p => e = <<p, x>>
    BY <1>3, EffectsPair
  <2>3. (CHOOSE e \in Effects : e[1] = p) = <<p, x>>
    BY <1>3, <2>2
  <2>4. rows'[p] = IF \E e \in Effects : e[1] = p /\ Readable(e)
                   THEN (CHOOSE e \in Effects : e[1] = p)[2] ELSE Kept
    BY <2>1 DEF ReadBack
  <2>5. (\E e \in Effects : e[1] = p /\ Readable(e)) <=> Readable(<<p, x>>)
    BY <1>3, <2>2
  <2>6. (CHOOSE e \in Effects : e[1] = p)[2] = x
    <3>1. \A c : c = <<p, x>> => c[2] = x
      OBVIOUS
    <3> QED
      BY <2>3, <3>1, Zenon
  <2> QED
    BY <2>4, <2>5, <2>6, Zenon
<1>4. ASSUME NEW s \in Spellings, \A x : <<<<t, s>>, x>> \notin Effects
      PROVE  rows'[<<t, s>>] = Kept
  <2>1. <<t, s>> \in Paths /\ \A e \in Effects : e[1] # <<t, s>>
    BY <1>4, EffectsPair DEF Paths
  <2> QED
    BY <2>1 DEF ReadBack
<1>5. "old" \in Spellings /\ "new" \in Spellings /\ "old" # "new"
  BY DEF Spellings
<1>6. /\ Listing(vault)[<<t, "new">>] = IF vault[t].at = "new" THEN vault[t].bytes ELSE Nothing
      /\ Listing(vault)[<<t, "old">>] = IF vault[t].at = "old" THEN vault[t].bytes ELSE Nothing
  BY <1>5 DEF Listing, Paths
<1>7. \A s \in Spellings : \A x : Readable(<<<<t, s>>, x>>) =
          IF x = Nothing THEN Listing(vault)[<<t, s>>] = Nothing ELSE vault[t].bytes = x
  BY DEF Readable
<1>8. CASE report.results[t] # "none"
  <2>1. vault[t].at = "new" /\ t \notin report.half
    BY <1>2, <1>8
  <2>2. rows'[<<t, "new">>] = IF Readable(<<<<t, "new">>, After[t]>>) THEN After[t] ELSE Kept
    BY <1>3, <1>5, <1>8, EffectsAt
  <2>3. Readable(<<<<t, "new">>, After[t]>>) <=> vault[t].bytes = After[t]
    BY <1>5, <1>6, <1>7, <2>1
  <2>4. CASE t \in Respelled \ report.withheld
    <3>1. rows'[<<t, "old">>] = IF Readable(<<<<t, "old">>, Nothing>>) THEN Nothing ELSE Kept
      BY <1>3, <1>5, <1>8, <2>1, <2>4, EffectsAt
    <3>2. Readable(<<<<t, "old">>, Nothing>>)
      BY <1>5, <1>6, <1>7, <2>1
    <3> QED
      BY <1>2, <1>8, <2>1, <2>2, <2>3, <2>4, <3>1, <3>2
  <2>5. CASE t \notin Respelled \ report.withheld
    <3>1. rows'[<<t, "old">>] = Kept
      BY <1>4, <1>5, <2>1, <2>5, EffectsAt
    <3> QED
      BY <1>2, <1>8, <2>1, <2>2, <2>3, <2>5, <3>1
  <2> QED
    BY <2>4, <2>5
<1>9. CASE t \in report.half
  <2>1. vault[t].at = "old" /\ t \in Respelled /\ report.results[t] = "none"
    BY <1>2, <1>9
  <2>2. rows'[<<t, "old">>] = IF Readable(<<<<t, "old">>, After[t]>>) THEN After[t] ELSE Kept
    BY <1>3, <1>5, <1>9, <2>1, EffectsAt
  <2>3. Readable(<<<<t, "old">>, After[t]>>) <=> vault[t].bytes = After[t]
    BY <1>5, <1>7, <2>1, PlanAssumption
  <2>4. rows'[<<t, "new">>] = Kept
    BY <1>4, <1>5, <2>1, EffectsAt
  <2> QED
    BY <1>9, <2>1, <2>2, <2>3, <2>4
<1>10. CASE report.results[t] = "none" /\ t \notin report.half
  BY <1>4, <1>5, <1>10, EffectsAt
<1> QED
  BY <1>8, <1>9, <1>10

\* A target is not listed where it does not stand, nor will be.
LEMMA RowsAtStep ==
  ASSUME TypeOK, Listed, ActInv, ShadowInv, AtInv, AtInv', Listed', RowsKept, RowsAt, [Next]_vars
  PROVE  RowsAt'
<1>0. /\ watch \in Watches /\ store \in [Paths -> Bytes] /\ job \in Jobs
      /\ \A t \in Targets : <<t, "old">> \in Paths /\ <<t, "new">> \in Paths
      /\ vault \in [Targets -> Files] /\ Kept # Nothing
  BY KeptAssumption DEF TypeOK, Paths, Spellings, Bytes
<1> SUFFICES ASSUME watch'.attached, NEW t \in Targets
             PROVE  /\ t \notin Respelled => Blank(<<t, "old">>)'
                    /\ vault'[t].at = "old" => Blank(<<t, "new">>)'
  BY DEF RowsAt
<1>1. ASSUME watch.attached, UNCHANGED <<store, rows>>, vault'[t].at \in {vault[t].at, "new"}
      PROVE  /\ t \notin Respelled => Blank(<<t, "old">>)'
             /\ vault'[t].at = "old" => Blank(<<t, "new">>)'
  BY <1>1 DEF RowsAt, Blank
<1>2. job.phase # "idle" => watch.attached
  BY DEF ShadowInv
<1>3. t \notin Respelled => vault[t].at = "new"
  BY DEF AtInv, OneSpelling, Listed
<1>4. /\ Listing(vault)[<<t, "new">>] = IF vault[t].at = "new" THEN vault[t].bytes ELSE Nothing
      /\ Listing(vault)[<<t, "old">>] = IF vault[t].at = "old" THEN vault[t].bytes ELSE Nothing
  BY <1>0 DEF Listing
<1>5. ASSUME NEW u \in Targets, Publish(u)
      PROVE  UNCHANGED <<store, rows>> /\ watch.attached /\ vault'[t].at \in {vault[t].at, "new"}
  <2>1. job.phase # "idle"
    BY <1>5, PlanAssumption
    DEF Publish, ConfirmLanded, Judge, JudgeStops, Act, ActFinds, ActStops, Record, SyncContent,
        JudgeRename, Sync, SyncFails, ConfirmRemaining, ActInv
  <2>2. UNCHANGED <<store, rows>>
    BY <1>5, PublishAlone
  <2>3. vault'[t].at \in {vault[t].at, "new"}
    <3>1. CASE t # u \/ vault' = vault
      BY <1>5, <3>1, PublishAlone
    <3>2. CASE Act(t)
      BY <3>2, ActSpells DEF AtInv
    <3> QED
      BY <1>5, <3>1, <3>2, PublishAlone
  <2> QED
    BY <1>2, <2>1, <2>2, <2>3
<1>6. CASE Begin \/ BeginPublishing \/ Published \/ NothingToCommit
           \/ \E u \in Targets : StageStops(u)
  <2>1. UNCHANGED <<store, rows, vault>>
    BY <1>6 DEF Begin, BeginPublishing, Published, NothingToCommit, StageStops
  <2>2. watch' = watch \/ watch' = Returned({})
    BY <1>6 DEF Begin, BeginPublishing, Published, NothingToCommit, StageStops
  <2>3. watch.attached
    BY <1>0, <2>2, ReturnedKeeps
  <2> QED
    BY <1>1, <2>1, <2>3
<1>7. CASE ReadBack
  <2>1. watch.attached /\ UNCHANGED <<store, vault>>
    BY <1>2, <1>7 DEF ReadBack
  <2>2. /\ t \notin Respelled => rows'[<<t, "old">>] \in {Kept, Nothing}
        /\ vault[t].at = "old" => rows'[<<t, "new">>] \in {Kept, Nothing}
    BY <1>7, ReadBackRows
  <2> QED
    BY <2>1, <2>2 DEF RowsAt, Blank
<1>8. CASE Commit
  <2>1. watch.attached /\ vault' = vault
    BY <1>2, <1>8 DEF Commit
  <2>2. /\ \A p \in Paths : store'[p] = IF rows[p] = Kept THEN store[p] ELSE rows[p]
        /\ \A p \in Paths : rows'[p] = Kept
    BY <1>8 DEF Commit
  <2> QED
    BY <1>0, <2>1, <2>2 DEF RowsAt, Blank
<1>9. CASE CommitFails
  <2>1. watch.attached /\ vault' = vault /\ store' = store /\ \A p \in Paths : rows'[p] = Kept
    BY <1>2, <1>9 DEF CommitFails
  <2> QED
    BY <1>0, <2>1 DEF RowsAt, Blank
<1>10. CASE Crash \/ PowerCut
  BY <1>10 DEF Crash, PowerCut, Lose, Unattached
<1>11. CASE Reconcile
  <2>1. watch.attached /\ UNCHANGED <<vault, rows>>
    BY <1>11 DEF Reconcile
  <2>2. \A s \in Spellings : store'[<<t, s>>] \in {store[<<t, s>>], Listing(vault)[<<t, s>>]}
    BY <1>11 DEF Reconcile, Paths
  <2> QED
    BY <1>3, <1>4, <2>1, <2>2 DEF RowsAt, Blank, Spellings
<1>12. CASE Attach
  <2>1. UNCHANGED <<vault, rows>> /\ store' = Listing(vault) /\ job.phase = "idle"
    BY <1>2, <1>12 DEF Attach
  <2>2. \A p \in Paths : rows[p] = Kept
    BY <2>1 DEF RowsKept
  <2> QED
    BY <1>0, <1>3, <1>4, <2>1, <2>2 DEF Blank
<1>13. CASE Quiet /\ ~Reconcile /\ ~Attach
  <2>1. UNCHANGED rows /\ vault'[t].at = vault[t].at
    BY <1>13, QuietSteps
  <2>2. store' = store /\ watch.attached
    BY <1>13, QuietStore
  <2> QED
    BY <1>1, <2>1, <2>2
<1> QED
  BY <1>1, <1>5, <1>6, <1>7, <1>8, <1>9, <1>10, <1>11, <1>12, <1>13, NextSteps

----------------------------------------------------------------------------
(* Reports on their way                                                    *)

\* A report on its way stays so while its entry and what it is compared with do.
LEMMA ReachedStays ==
  ASSUME NEW t \in Targets, vault'[t].bytes = vault[t].bytes, vault'[t].stamp = vault[t].stamp,
         watch.owed \subseteq watch'.owed, watch.seen \subseteq watch'.seen,
         watch'.ledger[t] = watch.ledger[t],
         watch'.comparing = watch.comparing, watch'.batch[t] = watch.batch[t]
  PROVE  Reached(t) => Reached(t)'
BY DEF Reached, Differs

\* What no file is, is never taken for the plan's own write.
LEMMA UnexpectedDiffers ==
  ASSUME TypeOK, NEW t \in Targets
  PROVE  Differs(t, Unexpected)
<1>1. vault[t] \in Files
  BY DEF TypeOK
<1>2. vault[t].stamp \in Nat
  BY <1>1, PlanAssumption DEF Files, Stamps
<1>3. /\ Unexpected.stamp = -1
      /\ [bytes |-> vault[t].bytes, stamp |-> vault[t].stamp].stamp = vault[t].stamp
  BY DEF Unexpected
<1>4. Unexpected.stamp # [bytes |-> vault[t].bytes, stamp |-> vault[t].stamp].stamp
  BY <1>2, <1>3
<1> QED
  BY <1>4, Zenon DEF Differs

\* A change another writer makes is on its way to be derived.
LEMMA ForeignReaches ==
  ASSUME TypeOK, TypeOK', StampInv, watch.attached, LeavesAbsencesBe,
         NEW u \in Targets, ForeignWrite(u)
  PROVE  /\ Reached(u)'
         /\ \A t \in Targets : Reached(t) => Reached(t)'
         /\ \A t \in Targets \ {u} : vault'[t] = vault[t]
         /\ watch'.attached
<1>0. /\ vault \in [Targets -> Files] /\ watch \in Watches /\ budget \in Budgets
      /\ vault[u] \in Files /\ watch.ledger[u] \in Expected \cup {Unexpected}
  BY DEF TypeOK, Watches
<1>1. /\ watch'.attached /\ watch'.seen = watch.seen \cup {u} /\ watch'.ledger = watch.ledger
      /\ watch'.comparing = watch.comparing /\ watch'.batch = watch.batch
      /\ watch'.owed = watch.owed
  BY <1>0 DEF ForeignWrite, Reported, Watches
<1>2. \A t \in Targets \ {u} : vault'[t] = vault[t]
  BY <1>0 DEF ForeignWrite, Change
<1>3. Differs(u, watch.ledger[u])'
  <2> DEFINE now == [bytes |-> vault'[u].bytes, stamp |-> vault'[u].stamp]
  <2>1. CASE vault'[u] = Removed(u)
    <3>1. vault'[u].bytes = Nothing /\ vault'[u].stamp = 0
      BY <1>0, <2>1 DEF Removed, Files
    <3>2. watch.ledger[u] # [bytes |-> Nothing, stamp |-> 0]
      BY <3>1 DEF LeavesAbsencesBe
    <3> QED
      BY <1>1, <3>1, <3>2 DEF Differs
  <2>2. ASSUME NEW b \in {Before[u], After[u], Other} \ {Nothing},
               vault'[u] = [vault[u] EXCEPT !.bytes = b, !.stamp = Attempts + budget'.writes]
        PROVE  Differs(u, watch.ledger[u])'
    <3>1. vault'[u].stamp = Attempts + budget'.writes
      BY <1>0, <2>2 DEF Files
    <3>2. budget'.writes = budget.writes + 1
      BY <1>0 DEF ForeignWrite, Budgets
    <3>3. vault'[u].stamp = Last + 1 /\ Last \in Nat
      BY <1>0, <3>1, <3>2, PlanAssumption DEF Last, Budgets
    <3>4. watch.ledger[u].stamp \in Int /\ watch.ledger[u].stamp <= Last
      BY <1>0, PlanAssumption DEF Expected, Unexpected, Stamps, StampInv
    <3>5. watch.ledger[u].stamp # now.stamp
      BY <3>3, <3>4
    <3>6. watch.ledger[u] # now
      BY <3>5, Zenon
    <3> QED
      BY <1>1, <3>6 DEF Differs
  <2>3. \/ vault'[u] = Removed(u)
        \/ \E b \in {Before[u], After[u], Other} \ {Nothing} :
               vault'[u] = [vault[u] EXCEPT !.bytes = b, !.stamp = Attempts + budget'.writes]
    BY <1>0 DEF ForeignWrite, Change
  <2> QED
    BY <2>1, <2>2, <2>3
<1>4. Reached(u)'
  BY <1>1, <1>3 DEF Reached
<1>5. \A t \in Targets : Reached(t) => Reached(t)'
  BY <1>1, <1>2, <1>4, ReachedStays
<1> QED
  BY <1>1, <1>2, <1>4, <1>5

\* The steps that leave the job where it is lose no report and hide no change,
\* but those that derive what is owed.
LEMMA QuietReaches ==
  ASSUME TypeOK, TypeOK', StampInv, LeavesAbsencesBe, watch.attached,
         Quiet, ~Reconcile, ~Attach, NEW t \in Targets
  PROVE  /\ Reached(t) => Reached(t)'
         /\ vault'[t] = vault[t] \/ Reached(t)'
         /\ store' = store /\ watch'.attached
<1>0. watch \in Watches /\ watch.comparing \subseteq Targets
  BY DEF TypeOK, Watches
<1>1. ASSUME NEW u \in Targets, ForeignWrite(u)
      PROVE  /\ Reached(t) => Reached(t)'
             /\ vault'[t] = vault[t] \/ Reached(t)'
             /\ store' = store /\ watch'.attached
  <2>1. store' = store
    BY <1>1 DEF ForeignWrite
  <2> QED
    BY <1>1, <2>1, ForeignReaches
<1>2. CASE TearDown \/ UNCHANGED vars \/ \E u \in Targets : Stage(u) \/ Sweep(u)
  <2>1. UNCHANGED <<vault, store, watch>>
    BY <1>2 DEF TearDown, Stage, Sweep, vars
  <2> QED
    BY <2>1, ReachedStays
<1>3. CASE Settle
  <2> DEFINE B == [u \in Targets |-> IF u \in watch.seen THEN watch.ledger[u] ELSE Unexpected]
  <2>1. /\ UNCHANGED <<vault, store>> /\ watch.comparing = {}
        /\ watch' = [watch EXCEPT !.seen = {}, !.comparing = watch.seen, !.batch = B]
    BY <1>3 DEF Settle
  <2>2. t \in watch.seen => B[t] = watch.ledger[t]
    OBVIOUS
  <2> HIDE DEF B
  <2>3. /\ watch'.attached /\ watch'.comparing = watch.seen /\ watch'.batch = B
        /\ watch'.owed = watch.owed
    BY <1>0, <2>1 DEF Watches
  <2> QED
    BY <2>1, <2>2, <2>3 DEF Reached, Differs
<1>4. CASE Suppress
  <2>1. UNCHANGED <<vault, store>>
    BY <1>4 DEF Suppress
  <2>2. /\ watch'.attached /\ watch'.seen = watch.seen
        /\ watch'.owed = watch.owed \cup {u \in watch.comparing : ~Echo(u)}
        /\ watch'.ledger[t] \in {watch.ledger[t], Unexpected}
    BY <1>0, <1>4, SuppressDoes
  <2>3. Differs(t, watch.ledger[t]) => Differs(t, watch.ledger[t])'
    BY <2>1, <2>2, UnexpectedDiffers DEF Differs
  <2>4. Differs(t, watch.batch[t]) => ~Echo(t)
    BY DEF Differs, Echo
  <2> QED
    BY <2>1, <2>2, <2>3, <2>4 DEF Reached
<1>5. ASSUME NEW u \in Targets, Expire(u)
      PROVE  /\ Reached(t) => Reached(t)'
             /\ vault'[t] = vault[t] \/ Reached(t)'
             /\ store' = store /\ watch'.attached
  <2>1. UNCHANGED <<vault, store>>
    BY <1>5 DEF Expire
  <2>2. watch' = [watch EXCEPT !.ledger[u] = Unexpected]
    BY <1>5 DEF Expire
  <2>3. /\ watch'.attached /\ watch'.seen = watch.seen /\ watch'.owed = watch.owed
        /\ watch'.comparing = watch.comparing /\ watch'.batch = watch.batch
        /\ watch'.ledger[t] \in {watch.ledger[t], Unexpected}
    BY <1>0, <2>2 DEF Watches
  <2>4. Differs(t, watch.ledger[t]) => Differs(t, watch.ledger[t])'
    BY <2>1, <2>3, UnexpectedDiffers DEF Differs
  <2> QED
    BY <2>1, <2>3, <2>4 DEF Reached, Differs
<1> QED
  BY <1>1, <1>2, <1>3, <1>4, <1>5 DEF Quiet

----------------------------------------------------------------------------
(* What publication owes the store                                         *)

\* The publication under way is of the target being published, before and after.
LEMMA PublishActOn ==
  ASSUME TypeOK, ActInv, NEW t \in Targets, Publish(t)
  PROVE  /\ act.on \in {t, NoTarget} /\ act'.on \in {t, NoTarget}
         /\ job.phase \in {"publishing", "confirming"}
<1>0. act \in Acts /\ NoAct.on = NoTarget /\ NoAct \in Acts
  BY PlanAssumption DEF TypeOK, NoAct, Acts, Stamps
<1>1. job.phase \in {"publishing", "confirming"}
  BY PlanAssumption
  DEF Publish, ConfirmLanded, Judge, JudgeStops, Act, ActFinds, ActStops, Record, SyncContent,
      JudgeRename, Sync, SyncFails, ConfirmRemaining, ActInv
<1>2. CASE ConfirmLanded(t) \/ JudgeStops(t) \/ ActStops(t) \/ Sync(t) \/ SyncFails(t)
  BY <1>0, <1>1, <1>2 DEF ConfirmLanded, JudgeStops, ActStops, Sync, SyncFails, Stops
<1>3. CASE Judge(t)
  BY <1>0, <1>1, <1>3 DEF Judge, Acts
<1>4. CASE Act(t) \/ ActFinds(t) \/ Record(t) \/ SyncContent(t)
  BY <1>0, <1>1, <1>4 DEF Act, ActFinds, Record, SyncContent, Acts
<1>5. CASE JudgeRename(t)
  BY <1>0, <1>1, <1>5 DEF JudgeRename, Stops, Acts
<1>6. CASE ConfirmRemaining(t)
  BY <1>1, <1>6 DEF ConfirmRemaining, ActInv
<1> QED
  BY <1>2, <1>3, <1>4, <1>5, <1>6 DEF Publish

\* Nothing is owed for another target than the one being published.
LEMMA OthersPend ==
  ASSUME TypeOK, Listed, ActInv, ReportInv, AtInv, NEW t \in Targets, Publish(t),
         NEW u \in Targets \ {t}
  PROVE  Pends(u)' <=> Pends(u)
<1>1. /\ job.phase \in {"publishing", "confirming"} /\ job'.phase \in {"publishing", "confirming"}
      /\ report'.results[u] = report.results[u]
      /\ u \in report'.half <=> u \in report.half
  BY PublishTells
<1>2. ~Changing(u) /\ ~Changing(u)'
  BY PublishActOn, PlanAssumption DEF Changing
<1> QED
  BY <1>1, <1>2 DEF Pends

\* But for the act itself, publishing a target tells what it had changed, and
\* no more.
LEMMA PublishPends ==
  ASSUME TypeOK, Listed, ActInv, ReportInv, AtInv, NEW t \in Targets, Publish(t), ~Act(t)
  PROVE  Pends(t)' <=> Pends(t)
<1>0. /\ act \in Acts /\ NoAct \in Acts /\ job \in Jobs /\ report \in Reports
      /\ NoAct.on = NoTarget /\ NoAct.first = "none" /\ t # NoTarget
  BY PlanAssumption DEF TypeOK, NoAct, Acts, Stamps
<1>1. /\ job.phase \in {"publishing", "confirming"} /\ job'.phase \in {"publishing", "confirming"}
      /\ report.results[t] = "none" /\ t \notin report.half
  BY PublishTells DEF ReportInv, AtInv, ResultsAt
<1>2. Pends(t) <=> Changing(t)
  BY <1>1 DEF Pends
<1>3. Pends(t)' <=> report'.results[t] = "wrote" \/ t \in report'.half \/ Changing(t)'
  BY <1>1 DEF Pends
<1>4. ASSUME NEW j, NEW r \in Reports, Stops(t, j, r)
      PROVE  /\ report'.results = r.results /\ report'.half = r.half /\ ~Changing(t)'
  BY <1>0, <1>4 DEF Stops, Changing, Reports
<1>5. Result(t, "found") \in Reports /\ Told(t) \in Reports /\ Interrupted(t) \in Reports
  BY <1>0, ReportTypes
<1>6. /\ Result(t, "found").results[t] = "found" /\ Result(t, "found").half = report.half
      /\ Told(t).half = report.half
      /\ Told(t).results[t] = IF act.found /\ act.first = "none" THEN "found" ELSE "wrote"
      /\ t \in Interrupted(t).half <=> act.first # "none"
      /\ Interrupted(t).results = report.results
  <2>1. \A x \in {"found", "wrote"} :
            Result(t, x) \in Reports /\ Result(t, x).results[t] = x /\ Result(t, x).half = report.half
    BY <1>0 DEF Result, Reports
  <2> QED
    BY <1>0, <1>1, <2>1 DEF Told, Interrupted, Reports
<1>7. CASE ConfirmLanded(t)
  <2>1. act = NoAct /\ ~Changing(t)
    BY <1>0, <1>7 DEF ConfirmLanded, Changing
  <2>2. CASE report' = Result(t, "found") /\ act' = act
    BY <1>0, <1>1, <1>2, <1>3, <1>6, <2>1, <2>2 DEF Changing
  <2>3. CASE Stops(t, [job EXCEPT !.clean = FALSE], Result(t, "found")) \/ Stops(t, job, report)
    BY <1>0, <1>1, <1>2, <1>3, <1>4, <1>5, <1>6, <2>1, <2>3
  <2> QED
    BY <1>7, <2>2, <2>3 DEF ConfirmLanded
<1>8. CASE Judge(t)
  <2>1. ~Changing(t) /\ report' = report
    BY <1>0, <1>8 DEF Judge, Changing
  <2>2. ~Changing(t)'
    BY <1>0, <1>8 DEF Judge, Changing, Acts
  <2> QED
    BY <1>1, <1>2, <1>3, <2>1, <2>2
<1>9. CASE JudgeStops(t)
  <2>1. ~Changing(t)
    BY <1>0, <1>9 DEF JudgeStops, Changing
  <2> QED
    BY <1>0, <1>1, <1>2, <1>3, <1>4, <1>9, <2>1 DEF JudgeStops
<1>10. CASE ActFinds(t)
  <2>1. act.on = t /\ act.step = "act" /\ report' = report
        /\ act' = [act EXCEPT !.step = "sync", !.found = TRUE]
    BY <1>10 DEF ActFinds
  <2>2. Changing(t)' <=> Changing(t)
    BY <1>0, <2>1 DEF Changing, Acts
  <2> QED
    BY <1>1, <1>2, <1>3, <2>1, <2>2
<1>11. CASE ActStops(t) \/ (JudgeRename(t) /\ Stops(t, job, Interrupted(t)))
  <2>1. act.on = t /\ act.step \in {"act", "judge"}
    BY <1>11 DEF ActStops, JudgeRename
  <2>2. Changing(t) <=> act.first # "none"
    BY <2>1 DEF Changing
  <2>3. \E j : Stops(t, j, Interrupted(t))
    BY <1>11 DEF ActStops
  <2> QED
    BY <1>1, <1>2, <1>3, <1>4, <1>5, <1>6, <2>2, <2>3
<1>12. CASE Record(t)
  <2>1. act.on = t /\ act.step = "record" /\ report' = report
        /\ act' = [act EXCEPT !.step = "sync"] /\ ~act.found
    BY <1>0, <1>12 DEF Record, ActInv
  <2>2. Changing(t)' /\ Changing(t)
    BY <1>0, <2>1 DEF Changing, Acts
  <2> QED
    BY <1>1, <1>2, <1>3, <2>1, <2>2
<1>13. CASE SyncContent(t)
  <2>1. act.on = t /\ act.step = "sync" /\ report' = report /\ ~act.found
    BY <1>13 DEF SyncContent, ContentStep
  <2>2. Changing(t)' /\ Changing(t)
    BY <1>0, <1>13, <2>1 DEF SyncContent, Changing, Acts
  <2> QED
    BY <1>1, <1>2, <1>3, <2>1, <2>2
<1>14. CASE JudgeRename(t) /\ ~Stops(t, job, Interrupted(t))
  <2>1. act.on = t /\ act.step = "judge" /\ report' = report
    BY <1>14 DEF JudgeRename
  <2>2. Changing(t)' <=> Changing(t)
    BY <1>0, <1>14, <2>1 DEF JudgeRename, Changing, Acts
  <2> QED
    BY <1>1, <1>2, <1>3, <2>1, <2>2
<1>15. CASE Sync(t) \/ SyncFails(t)
  <2>1. act.on = t /\ act.step = "sync"
    BY <1>15 DEF Sync, SyncFails
  <2>2. Changing(t) <=> ~(act.found /\ act.first = "none")
    BY <2>1 DEF Changing
  <2>3. CASE Sync(t)
    <3>1. report' = Told(t) /\ act' = NoAct
      BY <2>3 DEF Sync
    <3> QED
      BY <1>0, <1>1, <1>2, <1>3, <1>6, <2>2, <3>1 DEF Changing
  <2>4. CASE SyncFails(t)
    <3>1. \E j : Stops(t, j, Told(t))
      BY <2>4 DEF SyncFails
    <3> QED
      BY <1>1, <1>2, <1>3, <1>4, <1>5, <1>6, <2>2, <3>1
  <2> QED
    BY <1>15, <2>3, <2>4
<1>16. CASE ConfirmRemaining(t)
  <2>1. act' = act /\ act.on # t /\ ~Changing(t) /\ ~Changing(t)'
    BY <1>0, <1>16 DEF ConfirmRemaining, ActInv, Changing
  <2>2. report' = report \/ report' = Result(t, "found")
    BY <1>16 DEF ConfirmRemaining
  <2> QED
    BY <1>1, <1>2, <1>3, <1>6, <2>1, <2>2
<1> QED
  BY <1>7, <1>8, <1>9, <1>10, <1>11, <1>12, <1>13, <1>14, <1>15, <1>16 DEF Publish

\* Publication writes to the coverage only by its act and its record.
LEMMA PublishWatches ==
  ASSUME NEW t \in Targets, Publish(t), ~Act(t), ~Record(t)
  PROVE  watch' = watch
BY Zenon DEF Publish, ConfirmLanded, Judge, JudgeStops, ActFinds, ActStops,
   SyncContent, JudgeRename, Sync, SyncFails, ConfirmRemaining

----------------------------------------------------------------------------
(* Renames                                                                 *)

\* Publishing a target renames it only as it was judged to hold the plan's bytes.
LEMMA PublishRenames ==
  ASSUME TypeOK, ActInv, NEW t \in Targets, Publish(t), NEW u \in Targets,
         act'.on = u, act'.step = "act", act'.respelling
  PROVE  u = t /\ vault' = vault /\ vault[t].bytes = After[t]
<1>0. /\ act \in Acts /\ NoAct \in Acts /\ NoAct.on = NoTarget /\ u # NoTarget /\ t # NoTarget
  BY PlanAssumption DEF TypeOK, NoAct, Acts, Stamps
<1>1. u = t
  BY <1>0, PublishActOn
<1>2. CASE Judge(t)
  <2>1. vault' = vault
    BY <1>2 DEF Judge
  <2>2. CASE Landed(t) /\ act' = [NoAct EXCEPT !.on = t, !.step = "sync", !.found = TRUE]
    BY <1>0, <2>2 DEF Acts
  <2>3. CASE /\ AtBefore(t)
             /\ act' = [NoAct EXCEPT !.on = t, !.step = "act", !.stamp = vault[t].stamp,
                            !.respelling = t \in Respelled /\ Before[t] = After[t]]
    BY <1>0, <1>1, <2>1, <2>3 DEF AtBefore, Acts
  <2>4. CASE Halfway(t)
    BY <1>1, <2>1, <2>4 DEF Halfway
  <2> QED
    BY <1>2, <2>2, <2>3, <2>4 DEF Judge
<1>3. CASE JudgeRename(t)
  <2>1. vault' = vault
    BY <1>3 DEF JudgeRename
  <2>2. CASE Halfway(t)
    BY <1>1, <2>1, <2>2 DEF Halfway
  <2>3. CASE ~Halfway(t)
    BY <1>0, <1>3, <2>3 DEF JudgeRename, Stops, Acts
  <2> QED
    BY <2>2, <2>3
<1>4. CASE Act(t) \/ ActFinds(t) \/ Record(t) \/ SyncContent(t)
  BY <1>0, <1>4 DEF Act, ActFinds, Record, SyncContent, Acts
<1>5. CASE ConfirmLanded(t) \/ JudgeStops(t) \/ ActStops(t) \/ Sync(t) \/ SyncFails(t)
  <2>1. act' = NoAct \/ (act = NoAct /\ act' = act)
    BY <1>5 DEF ConfirmLanded, JudgeStops, ActStops, Sync, SyncFails, Stops
  <2> QED
    BY <1>0, <2>1
<1>6. CASE ConfirmRemaining(t)
  BY <1>0, <1>6 DEF ConfirmRemaining, ActInv
<1> QED
  BY <1>2, <1>3, <1>4, <1>5, <1>6 DEF Publish

LEMMA RenameStep ==
  ASSUME TypeOK, TypeOK', StampInv, ActInv, ShadowInv, RenameInv, LeavesAbsencesBe, [Next]_vars
  PROVE  RenameInv'
<1> SUFFICES ASSUME watch'.attached, NEW t \in Targets,
                    act'.on = t, act'.step = "act", act'.respelling
             PROVE  vault'[t].bytes = After[t] \/ Reached(t)'
  BY DEF RenameInv, Renames
<1>0. /\ job \in Jobs /\ act \in Acts /\ NoAct.on = NoTarget /\ t # NoTarget
      /\ job.phase # "idle" => watch.attached
  BY PlanAssumption DEF TypeOK, NoAct, ShadowInv
<1>1. ASSUME NEW u \in Targets, Publish(u) PROVE vault'[t].bytes = After[t]
  BY <1>1, PublishRenames
<1>2. CASE \A u \in Targets : ~Publish(u)
  <2>1. act' = act
    BY <1>0, <1>2, ActSteps
  <2>2. job.phase = "publishing" /\ watch.attached /\ act # NoAct
    BY <1>0, <2>1 DEF ActInv
  <2>3. vault[t].bytes = After[t] \/ Reached(t)
    BY <2>1, <2>2 DEF RenameInv, Renames
  <2>4. ~Reconcile /\ ~Attach
    BY <2>2 DEF Reconcile, Attach
  <2>5. CASE Quiet
    BY <2>2, <2>3, <2>4, <2>5, QuietReaches
  <2>6. CASE Crash \/ PowerCut
    BY <2>6 DEF Crash, PowerCut, Lose, Unattached
  <2>7. ASSUME \/ Begin \/ BeginPublishing \/ Published \/ ReadBack
               \/ Commit \/ CommitFails \/ NothingToCommit
               \/ \E u \in Targets : StageStops(u)
        PROVE  FALSE
    BY <2>2, <2>7 DEF Begin, BeginPublishing, Published, ReadBack, Commit, CommitFails,
       NothingToCommit, StageStops
  <2> QED
    BY <1>2, <2>5, <2>6, <2>7, NextSteps
<1> QED
  BY <1>1, <1>2

----------------------------------------------------------------------------
(* Every row right, or on its way                                           *)

\* A row is as right as it was while neither it nor its entry changes.
LEMMA RightStays ==
  ASSUME NEW t \in Targets, UNCHANGED <<store, rows>>,
         vault'[t].bytes = vault[t].bytes, vault'[t].at = vault[t].at
  PROVE  Right(t) => Right(t)'
<1>1. \A s \in Spellings : <<t, s>> \in Paths /\ <<t, s>>[1] = t /\ <<t, s>>[2] = s
  BY DEF Paths
<1>2. \A s \in Spellings : Listing(vault)'[<<t, s>>] = Listing(vault)[<<t, s>>]
  BY <1>1 DEF Listing
<1>3. \A s \in Spellings : Coming(<<t, s>>)' = Coming(<<t, s>>)
  BY DEF Coming
<1> QED
  BY <1>2, <1>3 DEF Right

\* A step that loses no report, and owes and holds of a target what it did.
LEMMA FollowsStays ==
  ASSUME NEW t \in Targets, Follows(t), Reached(t) => Reached(t)',
         Pends(t)' <=> Pends(t), vault'[t] = vault[t], UNCHANGED <<store, rows>>
  PROVE  Follows(t)'
BY RightStays DEF Follows

\* Publishing a target leaves each row right or on its way.
LEMMA PublishFollows ==
  ASSUME TypeOK, Listed, ActInv, ShadowInv, ReportInv, AtInv, RenameInv, RowInv,
         NEW u \in Targets, Publish(u), NEW t \in Targets
  PROVE  Follows(t)'
<1>0. /\ watch \in Watches /\ vault \in [Targets -> Files] /\ act \in Acts /\ job \in Jobs
      /\ vault[u] \in Files
  BY DEF TypeOK
<1>1. job.phase \in {"publishing", "confirming"} /\ watch.attached
  BY <1>0, PublishActOn DEF ShadowInv
<1>2. Follows(t)
  BY <1>1 DEF RowInv
<1>3. UNCHANGED <<store, rows>>
  BY PublishAlone
<1>4. CASE ~Act(u) /\ ~Record(u)
  <2>1. watch' = watch /\ vault' = vault
    BY <1>4, PublishWatches, PublishAlone
  <2>2. Pends(t)' <=> Pends(t)
    BY <1>4, OthersPend, PublishPends
  <2>3. Reached(t) => Reached(t)'
    BY <2>1, ReachedStays
  <2> QED
    BY <1>2, <1>3, <2>1, <2>2, <2>3, FollowsStays
<1>5. CASE Act(u)
  <2>1. /\ act.on = u /\ act.step = "act" /\ act' = [act EXCEPT !.step = "record"]
        /\ vault'[u] = Written(u) /\ UNCHANGED <<job, report>>
    BY <1>0, <1>5 DEF Act, Change
  <2>2. /\ watch'.seen = watch.seen \cup {u} /\ watch'.ledger = watch.ledger
        /\ watch'.comparing = watch.comparing /\ watch'.batch = watch.batch
        /\ watch'.owed = watch.owed
    BY <1>0, <1>1, <1>5 DEF Act, Reported, Watches
  <2>3. CASE t # u
    <3>1. vault'[t] = vault[t] /\ (Pends(t)' <=> Pends(t))
      BY <2>3, PublishAlone, OthersPend
    <3>2. Reached(t) => Reached(t)'
      BY <2>2, <3>1, ReachedStays
    <3> QED
      BY <1>2, <1>3, <3>1, <3>2, FollowsStays
  <2>4. CASE t = u
    <3>1. Pends(u)'
      <4>1. act'.on = u /\ act'.step = "record"
        BY <1>0, <2>1 DEF Acts
      <4> QED
        BY <1>1, <2>1, <4>1 DEF Pends, Changing
    <3>2. CASE After[u] = Nothing \/ ~act.respelling
      <4>1. vault'[u].bytes = After[u]
        BY <1>0, <2>1, <3>2 DEF Written, Removed, Files
      <4> QED
        BY <2>4, <3>1, <4>1 DEF Follows
    <3>3. CASE After[u] # Nothing /\ act.respelling
      <4>1. vault'[u].bytes = vault[u].bytes /\ vault'[u].stamp = vault[u].stamp
        BY <1>0, <2>1, <3>3 DEF Written, Files
      <4>2. vault[u].bytes = After[u] \/ Reached(u)
        BY <1>1, <2>1, <3>3 DEF RenameInv, Renames
      <4>3. Reached(u) => Reached(u)'
        BY <2>2, <4>1, ReachedStays
      <4> QED
        BY <2>4, <3>1, <4>1, <4>2, <4>3 DEF Follows
    <3> QED
      BY <3>2, <3>3
  <2> QED
    BY <2>3, <2>4
<1>6. CASE Record(u)
  <2> DEFINE told == [bytes |-> After[u],
                      stamp |-> IF After[u] = Nothing THEN 0
                                ELSE IF act.respelling THEN act.stamp ELSE job.attempt]
  <2>1. vault' = vault /\ watch' = [watch EXCEPT !.ledger[u] = told] /\ act.step = "record"
    BY <1>6 DEF Record
  <2>2. told.bytes = After[u]
    OBVIOUS
  <2> HIDE DEF told
  <2>3. /\ watch'.seen = watch.seen /\ watch'.owed = watch.owed
        /\ watch'.comparing = watch.comparing /\ watch'.batch = watch.batch
        /\ watch'.ledger[u] = told
        /\ \A s \in Targets \ {u} : watch'.ledger[s] = watch.ledger[s]
    BY <1>0, <2>1 DEF Watches
  <2>4. Pends(t)' <=> Pends(t)
    <3>1. ~Act(u)
      BY <2>1 DEF Act
    <3> QED
      BY <3>1, OthersPend, PublishPends
  <2>5. CASE t # u
    <3>1. Reached(t) => Reached(t)'
      BY <2>1, <2>3, <2>5, ReachedStays
    <3> QED
      BY <1>2, <1>3, <2>1, <2>4, <3>1, FollowsStays
  <2>6. CASE t = u
    <3>1. Pends(u)
      BY <1>1, <1>6 DEF Record, Pends, Changing
    <3>2. CASE vault[u].bytes = After[u]
      BY <2>1, <2>4, <2>6, <3>1, <3>2 DEF Follows
    <3>3. CASE vault[u].bytes # After[u]
      <4>1. Reached(u)
        BY <1>2, <2>6, <3>1, <3>3 DEF Follows
      <4>2. Differs(u, watch.ledger[u])'
        BY <2>1, <2>2, <2>3, <3>3 DEF Differs
      <4>3. Reached(u)'
        BY <2>1, <2>3, <4>1, <4>2 DEF Reached, Differs
      <4> QED
        BY <2>6, <4>3 DEF Follows
    <3> QED
      BY <3>2, <3>3
  <2> QED
    BY <2>5, <2>6
<1> QED
  BY <1>4, <1>5, <1>6

\* The second look and the rows it writes leave each row right or on its way.
LEMMA ReadBackFollows ==
  ASSUME TypeOK, Listed, ActInv, ShadowInv, AtInv, RowsKept, RowsAt, RowInv, ReadBack,
         NEW t \in Targets
  PROVE  Follows(t)'
<1>0. /\ job \in Jobs /\ store \in [Paths -> Bytes]
      /\ <<t, "old">> \in Paths /\ <<t, "new">> \in Paths
      /\ After[t] \in Bytes /\ Nothing \in Bytes /\ t # NoTarget
  BY PlanAssumption DEF TypeOK, Paths, Spellings, Bytes
<1>1. /\ job.phase = "answering" /\ job' = [job EXCEPT !.phase = "committing"]
      /\ UNCHANGED <<vault, store, watch, report, act>>
  BY DEF ReadBack
<1>2. watch.attached /\ job'.phase = "committing" /\ act.on = NoTarget
  <2>1. act \in Acts
    BY DEF TypeOK
  <2> QED
    BY <1>0, <1>1, <2>1 DEF ShadowInv, ActInv, Jobs, Acts
<1>3. Kept # Nothing /\ Kept # After[t]
  BY <1>0, KeptAssumption
<1>4. ~Pends(t)'
  BY <1>2 DEF Pends
<1>5. CASE Reached(t)
  BY <1>1, <1>5, ReachedStays DEF Follows
<1>6. /\ Listing(vault)[<<t, "new">>] = IF vault[t].at = "new" THEN vault[t].bytes ELSE Nothing
      /\ Listing(vault)[<<t, "old">>] = IF vault[t].at = "old" THEN vault[t].bytes ELSE Nothing
  BY <1>0 DEF Listing
<1>7. rows[<<t, "old">>] = Kept /\ rows[<<t, "new">>] = Kept
  BY <1>0, <1>1 DEF RowsKept
<1>8. /\ t \notin Respelled => store[<<t, "old">>] = Nothing
      /\ vault[t].at = "old" => store[<<t, "new">>] = Nothing
  BY <1>2 DEF RowsAt, Blank
<1>9. \A s \in Spellings :
          Coming(<<t, s>>)' = IF rows'[<<t, s>>] = Kept THEN store[<<t, s>>] ELSE rows'[<<t, s>>]
  BY <1>1 DEF Coming
<1>10. ASSUME \A s \in {"old", "new"} :
                  (IF rows'[<<t, s>>] = Kept THEN store[<<t, s>>] ELSE rows'[<<t, s>>])
                      = Listing(vault)[<<t, s>>]
       PROVE  Follows(t)'
  <2>1. Listing(vault)' = Listing(vault)
    BY <1>1
  <2>2. Right(t)'
    BY <1>9, <1>10, <2>1 DEF Right, Spellings
  <2> QED
    BY <1>4, <2>2 DEF Follows
<1>11. CASE Pends(t) /\ vault[t].bytes = After[t]
  <2>1. report.results[t] = "wrote" \/ t \in report.half
    BY <1>0, <1>2, <1>11 DEF Pends, Changing
  <2>2. CASE report.results[t] = "wrote"
    BY <1>3, <1>6, <1>8, <1>10, <1>11, <2>2, ReadBackRows
  <2>3. CASE t \in report.half
    BY <1>3, <1>6, <1>8, <1>10, <1>11, <2>3, ReadBackRows
  <2> QED
    BY <2>1, <2>2, <2>3
<1>12. CASE ~Pends(t) /\ Right(t)
  <2>1. t \notin report.half
    BY <1>1, <1>12 DEF Pends
  <2>2. \A s \in {"old", "new"} : store[<<t, s>>] = Listing(vault)[<<t, s>>]
    BY <1>7, <1>12 DEF Right, Coming, Spellings
  <2>3. CASE report.results[t] # "none"
    BY <1>3, <1>6, <1>10, <2>2, <2>3, ReadBackRows
  <2>4. CASE report.results[t] = "none"
    BY <1>10, <2>1, <2>2, <2>4, ReadBackRows
  <2> QED
    BY <2>3, <2>4
<1> QED
  BY <1>2, <1>5, <1>11, <1>12 DEF RowInv, Follows

\* A job that ends as its rows stand, with nothing owed, leaves each row so.
LEMMA EndFollows ==
  ASSUME TypeOK, NEW t \in Targets, Follows(t), ~Pends(t), ~Pends(t)', watch'.attached,
         watch' = watch \/ watch' = Returned({}),
         vault' = vault, \A s \in Spellings : Coming(<<t, s>>)' = Coming(<<t, s>>)
  PROVE  Follows(t)'
<1>1. watch \in Watches
  BY DEF TypeOK
<1>2. /\ watch'.owed = watch.owed /\ watch'.seen = watch.seen /\ watch'.ledger = watch.ledger
      /\ watch'.comparing = watch.comparing /\ watch'.batch = watch.batch
  <2>1. CASE watch' = watch
    BY <2>1
  <2>2. CASE watch' = Returned({})
    <3>1. {} \in SUBSET Targets /\ watch.owed \cup {} = watch.owed
      OBVIOUS
    <3> QED
      BY <1>1, <2>2, <3>1, ReturnedKeeps
  <2> QED
    BY <2>1, <2>2
<1>3. Reached(t) => Reached(t)'
  BY <1>2, ReachedStays
<1>4. Right(t) => Right(t)'
  <2>1. Listing(vault)' = Listing(vault)
    OBVIOUS
  <2> QED
    BY <2>1 DEF Right
<1> QED
  BY <1>3, <1>4 DEF Follows

\* Every step leaves each row right or on its way.
LEMMA RowStep ==
  ASSUME Inv, TypeOK', StampInv, AtInv, RowsKept, RowsKept', RowsAt, RenameInv, RowInv,
         LeavesAbsencesBe, [Next]_vars
  PROVE  RowInv'
<1> SUFFICES ASSUME watch'.attached, NEW t \in Targets PROVE Follows(t)'
  BY DEF RowInv
<1>0. /\ TypeOK /\ Listed /\ ActInv /\ ShadowInv /\ ReportInv
      /\ job \in Jobs /\ act \in Acts /\ watch \in Watches /\ report \in Reports /\ t # NoTarget
      /\ \A s \in Spellings : <<t, s>> \in Paths /\ <<t, s>>[1] = t
  BY PlanAssumption DEF Inv, TypeOK, Paths
<1>1. watch.attached => Follows(t)
  BY DEF RowInv
<1>2. job.phase # "idle" => watch.attached
  BY <1>0 DEF ShadowInv
<1>3. job'.phase \in {"idle", "staging", "committing"} => ~Pends(t)'
  BY DEF Pends
<1>4. job.phase \in {"idle", "staging", "committing"} => ~Pends(t)
  BY DEF Pends
<1>5. ASSUME UNCHANGED <<store, rows>> PROVE \A s \in Spellings : Coming(<<t, s>>)' = Coming(<<t, s>>)
  BY <1>5 DEF Coming
<1>6. ASSUME NEW u \in Targets, Publish(u) PROVE Follows(t)'
  BY <1>0, <1>6, PublishFollows
<1>7. CASE Begin
  <2>1. watch.attached /\ UNCHANGED <<vault, watch, store, rows>> /\ job.phase = "idle"
    BY <1>7 DEF Begin
  <2>2. ~Pends(t)'
    BY <1>3, <1>7 DEF Begin
  <2> QED
    BY <1>0, <1>1, <1>4, <1>5, <2>1, <2>2, EndFollows
<1>8. CASE BeginPublishing
  <2>1. job.phase = "staging" /\ UNCHANGED <<vault, store, rows, report, act>>
    BY <1>8 DEF BeginPublishing
  <2>2. /\ report.results[t] = "none" /\ t \notin report.half /\ act.on # t
    BY <1>0, <2>1 DEF ReportInv, AtInv, ResultsAt, ActInv
  <2>3. ~Pends(t)'
    BY <2>1, <2>2 DEF Pends, Changing
  <2>4. watch' = watch \/ watch' = Returned({})
    BY <1>8 DEF BeginPublishing
  <2> QED
    BY <1>0, <1>1, <1>2, <1>4, <1>5, <2>1, <2>3, <2>4, EndFollows
<1>9. CASE Published
  <2>1. /\ UNCHANGED <<vault, store, rows, watch, act>> /\ act = NoAct
        /\ job.phase \in {"publishing", "confirming"} /\ job'.phase = "answering"
    BY <1>0, <1>9 DEF Published, Jobs
  <2>2. /\ report'.half = report.half
        /\ report'.results[t] = "wrote" <=> report.results[t] = "wrote"
    BY <1>0, <1>9, KeptReport DEF Published, Unavailable
  <2>3. Pends(t)' <=> Pends(t)
    BY <2>1, <2>2 DEF Pends, Changing
  <2>4. Reached(t) => Reached(t)'
    BY <2>1, ReachedStays
  <2> QED
    BY <1>1, <1>2, <2>1, <2>3, <2>4, FollowsStays
<1>10. CASE ReadBack
  BY <1>0, <1>10, ReadBackFollows
<1>11. CASE Commit
  <2>1. job.phase = "committing" /\ vault' = vault /\ watch' = Returned({})
    BY <1>11 DEF Commit
  <2>2. \A s \in Spellings : Coming(<<t, s>>)' = Coming(<<t, s>>)
    BY <1>0, <1>11 DEF Commit, Coming
  <2>3. job'.phase = "idle"
    BY <1>0, <1>11, JobEnds
  <2> QED
    BY <1>0, <1>1, <1>2, <1>3, <1>4, <2>1, <2>2, <2>3, EndFollows
<1>12. CASE CommitFails
  <2>1. watch' = Returned(Targets)
    BY <1>12 DEF CommitFails
  <2>2. t \in watch'.owed
    BY <1>0, <2>1, ReturnedKeeps
  <2> QED
    BY <2>2 DEF Follows, Reached
<1>13. CASE NothingToCommit
  <2>1. /\ job.phase = "answering" /\ watch' = Returned({}) /\ Effects = {}
        /\ UNCHANGED <<vault, store, rows>>
    BY <1>13 DEF NothingToCommit
  <2>2. "old" \in Spellings /\ "new" \in Spellings
    BY DEF Spellings
  <2>3. report.results[t] = "none" /\ t \notin report.half
    BY <2>1, <2>2, EffectsAt
  <2>4. act.on # t
    BY <1>0, <2>1 DEF ActInv
  <2>5. ~Pends(t)
    BY <2>3, <2>4 DEF Pends, Changing
  <2>6. job'.phase = "idle"
    BY <1>0, <1>13, JobEnds
  <2> QED
    BY <1>0, <1>1, <1>2, <1>3, <1>5, <2>1, <2>5, <2>6, EndFollows
<1>14. ASSUME NEW u \in Targets, StageStops(u) PROVE Follows(t)'
  <2>1. /\ job.phase = "staging" /\ watch' = Returned({}) /\ UNCHANGED <<vault, store, rows>>
    BY <1>14 DEF StageStops
  <2>2. job'.phase = "idle"
    BY <1>0, <1>14, JobEnds
  <2> QED
    BY <1>0, <1>1, <1>2, <1>3, <1>4, <1>5, <2>1, <2>2, EndFollows
<1>15. CASE Crash \/ PowerCut
  BY <1>15 DEF Crash, PowerCut, Lose, Unattached
<1>16. CASE Reconcile
  <2>1. /\ watch.attached /\ job.phase = "idle" /\ UNCHANGED <<vault, rows, job>>
        /\ store' = [p \in Paths |-> IF p[1] \in watch.owed THEN Listing(vault)[p] ELSE store[p]]
        /\ watch' = [watch EXCEPT !.owed = {}]
    BY <1>16 DEF Reconcile
  <2>2. \A s \in Spellings : rows[<<t, s>>] = Kept
    BY <1>0, <2>1 DEF RowsKept
  <2>3. ~Pends(t)' /\ ~Pends(t)
    BY <1>3, <1>4, <2>1
  <2>4. Listing(vault)' = Listing(vault)
    BY <2>1
  <2>5. CASE t \in watch.owed
    <3>1. \A s \in Spellings : store'[<<t, s>>] = Listing(vault)[<<t, s>>]
      BY <1>0, <2>1, <2>5
    <3>2. Right(t)'
      BY <2>1, <2>2, <2>4, <3>1 DEF Right, Coming
    <3> QED
      BY <2>3, <3>2 DEF Follows
  <2>6. CASE t \notin watch.owed
    <3>1. \A s \in Spellings : store'[<<t, s>>] = store[<<t, s>>]
      BY <1>0, <2>1, <2>6
    <3>2. Right(t) => Right(t)'
      BY <2>1, <2>4, <3>1 DEF Right, Coming
    <3>3. /\ watch'.seen = watch.seen /\ watch'.ledger = watch.ledger
          /\ watch'.comparing = watch.comparing /\ watch'.batch = watch.batch
      BY <1>0, <2>1 DEF Watches
    <3>4. Reached(t) => Reached(t)'
      BY <2>1, <2>6, <3>3 DEF Reached, Differs
    <3> QED
      BY <1>1, <2>1, <2>3, <3>2, <3>4 DEF Follows
  <2> QED
    BY <2>5, <2>6
<1>17. CASE Attach
  <2>1. /\ store' = Listing(vault) /\ UNCHANGED <<vault, rows, job>> /\ job.phase = "idle"
    BY <1>2, <1>17 DEF Attach
  <2>2. \A s \in Spellings : rows[<<t, s>>] = Kept
    BY <1>0, <2>1 DEF RowsKept
  <2>3. Listing(vault)' = Listing(vault)
    BY <2>1
  <2>4. Right(t)'
    BY <2>1, <2>2, <2>3 DEF Right, Coming
  <2> QED
    BY <1>3, <2>1, <2>4 DEF Follows
<1>18. CASE Quiet /\ ~Reconcile /\ ~Attach
  <2>1. job'.phase = job.phase /\ UNCHANGED <<act, report, rows>>
    BY <1>0, <1>18, QuietSteps
  <2>2. watch.attached
    BY <1>0, <1>18, QuietStore
  <2>3. /\ Reached(t) => Reached(t)'
        /\ vault'[t] = vault[t] \/ Reached(t)'
        /\ store' = store
    BY <1>0, <1>18, <2>2, QuietReaches
  <2>4. Pends(t)' <=> Pends(t)
    BY <2>1 DEF Pends, Changing
  <2> QED
    BY <1>1, <2>1, <2>2, <2>3, <2>4, FollowsStays DEF Follows
<1> QED
  BY <1>6, <1>7, <1>8, <1>9, <1>10, <1>11, <1>12, <1>13, <1>14, <1>15, <1>16, <1>17, <1>18,
     NextSteps

LEMMA InitFollows == Init => FollowInv
<1> SUFFICES ASSUME Init PROVE FollowInv
  OBVIOUS
<1>0. /\ NoAct.on = NoTarget /\ NoAct.stamp = 0 /\ Attempts \in Nat
      /\ vault = [t \in Targets |-> Initially(t)] /\ survives = [t \in Targets |-> {Initially(t)}]
      /\ store = Listing(vault) /\ \A p \in Paths : rows[p] = Kept
      /\ job.phase = "idle" /\ act = NoAct /\ report = NoReport /\ budget.writes = 0
  BY PlanAssumption DEF Init, NoAct
<1>1. /\ watch.attached /\ watch.ledger = [t \in Targets |-> Unexpected]
  BY DEF Init, Unattached
<1>2. \A t \in Targets :
          /\ Initially(t).stamp = 0 /\ Initially(t).at = IF t \in Respelled THEN "old" ELSE "new"
  BY DEF Initially
<1>3. StampInv
  <2>1. Last \in Nat
    BY <1>0 DEF Last
  <2>2. Unexpected.stamp = -1
    BY DEF Unexpected
  <2> QED
    BY <1>0, <1>1, <1>2, <2>1, <2>2 DEF StampInv
<1>4. AtInv
  <2>1. NoReport.half = {} /\ \A t \in Targets : NoReport.results[t] = "none"
    BY DEF NoReport
  <2> QED
    BY <1>0, <1>2, <2>1, PlanAssumption DEF AtInv, OneSpelling, ActAt, FirstAt, ResultsAt
<1>5. RowsKept
  BY <1>0 DEF RowsKept
<1>6. \A t \in Targets :
          /\ <<t, "old">> \in Paths /\ <<t, "new">> \in Paths
          /\ store[<<t, "new">>] = IF vault[t].at = "new" THEN vault[t].bytes ELSE Nothing
          /\ store[<<t, "old">>] = IF vault[t].at = "old" THEN vault[t].bytes ELSE Nothing
  BY <1>0 DEF Listing, Paths, Spellings
<1>7. RowsAt
  BY <1>0, <1>2, <1>6 DEF RowsAt, Blank
<1>8. RenameInv
  BY <1>0, PlanAssumption DEF RenameInv, Renames
<1>9. RowInv
  <2> SUFFICES ASSUME NEW t \in Targets PROVE Follows(t)
    BY DEF RowInv
  <2>1. ~Pends(t)
    BY <1>0 DEF Pends
  <2>2. Right(t)
    <3>1. \A s \in Spellings : rows[<<t, s>>] = Kept
      BY <1>0 DEF Paths
    <3> QED
      BY <1>0, <3>1 DEF Right, Coming
  <2> QED
    BY <2>1, <2>2 DEF Follows
<1> QED
  BY <1>3, <1>4, <1>5, <1>7, <1>8, <1>9 DEF FollowInv

LEMMA FollowStep ==
  ASSUME Inv, FollowInv, [Next /\ LeavesAbsencesBe]_vars, Inv'
  PROVE  FollowInv'
<1>1. CASE UNCHANGED vars
  BY <1>1 DEF vars, FollowInv, StampInv, AtInv, RowsKept, RowsAt, RenameInv, RowInv, Renames, Follows, Last,
     OneSpelling, ActAt, FirstAt, ResultsAt, Blank, Reached, Differs, Pends, Changing, Right, Coming
<1>2. CASE Next /\ LeavesAbsencesBe
  <2>1. /\ TypeOK /\ Listed /\ ActInv /\ PastInv /\ ShadowInv /\ ReportInv /\ TypeOK' /\ Listed'
        /\ StampInv /\ AtInv /\ RowsKept /\ RowsAt /\ RenameInv /\ RowInv /\ [Next]_vars
    BY <1>2 DEF Inv, FollowInv
  <2>2. StampInv'
    BY <2>1, StampStep
  <2>3. AtInv'
    BY <2>1, AtStep
  <2>4. RowsKept'
    BY <2>1, RowsKeptStep
  <2>5. RowsAt'
    BY <2>1, <2>3, RowsAtStep
  <2>6. RenameInv'
    BY <1>2, <2>1, RenameStep
  <2>7. RowInv'
    BY <1>2, <2>1, <2>4, RowStep
  <2> QED
    BY <2>2, <2>3, <2>4, <2>5, <2>6, <2>7 DEF FollowInv
<1> QED
  BY <1>1, <1>2

\* What is right of every target, with nothing on its way, is the whole listing.
LEMMA AllFollow == Inv /\ FollowInv => StoreFollowsVault
<1> SUFFICES ASSUME Inv, FollowInv, Settled PROVE store = Listing(vault)
  BY DEF StoreFollowsVault
<1>0. /\ store \in [Paths -> Bytes] /\ Listing(vault) \in [Paths -> Bytes] /\ job.phase = "idle"
  BY ListingTypes DEF Inv, TypeOK, Settled
<1>1. \A t \in Targets : Right(t)
  BY DEF FollowInv, RowInv, Follows, Settled, Reached, Pends
<1>2. \A p \in Paths : rows[p] = Kept
  BY <1>0 DEF FollowInv, RowsKept
<1>3. ASSUME NEW p \in Paths PROVE store[p] = Listing(vault)[p]
  <2>1. PICK t \in Targets, s \in Spellings : p = <<t, s>>
    BY DEF Paths
  <2>2. Coming(<<t, s>>) = Listing(vault)[<<t, s>>]
    BY <1>1 DEF Right
  <2> QED
    BY <1>2, <2>1, <2>2 DEF Coming
<1> QED
  BY <1>0, <1>3

\* Once every report is settled and nothing is owed, the store's rows are what the
\* tree lists, whatever fails and whoever else writes: unless another writer's
\* removal is taken for the plan's own.
THEOREM StoreFollowed == SparingSpec => []StoreFollowsVault
<1>1. Init => Inv /\ FollowInv
  BY InitInv, InitFollows
<1>2. Inv /\ FollowInv /\ [Next /\ LeavesAbsencesBe]_vars => (Inv /\ FollowInv)'
  <2>1. Inv /\ [Next /\ LeavesAbsencesBe]_vars => [Next]_vars
    OBVIOUS
  <2> QED
    BY <2>1, StepInv, FollowStep
<1> QED
  BY <1>1, <1>2, AllFollow, PTL DEF SparingSpec

----------------------------------------------------------------------------
(* One foreign change                                                      *)

\* The ledger expects an absence, or is about to, only of what the plan removes; and
\* what it expects absent is there only where another writer put it.
Absence == [bytes |-> Nothing, stamp |-> 0]
Removes(t) == act.on = t /\ act.step = "record" /\ After[t] = Nothing
AbsenceInv ==
    \A t \in Targets :
        /\ watch.ledger[t] = Absence => After[t] = Nothing
        /\ watch.ledger[t] = Absence \/ Removes(t) =>
               vault[t].bytes = Nothing \/ budget.writes > 0

\* Only the act brings publication to its record.
LEMMA PublishRecords ==
  ASSUME TypeOK, NEW t \in Targets, Publish(t), ~Act(t), act'.step = "record"
  PROVE  act' = act
<1>0. act \in Acts /\ NoAct \in Acts /\ NoAct.step = "judge"
  BY PlanAssumption DEF TypeOK, NoAct, Acts, Stamps
<1>1. CASE ConfirmLanded(t) \/ JudgeStops(t) \/ ActStops(t) \/ Sync(t) \/ SyncFails(t)
           \/ ConfirmRemaining(t)
  BY <1>0, <1>1 DEF ConfirmLanded, JudgeStops, ActStops, Sync, SyncFails, ConfirmRemaining, Stops
<1>2. CASE Judge(t)
  BY <1>0, <1>2 DEF Judge, Acts
<1>3. CASE ActFinds(t) \/ Record(t) \/ SyncContent(t) \/ JudgeRename(t)
  BY <1>0, <1>3 DEF ActFinds, Record, SyncContent, JudgeRename, Stops, Acts
<1> QED
  BY <1>1, <1>2, <1>3 DEF Publish

\* But for its records, no step has the ledger expect an absence it did not.
LEMMA LedgerSteps ==
  ASSUME TypeOK, [Next]_vars, NEW t \in Targets
  PROVE  watch'.ledger[t] \in {watch.ledger[t], Unexpected} \/ Record(t)
<1>0. watch \in Watches
  BY DEF TypeOK
<1>1. Unattached.ledger[t] = Unexpected /\ [Unattached EXCEPT !.attached = TRUE].ledger[t] = Unexpected
  BY DEF Unattached
<1>2. \A S \in SUBSET Targets : Returned(S).ledger[t] \in {watch.ledger[t], Unexpected}
  BY <1>0, <1>1 DEF Returned, Watches
<1>3. CASE Settle \/ Reconcile \/ \E u \in Targets : Act(u) \/ ForeignWrite(u)
  BY <1>0, <1>3 DEF Settle, Reconcile, Act, ForeignWrite, Reported, Watches
<1>4. CASE Suppress
  BY <1>0, <1>4, SuppressDoes
<1>5. ASSUME NEW u \in Targets, Expire(u) \/ Record(u)
      PROVE  watch'.ledger[t] \in {watch.ledger[t], Unexpected} \/ Record(t)
  <2>1. CASE Expire(u)
    BY <1>0, <2>1 DEF Expire, Watches
  <2>2. CASE Record(u) /\ u # t
    <3>1. \E e : watch' = [watch EXCEPT !.ledger[u] = e]
      BY <2>2 DEF Record
    <3> QED
      BY <1>0, <2>2, <3>1 DEF Watches
  <2> QED
    BY <1>5, <2>1, <2>2
<1> QED
  BY <1>1, <1>2, <1>3, <1>4, <1>5, WatchSteps

LEMMA AbsenceStep ==
  ASSUME TypeOK, ActInv, AbsenceInv, [Next]_vars
  PROVE  AbsenceInv'
<1> SUFFICES ASSUME NEW t \in Targets
             PROVE  /\ watch'.ledger[t] = Absence => After[t] = Nothing
                    /\ watch'.ledger[t] = Absence \/ Removes(t)' =>
                           vault'[t].bytes = Nothing \/ budget'.writes > 0
  BY DEF AbsenceInv
<1>0. /\ vault \in [Targets -> Files] /\ vault[t] \in Files /\ budget \in Budgets /\ act \in Acts
      /\ t # NoTarget /\ NoAct.on = NoTarget
  BY PlanAssumption DEF TypeOK, NoAct
<1>1. Unexpected # Absence
  <2>1. Unexpected.stamp # Absence.stamp
    BY DEF Unexpected, Absence
  <2> QED
    BY <2>1, Zenon
<1>2. Record(t) => Removes(t) \/ After[t] # Nothing
  BY DEF Record, Removes
<1>3. watch'.ledger[t] = Absence => watch.ledger[t] = Absence \/ (Record(t) /\ After[t] = Nothing)
  <2>1. Record(t) => watch'.ledger[t].bytes = After[t]
    BY DEF Record, TypeOK, Watches
  <2>2. Absence.bytes = Nothing
    BY DEF Absence
  <2> QED
    BY <1>1, <2>1, <2>2, LedgerSteps
<1>4. watch'.ledger[t] = Absence => After[t] = Nothing
  BY <1>3 DEF AbsenceInv
<1>5. budget.writes > 0 => budget'.writes > 0
  <2>1. budget.writes \in Nat /\ Last <= Last' /\ Last' \in Nat /\ Attempts \in Nat
    BY <1>0, WritesGrow, PlanAssumption DEF Budgets
  <2>2. budget'.writes \in Nat
    BY StepTypes, PlanAssumption DEF TypeOK, Budgets
  <2> QED
    BY <2>1, <2>2 DEF Last
<1>6. CASE Act(t)
  <2>1. After[t] = Nothing => vault'[t].bytes = Nothing
    BY <1>0, <1>6 DEF Act, Change, Written, Removed, Files
  <2> QED
    BY <1>4, <2>1 DEF Removes
<1>7. ASSUME NEW u \in Targets, ForeignWrite(u) PROVE budget'.writes > 0
  <2>1. budget'.writes = budget.writes + 1 /\ budget.writes \in 0..Writes
    BY <1>0, <1>7 DEF ForeignWrite, Budgets
  <2> QED
    BY <2>1, PlanAssumption
<1>8. CASE PowerCut
  <2>1. watch' = Unattached /\ act' = NoAct
    BY <1>8 DEF PowerCut, Lose
  <2> QED
    BY <1>0, <1>1, <2>1 DEF Unattached, Removes
<1>9. CASE ~Act(t) /\ ~PowerCut /\ \A u \in Targets : ~ForeignWrite(u)
  <2>1. vault'[t] = vault[t]
    BY <1>0, <1>9, DiskSteps DEF Act, Change
  <2>2. Removes(t)' => Removes(t)
    <3>1. ASSUME NEW u \in Targets, Publish(u), Removes(t)' PROVE Removes(t)
      <4>1. u = t
        BY <1>0, <3>1, PublishActOn DEF Removes
      <4>2. act' = act
        BY <1>9, <3>1, <4>1, PublishRecords DEF Removes
      <4> QED
        BY <3>1, <4>2 DEF Removes
    <3>2. act' = act \/ act' = NoAct => (Removes(t)' => Removes(t))
      BY <1>0 DEF Removes
    <3> QED
      BY <3>1, <3>2, ActSteps
  <2>3. watch'.ledger[t] = Absence \/ Removes(t)' => watch.ledger[t] = Absence \/ Removes(t)
    BY <1>2, <1>3, <2>2
  <2> QED
    BY <1>4, <1>5, <2>1, <2>3 DEF AbsenceInv
<1> QED
  BY <1>4, <1>6, <1>7, <1>8, <1>9

\* The one foreign change there may be does not pass for the plan's own removal.
LEMMA OneWriteSpares ==
  ASSUME TypeOK, AbsenceInv, Writes <= 1
  PROVE  LeavesAbsencesBe
<1> SUFFICES ASSUME NEW t \in Targets, ForeignWrite(t), watch.ledger[t] = Absence
             PROVE  vault'[t].bytes # Nothing
  BY DEF LeavesAbsencesBe, Absence
<1>1. vault[t].bytes = Nothing
  <2>1. budget.writes \in 0..Writes /\ budget.writes < Writes
    BY DEF ForeignWrite, TypeOK, Budgets
  <2>2. ~(budget.writes > 0)
    BY <2>1, PlanAssumption
  <2> QED
    BY <2>2 DEF AbsenceInv
<1>2. vault \in [Targets -> Files] /\ vault[t] \in Files
  BY DEF TypeOK
<1>3. PICK b \in {Before[t], After[t], Other} \ {Nothing} :
          vault'[t] = [vault[t] EXCEPT !.bytes = b, !.stamp = Attempts + budget'.writes]
  BY <1>1, <1>2 DEF ForeignWrite, Change
<1> QED
  BY <1>2, <1>3 DEF Files

\* Of one foreign change, at any moment, nothing is lost: whatever fails, the store's
\* rows are what the tree lists once every report is settled and nothing is owed.
THEOREM StoreFollowsOneWrite ==
  ASSUME Writes <= 1
  PROVE  Spec => []StoreFollowsVault
<1>1. Init => Inv /\ FollowInv /\ AbsenceInv
  <2>1. ASSUME Init PROVE AbsenceInv
    <3>1. \A t \in Targets : watch.ledger[t] = Unexpected
      BY <2>1 DEF Init, Unattached
    <3>2. Unexpected.stamp # Absence.stamp
      BY DEF Unexpected, Absence
    <3>3. act.step # "record"
      BY <2>1 DEF Init, NoAct
    <3> QED
      BY <3>1, <3>2, <3>3 DEF AbsenceInv, Removes
  <2> QED
    BY <2>1, InitInv, InitFollows
<1>2. Inv /\ FollowInv /\ AbsenceInv /\ [Next]_vars => (Inv /\ FollowInv /\ AbsenceInv)'
  <2> SUFFICES ASSUME Inv, FollowInv, AbsenceInv, [Next]_vars
               PROVE  Inv' /\ FollowInv' /\ AbsenceInv'
    OBVIOUS
  <2>1. Inv' /\ AbsenceInv'
    BY StepInv, AbsenceStep DEF Inv
  <2>2. [Next /\ LeavesAbsencesBe]_vars
    BY OneWriteSpares DEF Inv
  <2> QED
    BY <2>1, <2>2, FollowStep
<1> QED
  BY <1>1, <1>2, AllFollow, PTL DEF Spec
=============================================================================
