------------------------- MODULE JobExecutionTypes --------------------------
(*****************************************************************************)
(* Types of the job execution state, for any number of jobs, users, runs and *)
(* clients and any bound on the events, with every fault enabled or not.     *)
(*****************************************************************************)
EXTENDS JobExecution, TLAPS

\* A handler past its first step knows its job; only a stop names no job.
HandlerInv == \A a \in Actors : req[a].at \notin {"start", "kill"} => req[a].job \in Jobs

\* What the slot properties rest on.  A loop knows its job until it is over; a loop
\* that has no run yet, or has released it, has no slot, so its end cannot orphan
\* one; a handler knows its job; a dead process has no loops.
LoopInv ==
    /\ \A r \in Runs : /\ pc[r] # "unused" => owner[r] \in Jobs
                       /\ pc[r] \in {"claim", "abandon", "settle"} => run[r] \notin OpenRun
    /\ HandlerInv
    /\ ~up => \A r \in Runs : pc[r] = "unused"

\* A handler that waits for nothing is a request record (the state after any control returns).
LEMMA IdleType == Idle \in Requests
  BY Zenon DEF Idle, Requests, Stages, JobStatus, NoJob

\* A loop without a status to persist has a goal record.
LEMMA NoGoalType == NoGoal \in Goals
  BY Zenon DEF NoGoal, Goals, JobStatus

\* A handler that returns leaves a request record.
LEMMA FinishType == ASSUME TypeOK, NEW a \in Actors, Finish(a) PROVE req' \in [Actors -> Requests]
  BY Zenon, IdleType DEF TypeOK, Finish

\* A handler that goes on to its next await leaves a request record.
LEMMA GoToType == ASSUME TypeOK, NEW a \in Actors, NEW at \in Stages, GoTo(a, at) PROVE req' \in [Actors -> Requests]
  <1>1. [req[a] EXCEPT !.at = at] \in Requests
    BY DEF TypeOK, Requests
  <1> QED BY Zenon, <1>1 DEF TypeOK, GoTo

\* persistTaskProgress keeps the types of the loop's variables.
LEMMA PersistType ==
    ASSUME TypeOK, NEW r \in Runs, NEW s \in JobStatus, NEW n \in {"loop", "close", "stop", "pause"},
           Persist(r, s, n)
    PROVE  pc' \in [Runs -> LoopPc] /\ goal' \in [Runs -> Goals]
  <1>1. [status |-> s, next |-> n] \in Goals
    BY Zenon DEF Goals
  <1> QED BY Zenon, <1>1 DEF TypeOK, Persist, LoopPc

\* So does what follows a status update,
LEMMA ProceedType ==
    ASSUME TypeOK, NEW r \in Runs, Proceed(r)
    PROVE  /\ pc' \in [Runs -> LoopPc] /\ goal' \in [Runs -> Goals]
           /\ control' \in [Jobs -> {"none", "running", "paused", "cancelling"}]
  <1>1. goal[r].next \in {"loop", "close", "stop", "pause"}
    BY Zenon DEF TypeOK, Goals
  <1>2. pc' \in [Runs -> LoopPc]
    BY Zenon, <1>1 DEF TypeOK, Proceed, LoopPc
  <1> QED BY Zenon, <1>2, NoGoalType DEF TypeOK, Proceed

\* and the end of a loop.
LEMMA RetireType ==
    ASSUME TypeOK, NEW r \in Runs, Retire(r)
    PROVE  /\ pc' \in [Runs -> LoopPc] /\ goal' \in [Runs -> Goals]
           /\ owner' \in [Runs -> Jobs \cup {NoJob}] /\ held' \in [Runs -> BOOLEAN]
           /\ req' \in [Actors -> Requests]
  <1>1. \A a \in Actors : [req[a] EXCEPT !.run = NoRun] \in Requests
    BY DEF TypeOK, Requests
  <1>2. req' \in [Actors -> Requests]
    BY Zenon, <1>1 DEF TypeOK, Retire
  <1> QED BY Zenon, <1>2, NoGoalType DEF TypeOK, Retire, LoopPc

\* The goal of a loop that threw.
LEMMA GoalType == \A s \in JobStatus : [status |-> s, next |-> "stop"] \in Goals
  BY Zenon DEF Goals

\* The status a loop is about to write is a job status.
LEMMA GoalStatus == ASSUME TypeOK, NEW r \in Runs PROVE goal[r].status \in JobStatus
  BY Zenon DEF TypeOK, Goals

\* A loop goes on to one of four places after a status update.
LEMMA GoalNext ==
    ASSUME TypeOK, NEW r \in Runs PROVE goal[r].next \in {"loop", "close", "stop", "pause"}
  BY Zenon DEF TypeOK, Goals

\* The fields of a request in progress.
LEMMA RequestFields ==
    ASSUME TypeOK, NEW a \in Actors
    PROVE  /\ req[a].job \in Jobs \cup {NoJob} /\ req[a].seen \in JobStatus
           /\ req[a].cont \in BOOLEAN /\ req[a].run \in Runs \cup {NoRun}
  BY Zenon DEF TypeOK, Requests

\* updateJobRow keeps the types of the row.
LEMMA SetStatusType ==
    ASSUME TypeOK, NEW j, NEW s \in JobStatus, SetStatus(j, s)
    PROVE  status' \in [Jobs -> JobStatus] /\ lease' \in [Jobs -> {"none", "local", "stale"}]
  BY Zenon DEF TypeOK, SetStatus

\* claimWorkloadSlotTx keeps the types of the run and slot rows.
LEMMA OpenSlotType ==
    ASSUME TypeOK, NEW r \in Runs, NEW j \in Jobs, OpenSlot(r, j)
    PROVE  /\ owner' \in [Runs -> Jobs \cup {NoJob}] /\ run' \in [Runs -> RunStatus]
           /\ held' \in [Runs -> BOOLEAN] /\ activeRun' \in [Jobs -> Runs \cup {NoRun}]
  BY Zenon DEF TypeOK, OpenSlot, RunStatus, OpenRun

\* reconcileStaleJobIfNeeded keeps the types of the job row.
LEMMA ReconcileJobType ==
    ASSUME TypeOK, NEW j \in Jobs, NEW seen, NEW intent \in BOOLEAN, ReconcileJob(j, seen, intent)
    PROVE  /\ status' \in [Jobs -> JobStatus] /\ lease' \in [Jobs -> {"none", "local", "stale"}]
           /\ unresolved' \in [Jobs -> Runs \cup {NoRun, OldRun}] /\ cont' \in [Jobs -> BOOLEAN]
           /\ starting' \subseteq Runs
  <1>1. CASE seen = "running"
    BY Zenon, <1>1 DEF TypeOK, ReconcileJob, JobStatus, OfOthers
  <1>2. CASE seen # "running"
    BY ZenonT(40), <1>2 DEF TypeOK, ReconcileJob, JobStatus
  <1> QED BY Zenon, <1>1, <1>2

\* Every handler, loop step and fault preserves the type invariant.
LEMMA TypeStep == TypeOK /\ LoopInv /\ [Next]_vars => TypeOK'
  <1> SUFFICES ASSUME TypeOK, LoopInv, [Next]_vars PROVE TypeOK'
    BY Zenon
  <1> USE JobExecutionAssumption DEF TypeOK, JobStatus, OpenRun, RunStatus, LoopPc, Actors, NoJob,
        Stages, rowVars, attemptVars, runVars, loopVars, memVars, queueVars
  <1>1. ASSUME NEW j \in Jobs, Launch(j) PROVE TypeOK'
    BY Zenon, <1>1, SetStatusType DEF Launch
  <1>2. ASSUME NEW j \in Jobs, AdvanceHoldsUncertain(j) PROVE TypeOK'
    BY Zenon, <1>2, SetStatusType DEF AdvanceHoldsUncertain
  <1>3. ASSUME NEW j \in Jobs, AdvanceResumes(j) PROVE TypeOK'
    BY <1>3 DEF AdvanceResumes, StartLoop, Fresh, BeginClaim
  <1>4. ASSUME NEW j \in Jobs, AdvanceSkipsRunning(j) PROVE TypeOK'
    BY <1>4 DEF AdvanceSkipsRunning, Event
  <1>5. ASSUME NEW j \in Jobs, AdvancePicks(j) PROVE TypeOK'
    BY Zenon, <1>5 DEF AdvancePicks
  <1>6. ASSUME NEW j \in Jobs, AdvanceClaims(j) PROVE TypeOK'
    <2>1. events' \in 0..MaxEvents /\ picked' \subseteq Jobs /\ pc' \in [Runs -> LoopPc]
      BY <1>6 DEF AdvanceClaims, Event
    <2>2. status' \in [Jobs -> JobStatus] /\ lease' \in [Jobs -> {"none", "local", "stale"}]
      BY ZenonT(40), <1>6, SetStatusType DEF AdvanceClaims
    <2>3. /\ owner' \in [Runs -> Jobs \cup {NoJob}] /\ run' \in [Runs -> RunStatus]
          /\ held' \in [Runs -> BOOLEAN] /\ activeRun' \in [Jobs -> Runs \cup {NoRun}]
      <3>1. CASE UNCHANGED runVars
        BY Zenon, <3>1
      <3>2. CASE \E r \in Runs : OpenSlot(r, j)
        BY Zenon, <3>2, OpenSlotType
      <3> QED BY Zenon, <1>6, <3>1, <3>2 DEF AdvanceClaims
    <2> QED BY Zenon, <1>6, <2>1, <2>2, <2>3 DEF AdvanceClaims
  <1>7. ASSUME AdvanceStops PROVE TypeOK'
    BY Zenon, <1>7 DEF AdvanceStops
  <1>8. ASSUME NEW r \in Runs, ScheduleStarts(r) PROVE TypeOK'
    BY Zenon, <1>8 DEF ScheduleStarts, LoopInv, HandlerInv, StartLoop
  <1>9. ASSUME NEW r \in Runs, ScheduleRefused(r) PROVE TypeOK'
    BY Zenon, <1>9, SetStatusType, RetireType DEF ScheduleRefused
  <1>10. ASSUME NEW r \in Runs, LoopClaims(r) PROVE TypeOK'
    <2>1. owner[r] \in Jobs
      BY Zenon, <1>10 DEF LoopClaims, LoopInv
    <2>2. CASE SlotsInUse = {}
      BY ZenonT(40), <1>10, <2>1, <2>2, OpenSlotType DEF LoopClaims
    <2>3. CASE SlotsInUse # {}
      BY ZenonT(40), <1>10, <2>3, SetStatusType DEF LoopClaims
    <2> QED BY Zenon, <2>2, <2>3
  <1>11. ASSUME NEW r \in Runs, LoopAbandoned(r) PROVE TypeOK'
    BY Zenon, <1>11, RetireType DEF LoopAbandoned, DropRuntime
  <1>12. ASSUME NEW r \in Runs, LoopLacksWorkspace(r) PROVE TypeOK'
    BY <1>12, SetStatusType DEF LoopLacksWorkspace, ReleaseRun, Event
  <1>13. ASSUME NEW r \in Runs, LoopInit(r) PROVE TypeOK'
    BY ZenonT(40), <1>13, PersistType DEF LoopInit
  <1>14. ASSUME NEW r \in Runs, LoopChecks(r) PROVE TypeOK'
    BY ZenonT(40), <1>14, ProceedType DEF LoopChecks
  <1>15. ASSUME NEW r \in Runs, LoopWrites(r) PROVE TypeOK'
    <2>1. status' \in [Jobs -> JobStatus] /\ lease' \in [Jobs -> {"none", "local", "stale"}]
      BY <1>15, SetStatusType, GoalStatus DEF LoopWrites
    <2>2. /\ pc' \in [Runs -> LoopPc] /\ goal' \in [Runs -> Goals]
          /\ control' \in [Jobs -> {"none", "running", "paused", "cancelling"}]
      BY Zenon, <1>15, ProceedType DEF LoopWrites
    <2> QED BY Zenon, <1>15, <2>1, <2>2 DEF LoopWrites
  <1>16. ASSUME NEW r \in Runs, LoopStops(r) PROVE TypeOK'
    BY ZenonT(40), <1>16, PersistType DEF LoopStops, RefreshLease
  <1>17. ASSUME NEW r \in Runs, LoopConcludes(r) PROVE TypeOK'
    <2>1. pc' \in [Runs -> LoopPc] /\ goal' \in [Runs -> Goals]
      BY <1>17, PersistType DEF LoopConcludes
    <2> QED BY Zenon, <1>17, <2>1 DEF LoopConcludes, RefreshLease
  <1>18. ASSUME NEW r \in Runs, LoopThrows(r) PROVE TypeOK'
    BY <1>18, GoalType DEF LoopThrows, Throws, TurnFrame, Event
  <1>19. ASSUME NEW r \in Runs, LoopReverts(r) PROVE TypeOK'
    <2>1. status' \in [Jobs -> JobStatus] /\ lease' \in [Jobs -> {"none", "local", "stale"}]
      BY <1>19, SetStatusType, GoalStatus DEF LoopReverts
    <2>2. /\ pc' \in [Runs -> LoopPc] /\ goal' \in [Runs -> Goals]
          /\ control' \in [Jobs -> {"none", "running", "paused", "cancelling"}]
      BY Zenon, <1>19, ProceedType DEF LoopReverts
    <2> QED BY Zenon, <1>19, <2>1, <2>2 DEF LoopReverts
  <1>20. ASSUME NEW r \in Runs, AttemptBegins(r) \/ TurnStarts(r) PROVE TypeOK'
    <2>1. CASE AttemptBegins(r)
      <3>1. pc' \in [Runs -> LoopPc] /\ goal' \in [Runs -> Goals]
        <4>1. CASE Persist(r, "failed", "close")
          BY Zenon, <4>1, PersistType
        <4>2. CASE ~Persist(r, "failed", "close")
          BY <2>1, <4>2 DEF AttemptBegins
        <4> QED BY Zenon, <4>1, <4>2
      <3>2. starting' \subseteq starting \cup {r}
        BY <2>1 DEF AttemptBegins, OfOthers
      <3>3. lease' \in [Jobs -> {"none", "local", "stale"}]
        BY Zenon, <2>1 DEF AttemptBegins, RefreshLease
      <3> QED BY ZenonT(40), <2>1, <3>1, <3>2, <3>3 DEF AttemptBegins
    <2>2. CASE TurnStarts(r)
      BY <2>2, GoalType DEF TurnStarts, TurnPc, Throws, TurnFrame
    <2> QED BY Zenon, <1>20, <2>1, <2>2
  <1>21. ASSUME NEW r \in Runs, TurnCompletes(r) PROVE TypeOK'
    BY <1>21, PersistType, GoalType DEF TurnCompletes, Throws, TurnFrame
  <1>22. ASSUME NEW r \in Runs, TurnStopped(r) PROVE TypeOK'
    BY <1>22, PersistType, GoalType DEF TurnStopped, FailsAttempt, Throws, TurnFrame
  <1>23. ASSUME NEW r \in Runs, TurnFails(r) PROVE TypeOK'
    BY <1>23, PersistType, GoalType DEF TurnFails, FailsAttempt, Throws, TurnFrame
  <1>24. ASSUME NEW r \in Runs, TurnRecovers(r) PROVE TypeOK'
    BY Zenon, <1>24, PersistType DEF TurnRecovers, TurnFrame
  <1>25. ASSUME NEW r \in Runs, TurnLost(r) PROVE TypeOK'
    BY <1>25 DEF TurnLost, TurnFrame, Event
  <1>26. ASSUME NEW r \in Runs, LoopCloses(r) PROVE TypeOK'
    BY <1>26 DEF LoopCloses, Stopping
  <1>27. ASSUME NEW r \in Runs, LoopCloseFails(r) PROVE TypeOK'
    BY <1>27 DEF LoopCloseFails, Stopping, Event
  <1>28. ASSUME NEW r \in Runs, LoopFinalizes(r) PROVE TypeOK'
    BY Zenon, <1>28 DEF LoopFinalizes, DropRuntime
  <1>29. ASSUME NEW r \in Runs, LoopReleases(r) PROVE TypeOK'
    BY Zenon, <1>29 DEF LoopReleases, ReleaseRun
  <1>30. ASSUME NEW r \in Runs, LoopSettles(r) PROVE TypeOK'
    <2>1. /\ pc' \in [Runs -> LoopPc] /\ goal' \in [Runs -> Goals]
          /\ owner' \in [Runs -> Jobs \cup {NoJob}] /\ held' \in [Runs -> BOOLEAN]
          /\ req' \in [Actors -> Requests]
      BY Zenon, <1>30, RetireType DEF LoopSettles
    <2>2. /\ status' \in [Jobs -> JobStatus] /\ lease' \in [Jobs -> {"none", "local", "stale"}]
          /\ cont' \in [Jobs -> BOOLEAN]
      BY ZenonT(40), <1>30, SetStatusType DEF LoopSettles
    <2>3. unresolved' \in [Jobs -> Runs \cup {NoRun, OldRun}]
      BY <1>30 DEF LoopSettles, Forget
    <2> QED BY Zenon, <1>30, <2>1, <2>2, <2>3 DEF LoopSettles
  <1>31. ASSUME NEW r \in Runs, LeaseExpires(r) PROVE TypeOK'
    BY <1>31 DEF LeaseExpires, SlotsInUse, Event
  <1>32. ASSUME NEW c \in Clients, PauseActs(c) PROVE TypeOK'
    BY Zenon, <1>32, SetStatusType, GoToType, FinishType DEF PauseActs, At
  <1>33. ASSUME NEW c \in Clients, ContinueActs(c) PROVE TypeOK'
    BY Zenon, <1>33, FinishType, GoToType DEF ContinueActs, At
  <1>34. ASSUME NEW c \in Clients, ContinueSettles(c) PROVE TypeOK'
    <2>1. req[c].job \in Jobs /\ req' \in [Actors -> Requests]
      BY Zenon, <1>34, FinishType DEF ContinueSettles, At, LoopInv, HandlerInv
    <2>2. /\ status' \in [Jobs -> JobStatus] /\ lease' \in [Jobs -> {"none", "local", "stale"}]
          /\ unresolved' \in [Jobs -> Runs \cup {NoRun, OldRun}] /\ cont' \in [Jobs -> BOOLEAN]
      <3>1. CASE OldRunSettles(req[c].job) \/ ~ContinueDue(req[c].job)
        BY Zenon, <1>34, <3>1 DEF ContinueSettles, SettleContinue
      <3>2. CASE ~OldRunSettles(req[c].job) /\ ContinueDue(req[c].job)
        BY ZenonT(40), <1>34, <2>1, <3>2, SetStatusType DEF ContinueSettles, SettleContinue
      <3> QED BY Zenon, <3>1, <3>2
    <2> QED BY Zenon, <1>34, <2>1, <2>2 DEF ContinueSettles
  <1>35. ASSUME NEW c \in Clients, RestartActs(c) PROVE TypeOK'
    BY ZenonT(40), <1>35, SetStatusType, FinishType, GoToType DEF RestartActs, At
  <1>36. ASSUME NEW c \in Clients, RestartLeases(c) PROVE TypeOK'
    <2>1. req' \in [Actors -> Requests]
      BY Zenon, <1>36, GoToType, FinishType DEF RestartLeases, Stages
    <2>2. status' \in [Jobs -> JobStatus] /\ lease' \in [Jobs -> {"none", "local", "stale"}]
      <3>1. CASE /\ status' = [status EXCEPT ![req[c].job] = "running"]
                 /\ lease' = [lease EXCEPT ![req[c].job] = "local"]
        BY Zenon, <3>1 DEF JobStatus
      <3>2. CASE SetStatus(req[c].job, "pending")
        BY <3>2, SetStatusType DEF JobStatus
      <3> QED BY Zenon, <1>36, <3>1, <3>2 DEF RestartLeases
    <2>3. control' \in [Jobs -> {"none", "running", "paused", "cancelling"}]
      BY Zenon, <1>36 DEF RestartLeases
    <2> QED BY Zenon, <1>36, <2>1, <2>2, <2>3 DEF RestartLeases
  <1>37. ASSUME NEW c \in Clients, RestartSchedules(c) PROVE TypeOK'
    <2>1. req[c].job \in Jobs
      BY Zenon, <1>37 DEF RestartSchedules, LoopInv, HandlerInv
    <2>2. status' \in [Jobs -> JobStatus] /\ lease' \in [Jobs -> {"none", "local", "stale"}]
      BY Zenon, <1>37, SetStatusType DEF RestartSchedules
    <2>3. req' \in [Actors -> Requests]
      BY Zenon, <1>37, FinishType DEF RestartSchedules
    <2>4. /\ loops' \subseteq Jobs /\ control' \in [Jobs -> {"none", "running", "paused", "cancelling"}]
          /\ pc' \in [Runs -> LoopPc] /\ owner' \in [Runs -> Jobs \cup {NoJob}]
      BY ZenonT(40), <1>37, <2>1 DEF RestartSchedules, StartLoop, BeginClaim
    <2> QED BY Zenon, <1>37, <2>2, <2>3, <2>4 DEF RestartSchedules
  <1>38. ASSUME NEW c \in Clients, CancelActs(c) PROVE TypeOK'
    BY Zenon, <1>38, GoToType DEF CancelActs, At
  <1>39. ASSUME NEW c \in Clients, CancelWrites(c) PROVE TypeOK'
    BY Zenon, <1>39, SetStatusType, GoToType DEF CancelWrites, At
  <1>40. ASSUME NEW c \in Clients, CancelDrops(c) PROVE TypeOK'
    BY Zenon, <1>40, GoToType DEF CancelDrops, At, DropRuntime
  <1>41. ASSUME NEW c \in Clients, StopBegins(c) PROVE TypeOK'
    <2>1. CASE activeRun[req[c].job] = NoRun
      BY ZenonT(40), <1>41, <2>1, FinishType DEF StopBegins
    <2>2. CASE activeRun[req[c].job] # NoRun
      <3> DEFINE r == activeRun[req[c].job]
      <3>1. r \in Runs
        BY <1>41, <2>2 DEF StopBegins, LoopInv, HandlerInv
      <3>2. [[req[c] EXCEPT !.at = "kill"] EXCEPT !.run = r] \in Requests
        <4>1. req[c] \in Requests
          BY Zenon
        <4> QED BY Zenon, <3>1, <4>1 DEF Requests
      <3>3. req' \in [Actors -> Requests]
        BY ZenonT(40), <1>41, <2>2, <3>2 DEF StopBegins
      <3> QED BY <1>41, <2>2, <3>1, <3>3 DEF StopBegins, Stopping
    <2> QED BY Zenon, <2>1, <2>2
  <1>42. ASSUME NEW a \in Actors, StopEnds(a) PROVE TypeOK'
    BY <1>42, FinishType DEF StopEnds, ReleaseRun, StopFails, Stopping, Event
  <1>43. ASSUME NEW c \in Clients, NEW op \in Ops, NEW j \in Jobs, Request(c, op, j)
        PROVE  TypeOK'
    <2>1. [Idle EXCEPT !.op = op, !.at = "act", !.job = j,
                       !.seen = IF op \in {"pause", "continue"} THEN status[j] ELSE @] \in Requests
      BY ZenonT(40), <1>43 DEF Idle, Requests, Request
    <2> QED BY <1>43, <2>1 DEF Request, Event
  <1>44. ASSUME NEW r \in Runs, ReconcileSlot(r) PROVE TypeOK'
    <2>1. [Idle EXCEPT !.op = "reconcile", !.at = "kill", !.run = r] \in Requests
      BY Zenon DEF Idle, Requests
    <2> QED BY Zenon, <1>44, <2>1 DEF ReconcileSlot, SlotsInUse, Stopping
  <1>45. ASSUME NEW j \in Jobs, ReconcilesFresh(j) PROVE TypeOK'
    BY <1>45, ReconcileJobType DEF ReconcilesFresh
  <1>46. ASSUME NEW j \in Jobs, ReconcileReads(j) PROVE TypeOK'
    <2>1. [Idle EXCEPT !.op = "reconcile", !.at = "act", !.job = j, !.seen = status[j],
                       !.cont = cont[j]] \in Requests
      BY ZenonT(40) DEF Idle, Requests
    <2> QED BY <1>46, <2>1 DEF ReconcileReads, Event
  <1>47. ASSUME ReconcileChecks PROVE TypeOK'
    BY <1>47, FinishType, GoToType DEF ReconcileChecks, At, RefreshLease
  <1>48. ASSUME ReconcileWrites PROVE TypeOK'
    <2>1. /\ req[Reconciler].job \in Jobs /\ req[Reconciler].cont \in BOOLEAN
      BY Zenon, <1>48, RequestFields DEF ReconcileWrites, At, LoopInv, HandlerInv
    <2>2. ReconcileJob(req[Reconciler].job, req[Reconciler].seen, req[Reconciler].cont)
      BY Zenon, <1>48 DEF ReconcileWrites
    <2>3. /\ status' \in [Jobs -> JobStatus] /\ lease' \in [Jobs -> {"none", "local", "stale"}]
          /\ unresolved' \in [Jobs -> Runs \cup {NoRun, OldRun}] /\ cont' \in [Jobs -> BOOLEAN]
          /\ starting' \subseteq Runs
      <3> HIDE DEF TypeOK, JobStatus
      <3> QED BY Zenon, <2>1, <2>2, ReconcileJobType
    <2> QED BY Zenon, <1>48, <2>3, FinishType DEF ReconcileWrites
  <1>49. ASSUME ReconcilerAdvances PROVE TypeOK'
    BY Zenon, <1>49 DEF ReconcilerAdvances
  <1>50. ASSUME Crash PROVE TypeOK'
    <2>1. req' \in [Actors -> Requests] /\ goal' \in [Runs -> Goals]
      BY Zenon, <1>50, IdleType, NoGoalType DEF Crash
    <2>2. owner' \in [Runs -> Jobs \cup {NoJob}] /\ run' \in [Runs -> RunStatus]
      BY Zenon, <1>50 DEF Crash
    <2>3. /\ lease' \in [Jobs -> {"none", "local", "stale"}]
          /\ unresolved' \in [Jobs -> Runs \cup {NoRun, OldRun}]
      BY Zenon, <1>50 DEF Crash
    <2>4. /\ pc' \in [Runs -> LoopPc] /\ held' \in [Runs -> BOOLEAN] /\ starting' \subseteq Runs
          /\ loops' \subseteq Jobs /\ control' \in [Jobs -> {"none", "running", "paused", "cancelling"}]
      BY Zenon, <1>50 DEF Crash
    <2>5. events' \in 0..MaxEvents
      BY <1>50 DEF Crash, Event
    <2> QED BY Zenon, <1>50, <2>1, <2>2, <2>3, <2>4, <2>5 DEF Crash
  <1>51. ASSUME Startup PROVE TypeOK'
    BY Zenon, <1>51 DEF Startup, StartupRuns, StartupStatus
  <1>52. ASSUME UNCHANGED vars PROVE TypeOK'
    BY Zenon, <1>52 DEF vars
  <1> HIDE DEF TypeOK
  <1>53. ASSUME Advance PROVE TypeOK'
    BY Zenon, <1>53, <1>2, <1>3, <1>4, <1>5, <1>6, <1>7 DEF Advance
  <1>54. ASSUME NEW r \in Runs, Loop(r) PROVE TypeOK'
    BY Zenon, <1>54, <1>8, <1>9, <1>10, <1>11, <1>12, <1>13, <1>14, <1>15, <1>16, <1>17, <1>18,
       <1>19, <1>20, <1>21, <1>22, <1>23, <1>24, <1>25, <1>26, <1>27, <1>28, <1>29, <1>30 DEF
       Loop, LoopActs
  <1>55. ASSUME NEW c \in Clients, Handler(c) PROVE TypeOK'
    BY Zenon, <1>55, <1>32, <1>33, <1>34, <1>35, <1>36, <1>37, <1>38, <1>39, <1>40, <1>41, <1>42
       DEF Handler, Actors
  <1>56. ASSUME Reconcile PROVE TypeOK'
    BY Zenon, <1>56, <1>42, <1>44, <1>45, <1>46, <1>47, <1>48, <1>49 DEF Reconcile, Actors
  <1> QED BY Zenon, <1>1, <1>31, <1>43, <1>50, <1>51, <1>52, <1>53, <1>54, <1>55, <1>56 DEF Next
=============================================================================
