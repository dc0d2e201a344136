------------------------- MODULE JobExecutionProofs -------------------------
(*****************************************************************************)
(* Safety of job execution for any number of jobs, users, runs and clients   *)
(* and any bound on the events, with every fault enabled or not.             *)
(*****************************************************************************)
EXTENDS JobExecutionLoops

\* An attempt that has not started its provider: its run waits for the save, the job has
\* no attempt of unknown outcome, and no other attempt of the job is starting.
AttemptInv ==
    \A r \in starting : /\ pc[r] = "begin" /\ unresolved[owner[r]] = NoRun
                        /\ \A s \in starting : owner[s] = owner[r] => s = r

\* The inductive invariant.
SlotInv == OneSlot /\ SlotNamesOwner
IInv == TypeOK /\ SlotInv /\ LoopInv /\ AttemptInv

\* What keeps the slot properties: slots only go away, and the rows that named them
\* forget them.
LEMMA SlotsShrink ==
    ASSUME SlotInv, SlotsInUse' \subseteq SlotsInUse,
           \A r \in SlotsInUse' : owner'[r] = owner[r],
           \A j \in Jobs : activeRun'[j] = IF activeRun[j] \in SlotsInUse' THEN activeRun[j] ELSE NoRun
    PROVE  SlotInv'
  <1>1. OneSlot'
    BY Zenon DEF SlotInv, OneSlot
  <1>2. SlotNamesOwner'
    BY DEF SlotInv, SlotNamesOwner
  <1> QED BY Zenon, <1>1, <1>2 DEF SlotInv

\* A step that leaves run rows, slots and active_run_id alone.
LEMMA SlotsSame ==
    ASSUME SlotInv, UNCHANGED <<activeRun, owner, run>>
    PROVE  SlotInv'
  BY Zenon DEF SlotInv, OneSlot, SlotNamesOwner, SlotsInUse

\* markRunCancelling and the quarantine keep the slot.
LEMMA SlotsMarked ==
    ASSUME TypeOK, SlotInv, NEW r \in Runs, NEW s \in OpenRun, Stopping(r, s),
           UNCHANGED <<activeRun, owner>>
    PROVE  SlotInv'
  <1>1. SlotsInUse' = SlotsInUse
    BY Zenon DEF TypeOK, Stopping, SlotsInUse
  <1> QED BY Zenon, <1>1 DEF SlotInv, OneSlot, SlotNamesOwner

\* A run row of job j appears only while no slot is in use.
LEMMA SlotClaimed ==
    ASSUME TypeOK, SlotInv, SlotsInUse = {}, NEW r \in Runs, NEW j \in Jobs, OpenSlot(r, j)
    PROVE  SlotInv'
  <1>1. SlotsInUse' = {r}
    BY Zenon DEF TypeOK, OpenSlot, SlotsInUse, OpenRun
  <1>2. \A k \in Jobs : activeRun[k] = NoRun
    BY Zenon DEF SlotInv, SlotNamesOwner
  <1>3. /\ owner'[r] = j /\ activeRun'[j] = r
        /\ \A k \in Jobs \ {j} : activeRun'[k] = NoRun
    BY Zenon, <1>2 DEF TypeOK, OpenSlot
  <1> QED BY Zenon, <1>1, <1>3 DEF SlotInv, OneSlot, SlotNamesOwner

\* releaseWorkloadSlot.
LEMMA SlotReleased ==
    ASSUME TypeOK, SlotInv, NEW r \in Runs,
           run'[r] \notin OpenRun, \A q \in Runs \ {r} : run'[q] = run[q] /\ owner'[q] = owner[q],
           \A j \in Jobs : activeRun'[j] = IF activeRun[j] = r THEN NoRun ELSE activeRun[j]
    PROVE  SlotInv'
  <1>1. SlotsInUse' = SlotsInUse \ {r}
    BY Zenon DEF TypeOK, SlotsInUse, OpenRun
  <1>2. SlotsInUse \subseteq Runs
    BY Zenon DEF SlotsInUse
  <1>3. \A j \in Jobs : activeRun[j] \in SlotsInUse \cup {NoRun}
    BY Zenon DEF SlotInv, SlotNamesOwner
  <1>4. \A j \in Jobs : activeRun'[j] = IF activeRun[j] \in SlotsInUse' THEN activeRun[j] ELSE NoRun
    BY Zenon, <1>1, <1>3
  <1> QED BY Zenon, <1>1, <1>2, <1>4, SlotsShrink

\* The run id of a loop without a slot is taken or given back.
LEMMA SlotlessLoop ==
    ASSUME TypeOK, SlotInv, NEW r \in Runs, run[r] \notin OpenRun,
           run'[r] \notin OpenRun, \A q \in Runs \ {r} : run'[q] = run[q] /\ owner'[q] = owner[q],
           UNCHANGED activeRun
    PROVE  SlotInv'
  <1>1. SlotsInUse' = SlotsInUse /\ r \notin SlotsInUse /\ SlotsInUse \subseteq Runs
    BY Zenon DEF TypeOK, SlotsInUse, OpenRun
  <1> QED BY ZenonT(40), <1>1 DEF SlotInv, OneSlot, SlotNamesOwner

\* Claims need a free pool; releases clear the row that names the run.
LEMMA SlotStep == IInv /\ [Next]_vars => SlotInv'
  <1> SUFFICES ASSUME IInv, [Next]_vars PROVE SlotInv'
    BY Zenon
  <1> USE DEF IInv, rowVars, attemptVars, runVars, loopVars, memVars, queueVars
  <1>1. ASSUME NEW j \in Jobs, Launch(j) PROVE SlotInv'
    BY Zenon, <1>1, SlotsSame DEF Launch
  <1>2. ASSUME NEW j \in Jobs, AdvanceHoldsUncertain(j) PROVE SlotInv'
    BY Zenon, <1>2, SlotsSame DEF AdvanceHoldsUncertain
  <1>3. ASSUME NEW j \in Jobs, AdvanceResumes(j) PROVE SlotInv'
    <2>1. PICK r \in Runs : Fresh(r) /\ BeginClaim(r, j)
      BY Zenon, <1>3 DEF AdvanceResumes
    <2>2. run[r] \notin OpenRun /\ \A q \in Runs \ {r} : owner'[q] = owner[q]
      BY Zenon, <2>1 DEF Fresh, BeginClaim, OpenRun, TypeOK
    <2>3. UNCHANGED <<run, activeRun>>
      BY Zenon, <1>3 DEF AdvanceResumes
    <2> QED BY Zenon, <2>2, <2>3, SlotlessLoop
  <1>4. ASSUME NEW j \in Jobs, AdvanceSkipsRunning(j) PROVE SlotInv'
    BY Zenon, <1>4, SlotsSame DEF AdvanceSkipsRunning
  <1>5. ASSUME NEW j \in Jobs, AdvancePicks(j) PROVE SlotInv'
    BY Zenon, <1>5, SlotsSame DEF AdvancePicks
  <1>6. ASSUME NEW j \in Jobs, AdvanceClaims(j) PROVE SlotInv'
    <2>1. CASE SlotsInUse = {} /\ \E r \in Runs : OpenSlot(r, j)
      BY Zenon, <1>6, <2>1, SlotClaimed DEF AdvanceClaims
    <2>2. CASE UNCHANGED <<activeRun, owner, run>>
      BY Zenon, <1>6, <2>2, SlotsSame DEF AdvanceClaims
    <2> QED BY Zenon, <1>6, <2>1, <2>2 DEF AdvanceClaims, MayClaim
  <1>7. ASSUME AdvanceStops PROVE SlotInv'
    BY Zenon, <1>7, SlotsSame DEF AdvanceStops
  <1>8. ASSUME NEW r \in Runs, ScheduleStarts(r) PROVE SlotInv'
    BY Zenon, <1>8, SlotsSame DEF ScheduleStarts
  <1>9. ASSUME NEW r \in Runs, ScheduleRefused(r) PROVE SlotInv'
    <2>1. /\ run'[r] \notin OpenRun /\ \A q \in Runs \ {r} : run'[q] = run[q] /\ owner'[q] = owner[q]
          /\ \A j \in Jobs : activeRun'[j] = IF activeRun[j] = r THEN NoRun ELSE activeRun[j]
      BY Zenon, <1>9 DEF ScheduleRefused, Retire, TypeOK, OpenRun
    <2> QED BY Zenon, <2>1, SlotReleased
  <1>10. ASSUME NEW r \in Runs, LoopClaims(r) PROVE SlotInv'
    <2>1. owner[r] \in Jobs
      BY Zenon, <1>10 DEF LoopClaims, LoopInv
    <2>2. CASE SlotsInUse = {}
      BY Zenon, <1>10, <2>1, <2>2, SlotClaimed DEF LoopClaims
    <2>3. CASE SlotsInUse # {}
      BY Zenon, <1>10, <2>3, SlotsSame DEF LoopClaims
    <2> QED BY Zenon, <2>2, <2>3
  <1>11. ASSUME NEW r \in Runs, LoopAbandoned(r) PROVE SlotInv'
    <2>1. run[r] \notin OpenRun
      BY Zenon, <1>11 DEF LoopAbandoned, LoopInv
    <2>2. /\ run'[r] \notin OpenRun /\ \A q \in Runs \ {r} : run'[q] = run[q] /\ owner'[q] = owner[q]
      BY Zenon, <1>11, <2>1 DEF LoopAbandoned, Retire, TypeOK, OpenRun
    <2>3. UNCHANGED activeRun
      BY Zenon, <1>11 DEF LoopAbandoned
    <2> QED BY Zenon, <2>1, <2>2, <2>3, SlotlessLoop
  <1>12. ASSUME NEW r \in Runs, LoopLacksWorkspace(r) PROVE SlotInv'
    <2>1. /\ run'[r] \notin OpenRun /\ \A q \in Runs \ {r} : run'[q] = run[q] /\ owner'[q] = owner[q]
          /\ \A j \in Jobs : activeRun'[j] = IF activeRun[j] = r THEN NoRun ELSE activeRun[j]
      BY Zenon, <1>12 DEF LoopLacksWorkspace, ReleaseRun, TypeOK, OpenRun
    <2> QED BY Zenon, <2>1, SlotReleased
  <1>13. ASSUME NEW r \in Runs, LoopInit(r) PROVE SlotInv'
    BY Zenon, <1>13, SlotsSame DEF LoopInit
  <1>14. ASSUME NEW r \in Runs, LoopChecks(r) PROVE SlotInv'
    BY Zenon, <1>14, SlotsSame DEF LoopChecks
  <1>15. ASSUME NEW r \in Runs, LoopWrites(r) PROVE SlotInv'
    BY Zenon, <1>15, SlotsSame DEF LoopWrites
  <1>16. ASSUME NEW r \in Runs, LoopStops(r) PROVE SlotInv'
    BY Zenon, <1>16, SlotsSame DEF LoopStops
  <1>17. ASSUME NEW r \in Runs, LoopConcludes(r) PROVE SlotInv'
    BY Zenon, <1>17, SlotsSame DEF LoopConcludes
  <1>18. ASSUME NEW r \in Runs, LoopThrows(r) PROVE SlotInv'
    BY Zenon, <1>18, SlotsSame DEF LoopThrows, TurnFrame
  <1>19. ASSUME NEW r \in Runs, LoopReverts(r) PROVE SlotInv'
    BY Zenon, <1>19, SlotsSame DEF LoopReverts
  <1>20. ASSUME NEW r \in Runs, AttemptBegins(r) \/ TurnStarts(r) PROVE SlotInv'
    BY Zenon, <1>20, SlotsSame DEF AttemptBegins, TurnStarts, TurnFrame
  <1>21. ASSUME NEW r \in Runs, TurnCompletes(r) PROVE SlotInv'
    BY Zenon, <1>21, SlotsSame DEF TurnCompletes, TurnFrame
  <1>22. ASSUME NEW r \in Runs, TurnStopped(r) PROVE SlotInv'
    BY Zenon, <1>22, SlotsSame DEF TurnStopped, TurnFrame
  <1>23. ASSUME NEW r \in Runs, TurnFails(r) PROVE SlotInv'
    BY Zenon, <1>23, SlotsSame DEF TurnFails, TurnFrame
  <1>24. ASSUME NEW r \in Runs, TurnRecovers(r) PROVE SlotInv'
    BY Zenon, <1>24, SlotsSame DEF TurnRecovers, TurnFrame
  <1>25. ASSUME NEW r \in Runs, TurnLost(r) PROVE SlotInv'
    BY Zenon, <1>25, SlotsSame DEF TurnLost, TurnFrame
  <1>26. ASSUME NEW r \in Runs, LoopCloses(r) PROVE SlotInv'
    <2>1. UNCHANGED <<activeRun, owner>>
      BY Zenon, <1>26 DEF LoopCloses
    <2>2. Stopping(r, "cancelling") \/ UNCHANGED run
      BY Zenon, <1>26 DEF LoopCloses
    <2> QED BY Zenon, <2>1, <2>2, SlotsSame, SlotsMarked DEF OpenRun
  <1>27. ASSUME NEW r \in Runs, LoopCloseFails(r) PROVE SlotInv'
    <2>1. UNCHANGED <<activeRun, owner>> /\ Stopping(r, "stopping")
      BY Zenon, <1>27 DEF LoopCloseFails
    <2> QED BY Zenon, <2>1, SlotsMarked DEF OpenRun
  <1>28. ASSUME NEW r \in Runs, LoopFinalizes(r) PROVE SlotInv'
    BY Zenon, <1>28, SlotsSame DEF LoopFinalizes
  <1>29. ASSUME NEW r \in Runs, LoopReleases(r) PROVE SlotInv'
    <2>1. /\ run'[r] \notin OpenRun /\ \A q \in Runs \ {r} : run'[q] = run[q] /\ owner'[q] = owner[q]
          /\ \A j \in Jobs : activeRun'[j] = IF activeRun[j] = r THEN NoRun ELSE activeRun[j]
      BY Zenon, <1>29 DEF LoopReleases, ReleaseRun, TypeOK, OpenRun
    <2> QED BY Zenon, <2>1, SlotReleased
  <1>30. ASSUME NEW r \in Runs, LoopSettles(r) PROVE SlotInv'
    <2>1. run[r] \notin OpenRun
      BY Zenon, <1>30 DEF LoopSettles, LoopInv
    <2>2. /\ run'[r] \notin OpenRun /\ \A q \in Runs \ {r} : run'[q] = run[q] /\ owner'[q] = owner[q]
      BY Zenon, <1>30, <2>1 DEF LoopSettles, Retire, TypeOK, OpenRun
    <2>3. UNCHANGED activeRun
      BY Zenon, <1>30 DEF LoopSettles
    <2> QED BY Zenon, <2>1, <2>2, <2>3, SlotlessLoop
  <1>31. ASSUME NEW r \in Runs, LeaseExpires(r) PROVE SlotInv'
    BY Zenon, <1>31, SlotsSame DEF LeaseExpires
  <1>32. ASSUME NEW c \in Clients, PauseActs(c) PROVE SlotInv'
    BY Zenon, <1>32, SlotsSame DEF PauseActs
  <1>33. ASSUME NEW c \in Clients, ContinueActs(c) PROVE SlotInv'
    BY Zenon, <1>33, SlotsSame DEF ContinueActs
  <1>34. ASSUME NEW c \in Clients, ContinueSettles(c) PROVE SlotInv'
    BY Zenon, <1>34, SlotsSame DEF ContinueSettles
  <1>35. ASSUME NEW c \in Clients, RestartActs(c) PROVE SlotInv'
    BY Zenon, <1>35, SlotsSame DEF RestartActs
  <1>36. ASSUME NEW c \in Clients, RestartLeases(c) PROVE SlotInv'
    BY Zenon, <1>36, SlotsSame DEF RestartLeases
  <1>37. ASSUME NEW c \in Clients, RestartSchedules(c) PROVE SlotInv'
    <2>1. CASE UNCHANGED owner
      BY Zenon, <1>37, <2>1, SlotsSame DEF RestartSchedules
    <2>2. CASE \E r \in Runs : Fresh(r) /\ BeginClaim(r, req[c].job)
      <3>1. PICK r \in Runs : Fresh(r) /\ BeginClaim(r, req[c].job)
        BY Zenon, <2>2
      <3>2. run[r] \notin OpenRun /\ \A q \in Runs \ {r} : owner'[q] = owner[q]
        BY Zenon, <3>1 DEF Fresh, BeginClaim, OpenRun, TypeOK
      <3>3. UNCHANGED <<run, activeRun>>
        BY Zenon, <1>37 DEF RestartSchedules
      <3> QED BY Zenon, <3>2, <3>3, SlotlessLoop
    <2> QED BY Zenon, <1>37, <2>1, <2>2 DEF RestartSchedules
  <1>38. ASSUME NEW c \in Clients, CancelActs(c) PROVE SlotInv'
    BY Zenon, <1>38, SlotsSame DEF CancelActs
  <1>39. ASSUME NEW c \in Clients, CancelWrites(c) PROVE SlotInv'
    BY Zenon, <1>39, SlotsSame DEF CancelWrites
  <1>40. ASSUME NEW c \in Clients, CancelDrops(c) PROVE SlotInv'
    BY Zenon, <1>40, SlotsSame DEF CancelDrops
  <1>41. ASSUME NEW c \in Clients, StopBegins(c) PROVE SlotInv'
    <2> DEFINE r == activeRun[req[c].job]
    <2>1. UNCHANGED <<activeRun, owner>>
      BY Zenon, <1>41 DEF StopBegins
    <2>2. CASE r = NoRun
      BY Zenon, <1>41, <2>1, <2>2, SlotsSame DEF StopBegins
    <2>3. CASE r # NoRun
      <3>1. r \in Runs
        BY Zenon, <1>41, <2>3 DEF StopBegins, LoopInv, HandlerInv, TypeOK, Actors
      <3>2. Stopping(r, "cancelling")
        BY Zenon, <1>41, <2>3 DEF StopBegins
      <3> QED BY Zenon, <2>1, <3>1, <3>2, SlotsMarked DEF OpenRun
    <2> QED BY Zenon, <2>2, <2>3
  <1>42. ASSUME NEW a \in Actors, StopEnds(a) PROVE SlotInv'
    <2> DEFINE r == req[a].run
    <2>1. r \in Runs \cup {NoRun}
      BY Zenon, RequestFields
    <2>2. CASE UNCHANGED <<run, activeRun, owner>>
      BY Zenon, <2>2, SlotsSame
    <2>3. CASE r \in Runs /\ ReleaseRun(r) /\ UNCHANGED owner
      <3>1. /\ run'[r] \notin OpenRun /\ \A q \in Runs \ {r} : run'[q] = run[q] /\ owner'[q] = owner[q]
            /\ \A j \in Jobs : activeRun'[j] = IF activeRun[j] = r THEN NoRun ELSE activeRun[j]
        BY Zenon, <2>3 DEF ReleaseRun, TypeOK, OpenRun
      <3> QED BY Zenon, <2>3, <3>1, SlotReleased
    <2>4. CASE r \in Runs /\ StopFails(r) /\ UNCHANGED owner
      BY Zenon, <2>4, SlotsMarked DEF StopFails, OpenRun
    <2> QED BY Zenon, <1>42, <2>1, <2>2, <2>3, <2>4 DEF StopEnds
  <1>43. ASSUME NEW c \in Clients, NEW op \in Ops, NEW j \in Jobs, Request(c, op, j)
        PROVE  SlotInv'
    BY Zenon, <1>43, SlotsSame DEF Request
  <1>44. ASSUME NEW r \in Runs, ReconcileSlot(r) PROVE SlotInv'
    <2>1. UNCHANGED <<activeRun, owner>> /\ Stopping(r, "cancelling")
      BY Zenon, <1>44 DEF ReconcileSlot
    <2> QED BY Zenon, <2>1, SlotsMarked DEF OpenRun
  <1>45. ASSUME NEW j \in Jobs, ReconcilesFresh(j) PROVE SlotInv'
    BY Zenon, <1>45, SlotsSame DEF ReconcilesFresh
  <1>46. ASSUME NEW j \in Jobs, ReconcileReads(j) PROVE SlotInv'
    BY Zenon, <1>46, SlotsSame DEF ReconcileReads
  <1>47. ASSUME ReconcileChecks PROVE SlotInv'
    BY Zenon, <1>47, SlotsSame DEF ReconcileChecks
  <1>48. ASSUME ReconcileWrites PROVE SlotInv'
    BY Zenon, <1>48, SlotsSame DEF ReconcileWrites
  <1>49. ASSUME ReconcilerAdvances PROVE SlotInv'
    BY Zenon, <1>49, SlotsSame DEF ReconcilerAdvances
  <1>50. ASSUME Crash PROVE SlotInv'
    <2>1. SlotsInUse' = SlotsInUse /\ \A r \in SlotsInUse : owner'[r] = owner[r]
      BY Zenon, <1>50 DEF Crash, SlotsInUse, OpenRun
    <2> QED BY ZenonT(40), <1>50, <2>1 DEF Crash, SlotInv, OneSlot, SlotNamesOwner
  <1>51. ASSUME Startup PROVE SlotInv'
    <2>1. SlotsInUse' = {}
      BY Zenon, <1>51 DEF Startup, StartupRuns, SlotsInUse, OpenRun
    <2>2. \A j \in Jobs : activeRun'[j] = NoRun
      BY Zenon, <1>51 DEF Startup, StartupRuns, LoopInv
    <2> QED BY Zenon, <2>1, <2>2 DEF SlotInv, OneSlot, SlotNamesOwner
  <1>52. ASSUME UNCHANGED vars PROVE SlotInv'
    BY Zenon, <1>52, SlotsSame DEF vars
  <1>53. ASSUME Advance PROVE SlotInv'
    BY Zenon, <1>53, <1>2, <1>3, <1>4, <1>5, <1>6, <1>7 DEF Advance
  <1>54. ASSUME NEW r \in Runs, Loop(r) PROVE SlotInv'
    BY Zenon, <1>54, <1>8, <1>9, <1>10, <1>11, <1>12, <1>13, <1>14, <1>15, <1>16, <1>17, <1>18,
       <1>19, <1>20, <1>21, <1>22, <1>23, <1>24, <1>25, <1>26, <1>27, <1>28, <1>29, <1>30 DEF
       Loop, LoopActs
  <1>55. ASSUME NEW c \in Clients, Handler(c) PROVE SlotInv'
    BY Zenon, <1>55, <1>32, <1>33, <1>34, <1>35, <1>36, <1>37, <1>38, <1>39, <1>40, <1>41, <1>42
       DEF Handler, Actors
  <1>56. ASSUME Reconcile PROVE SlotInv'
    BY Zenon, <1>56, <1>42, <1>44, <1>45, <1>46, <1>47, <1>48, <1>49 DEF Reconcile, Actors
  <1> QED BY Zenon, <1>1, <1>31, <1>43, <1>50, <1>51, <1>52, <1>53, <1>54, <1>55, <1>56 DEF Next

\* A step that leaves the loops alone, and after which a job without an attempt of
\* unknown outcome still has none.
LEMMA AttemptsSame ==
    ASSUME TypeOK, LoopInv, AttemptInv, starting' \subseteq starting, UNCHANGED <<pc, owner>>,
           \A j \in Jobs : unresolved[j] = NoRun => unresolved'[j] = NoRun
    PROVE  AttemptInv'
  <1>1. \A r \in starting : owner[r] \in Jobs
    BY Zenon DEF TypeOK, LoopInv, AttemptInv
  <1> QED BY Zenon, <1>1 DEF AttemptInv

\* The same for a step of the loop of run r, whose attempt is not starting.
LEMMA AttemptsMove ==
    ASSUME TypeOK, LoopInv, AttemptInv, NEW r \in Runs, pc[r] # "begin", starting' \subseteq starting,
           \A q \in Runs \ {r} : pc'[q] = pc[q] /\ owner'[q] = owner[q],
           \A j \in Jobs : unresolved[j] = NoRun => unresolved'[j] = NoRun
    PROVE  AttemptInv'
  <1>1. \A q \in starting : q \in Runs \ {r} /\ owner[q] \in Jobs
    BY Zenon DEF TypeOK, LoopInv, AttemptInv
  <1> QED BY ZenonT(40), <1>1 DEF AttemptInv

\* Interrupting a job's attempts leaves none of unknown outcome where there was none.
LEMMA ReconcileAttempts ==
    ASSUME TypeOK, NEW j, NEW seen, NEW intent, ReconcileJob(j, seen, intent)
    PROVE  /\ starting' \subseteq starting
           /\ \A k \in Jobs : unresolved[k] = NoRun => unresolved'[k] = NoRun
  <1>1. starting' \subseteq starting
    BY Zenon DEF ReconcileJob, OfOthers
  <1>2. CASE seen = "running"
    BY Zenon, <1>1, <1>2 DEF ReconcileJob, Uncertain, TypeOK
  <1>3. CASE seen # "running"
    BY Zenon, <1>1, <1>3 DEF ReconcileJob, TypeOK
  <1> QED BY Zenon, <1>2, <1>3

\* Only a run that saw no attempt of unknown outcome starts one, and it supersedes the
\* others of its job.
LEMMA AttemptStep == IInv /\ [Next]_vars => AttemptInv'
  <1> SUFFICES ASSUME IInv, [Next]_vars PROVE AttemptInv'
    BY Zenon
  <1> USE DEF IInv, rowVars, attemptVars, runVars, loopVars, memVars, queueVars
  <1>1. ASSUME NEW j \in Jobs, Launch(j) PROVE AttemptInv'
    BY Zenon, <1>1, AttemptsSame DEF Launch
  <1>2. ASSUME NEW j \in Jobs, AdvanceHoldsUncertain(j) PROVE AttemptInv'
    BY Zenon, <1>2, AttemptsSame DEF AdvanceHoldsUncertain
  <1>3. ASSUME NEW j \in Jobs, AdvanceResumes(j) PROVE AttemptInv'
    <2>1. CASE UNCHANGED <<pc, owner>>
      BY Zenon, <1>3, <2>1, AttemptsSame DEF AdvanceResumes
    <2>2. CASE \E r \in Runs : Fresh(r) /\ BeginClaim(r, j)
      <3>1. PICK r \in Runs : Fresh(r) /\ BeginClaim(r, j)
        BY Zenon, <2>2
      <3>2. starting' = starting /\ unresolved' = unresolved
        BY Zenon, <1>3 DEF AdvanceResumes
      <3>3. pc[r] # "begin" /\ \A q \in Runs \ {r} : pc'[q] = pc[q] /\ owner'[q] = owner[q]
        BY Zenon, <3>1 DEF TypeOK, Fresh, BeginClaim
      <3> QED BY Zenon, <3>2, <3>3, AttemptsMove
    <2> QED BY Zenon, <1>3, <2>1, <2>2 DEF AdvanceResumes
  <1>4. ASSUME NEW j \in Jobs, AdvanceSkipsRunning(j) PROVE AttemptInv'
    BY Zenon, <1>4, AttemptsSame DEF AdvanceSkipsRunning
  <1>5. ASSUME NEW j \in Jobs, AdvancePicks(j) PROVE AttemptInv'
    BY Zenon, <1>5, AttemptsSame DEF AdvancePicks
  <1>6. ASSUME NEW j \in Jobs, AdvanceClaims(j) PROVE AttemptInv'
    <2>1. CASE UNCHANGED <<pc, owner>>
      BY Zenon, <1>6, <2>1, AttemptsSame DEF AdvanceClaims
    <2>2. CASE \E r \in Runs : Fresh(r) /\ OpenSlot(r, j) /\ pc' = [pc EXCEPT ![r] = "scheduled"]
      <3>1. PICK r \in Runs : Fresh(r) /\ OpenSlot(r, j) /\ pc' = [pc EXCEPT ![r] = "scheduled"]
        BY Zenon, <2>2
      <3>2. starting' = starting /\ unresolved' = unresolved
        BY Zenon, <1>6 DEF AdvanceClaims
      <3>3. pc[r] # "begin" /\ \A q \in Runs \ {r} : pc'[q] = pc[q] /\ owner'[q] = owner[q]
        BY Zenon, <3>1 DEF TypeOK, Fresh, OpenSlot
      <3> QED BY Zenon, <3>2, <3>3, AttemptsMove
    <2> QED BY Zenon, <1>6, <2>1, <2>2 DEF AdvanceClaims
  <1>7. ASSUME AdvanceStops PROVE AttemptInv'
    BY Zenon, <1>7, AttemptsSame DEF AdvanceStops
  <1>8. ASSUME NEW r \in Runs, ScheduleStarts(r) PROVE AttemptInv'
    <2>1. starting' = starting /\ unresolved' = unresolved
      BY Zenon, <1>8 DEF ScheduleStarts
    <2>2. pc[r] # "begin" /\ \A q \in Runs \ {r} : pc'[q] = pc[q] /\ owner'[q] = owner[q]
      BY Zenon, <1>8 DEF ScheduleStarts, TypeOK
    <2> QED BY Zenon, <2>1, <2>2, AttemptsMove
  <1>9. ASSUME NEW r \in Runs, ScheduleRefused(r) PROVE AttemptInv'
    <2>1. starting' = starting /\ unresolved' = unresolved
      BY Zenon, <1>9 DEF ScheduleRefused
    <2>2. pc[r] # "begin" /\ \A q \in Runs \ {r} : pc'[q] = pc[q] /\ owner'[q] = owner[q]
      BY Zenon, <1>9 DEF ScheduleRefused, TypeOK, Retire
    <2> QED BY Zenon, <2>1, <2>2, AttemptsMove
  <1>10. ASSUME NEW r \in Runs, LoopClaims(r) PROVE AttemptInv'
    <2>1. starting' = starting /\ unresolved' = unresolved
      BY Zenon, <1>10 DEF LoopClaims
    <2>2. pc[r] # "begin" /\ \A q \in Runs \ {r} : pc'[q] = pc[q] /\ owner'[q] = owner[q]
      BY Zenon, <1>10 DEF LoopClaims, TypeOK, OpenSlot
    <2> QED BY Zenon, <2>1, <2>2, AttemptsMove
  <1>11. ASSUME NEW r \in Runs, LoopAbandoned(r) PROVE AttemptInv'
    <2>1. starting' = starting /\ unresolved' = unresolved
      BY Zenon, <1>11 DEF LoopAbandoned
    <2>2. pc[r] # "begin" /\ \A q \in Runs \ {r} : pc'[q] = pc[q] /\ owner'[q] = owner[q]
      BY Zenon, <1>11 DEF LoopAbandoned, TypeOK, Retire
    <2> QED BY Zenon, <2>1, <2>2, AttemptsMove
  <1>12. ASSUME NEW r \in Runs, LoopLacksWorkspace(r) PROVE AttemptInv'
    <2>1. starting' = starting /\ unresolved' = unresolved
      BY Zenon, <1>12 DEF LoopLacksWorkspace
    <2>2. pc[r] # "begin" /\ \A q \in Runs \ {r} : pc'[q] = pc[q] /\ owner'[q] = owner[q]
      BY Zenon, <1>12 DEF LoopLacksWorkspace, TypeOK
    <2> QED BY Zenon, <2>1, <2>2, AttemptsMove
  <1>13. ASSUME NEW r \in Runs, LoopInit(r) PROVE AttemptInv'
    <2>1. starting' = starting /\ unresolved' = unresolved
      BY Zenon, <1>13 DEF LoopInit
    <2>2. pc[r] # "begin" /\ \A q \in Runs \ {r} : pc'[q] = pc[q] /\ owner'[q] = owner[q]
      BY Zenon, <1>13 DEF LoopInit, TypeOK, Persist
    <2> QED BY Zenon, <2>1, <2>2, AttemptsMove
  <1>14. ASSUME NEW r \in Runs, LoopChecks(r) PROVE AttemptInv'
    <2>1. starting' = starting /\ unresolved' = unresolved
      BY Zenon, <1>14 DEF LoopChecks
    <2>2. pc[r] # "begin" /\ \A q \in Runs \ {r} : pc'[q] = pc[q] /\ owner'[q] = owner[q]
      BY Zenon, <1>14 DEF LoopChecks, TypeOK, Proceed
    <2> QED BY Zenon, <2>1, <2>2, AttemptsMove
  <1>15. ASSUME NEW r \in Runs, LoopWrites(r) PROVE AttemptInv'
    <2>1. starting' = starting /\ unresolved' = unresolved
      BY Zenon, <1>15 DEF LoopWrites
    <2>2. pc[r] # "begin" /\ \A q \in Runs \ {r} : pc'[q] = pc[q] /\ owner'[q] = owner[q]
      BY Zenon, <1>15 DEF LoopWrites, TypeOK, Proceed
    <2> QED BY Zenon, <2>1, <2>2, AttemptsMove
  <1>16. ASSUME NEW r \in Runs, LoopStops(r) PROVE AttemptInv'
    <2>1. starting' = starting /\ unresolved' = unresolved
      BY Zenon, <1>16 DEF LoopStops
    <2>2. pc[r] # "begin" /\ \A q \in Runs \ {r} : pc'[q] = pc[q] /\ owner'[q] = owner[q]
      BY Zenon, <1>16 DEF LoopStops, TypeOK, Persist
    <2> QED BY Zenon, <2>1, <2>2, AttemptsMove
  <1>17. ASSUME NEW r \in Runs, LoopConcludes(r) PROVE AttemptInv'
    <2>1. starting' = starting /\ unresolved' = unresolved
      BY Zenon, <1>17 DEF LoopConcludes
    <2>2. pc[r] # "begin" /\ \A q \in Runs \ {r} : pc'[q] = pc[q] /\ owner'[q] = owner[q]
      BY Zenon, <1>17 DEF LoopConcludes, TypeOK, Persist
    <2> QED BY Zenon, <2>1, <2>2, AttemptsMove
  <1>18. ASSUME NEW r \in Runs, LoopThrows(r) PROVE AttemptInv'
    <2>1. starting' = starting /\ unresolved' = unresolved
      BY Zenon, <1>18 DEF LoopThrows
    <2>2. pc[r] # "begin" /\ \A q \in Runs \ {r} : pc'[q] = pc[q] /\ owner'[q] = owner[q]
      BY Zenon, <1>18 DEF LoopThrows, TypeOK, Throws, TurnFrame
    <2> QED BY Zenon, <2>1, <2>2, AttemptsMove
  <1>19. ASSUME NEW r \in Runs, LoopReverts(r) PROVE AttemptInv'
    <2>1. starting' = starting /\ unresolved' = unresolved
      BY Zenon, <1>19 DEF LoopReverts
    <2>2. pc[r] # "begin" /\ \A q \in Runs \ {r} : pc'[q] = pc[q] /\ owner'[q] = owner[q]
      BY Zenon, <1>19 DEF LoopReverts, TypeOK, Proceed
    <2> QED BY Zenon, <2>1, <2>2, AttemptsMove
  <1>20. ASSUME NEW r \in Runs, AttemptBegins(r) \/ TurnStarts(r) PROVE AttemptInv'
    <2>0. owner[r] \in Jobs /\ owner' = owner /\ \A q \in Runs \ {r} : pc'[q] = pc[q]
      BY Zenon, <1>20 DEF AttemptBegins, TurnStarts, Throws, Persist, TurnFrame, TypeOK, LoopInv
    <2>1. CASE UNCHANGED attemptVars /\ pc[r] # "begin"
      BY Zenon, <2>0, <2>1, AttemptsMove
    <2>2. CASE /\ MayStartAttempt(r) /\ unresolved[owner[r]] # r /\ pc'[r] = "begin"
               /\ UNCHANGED unresolved /\ starting' = OfOthers(owner[r]) \cup {r}
      <3>1. pc'[r] = "begin" /\ unresolved[owner[r]] = NoRun
        BY Zenon, <2>2 DEF MayStartAttempt
      <3> QED BY ZenonT(40), <2>0, <2>2, <3>1 DEF AttemptInv, OfOthers, TypeOK
    <2>3. CASE pc[r] = "begin" /\ r \in starting
      <3>1. starting' = starting \ {r} /\ unresolved' = [unresolved EXCEPT ![owner[r]] = r]
        BY Zenon, <1>20, <2>3 DEF AttemptBegins, TurnStarts
      <3>2. \A q \in starting' : q \in Runs \ {r} /\ owner[q] # owner[r] /\ owner[q] \in Jobs
        BY Zenon, <2>3, <3>1 DEF AttemptInv, TypeOK, LoopInv
      <3> QED BY Zenon, <2>0, <3>1, <3>2 DEF AttemptInv, TypeOK
    <2>4. CASE pc[r] = "begin" /\ r \notin starting
      <3>1. UNCHANGED attemptVars
        BY Zenon, <1>20, <2>4 DEF AttemptBegins, TurnStarts
      <3> QED BY Zenon, <2>0, <2>4, <3>1 DEF AttemptInv, TypeOK
    <2>5. CASE AttemptBegins(r)
      <3>1. pc[r] = "loop" /\ UNCHANGED unresolved
        BY Zenon, <2>5 DEF AttemptBegins
      <3>2. CASE UNCHANGED starting
        BY Zenon, <2>1, <3>1, <3>2
      <3>3. CASE starting' # starting
        BY Zenon, <2>2, <2>5, <3>1, <3>3 DEF AttemptBegins, TypeOK
      <3> QED BY Zenon, <3>2, <3>3
    <2>6. CASE TurnStarts(r)
      BY Zenon, <2>1, <2>3, <2>4, <2>6 DEF TurnStarts
    <2> QED BY Zenon, <1>20, <2>5, <2>6
  <1>21. ASSUME NEW r \in Runs, TurnCompletes(r) PROVE AttemptInv'
    <2>1. starting' = starting /\ \A j \in Jobs : unresolved[j] = NoRun => unresolved'[j] = NoRun
      BY Zenon, <1>21 DEF TurnCompletes, TypeOK
    <2>2. pc[r] # "begin" /\ \A q \in Runs \ {r} : pc'[q] = pc[q] /\ owner'[q] = owner[q]
      BY Zenon, <1>21 DEF TurnCompletes, InTurn, Persist, Throws, TurnFrame, TypeOK
    <2> QED BY Zenon, <2>1, <2>2, AttemptsMove
  <1>22. ASSUME NEW r \in Runs, TurnStopped(r) PROVE AttemptInv'
    <2>1. starting' = starting /\ unresolved' = unresolved
      BY Zenon, <1>22 DEF TurnStopped
    <2>2. pc[r] # "begin" /\ \A q \in Runs \ {r} : pc'[q] = pc[q] /\ owner'[q] = owner[q]
      BY Zenon, <1>22 DEF TurnStopped, TypeOK, InTurn, FailsAttempt, Persist, Throws, TurnFrame
    <2> QED BY Zenon, <2>1, <2>2, AttemptsMove
  <1>23. ASSUME NEW r \in Runs, TurnFails(r) PROVE AttemptInv'
    <2>1. starting' = starting /\ unresolved' = unresolved
      BY Zenon, <1>23 DEF TurnFails
    <2>2. pc[r] # "begin" /\ \A q \in Runs \ {r} : pc'[q] = pc[q] /\ owner'[q] = owner[q]
      BY Zenon, <1>23 DEF TurnFails, TypeOK, InTurn, FailsAttempt, Persist, Throws, TurnFrame
    <2> QED BY Zenon, <2>1, <2>2, AttemptsMove
  <1>24. ASSUME NEW r \in Runs, TurnRecovers(r) PROVE AttemptInv'
    <2>1. starting' = starting /\ unresolved' = unresolved
      BY Zenon, <1>24 DEF TurnRecovers
    <2>2. pc[r] # "begin" /\ \A q \in Runs \ {r} : pc'[q] = pc[q] /\ owner'[q] = owner[q]
      BY Zenon, <1>24 DEF TurnRecovers, TypeOK, InTurn, FailsAttempt, Persist, Throws, TurnFrame
    <2> QED BY Zenon, <2>1, <2>2, AttemptsMove
  <1>25. ASSUME NEW r \in Runs, TurnLost(r) PROVE AttemptInv'
    <2>1. starting' = starting /\ unresolved' = unresolved
      BY Zenon, <1>25 DEF TurnLost
    <2>2. pc[r] # "begin" /\ \A q \in Runs \ {r} : pc'[q] = pc[q] /\ owner'[q] = owner[q]
      BY Zenon, <1>25 DEF TurnLost, TypeOK, InTurn, TurnFrame
    <2> QED BY Zenon, <2>1, <2>2, AttemptsMove
  <1>26. ASSUME NEW r \in Runs, LoopCloses(r) PROVE AttemptInv'
    <2>1. starting' = starting /\ unresolved' = unresolved
      BY Zenon, <1>26 DEF LoopCloses
    <2>2. pc[r] # "begin" /\ \A q \in Runs \ {r} : pc'[q] = pc[q] /\ owner'[q] = owner[q]
      BY Zenon, <1>26 DEF LoopCloses, TypeOK
    <2> QED BY Zenon, <2>1, <2>2, AttemptsMove
  <1>27. ASSUME NEW r \in Runs, LoopCloseFails(r) PROVE AttemptInv'
    <2>1. starting' = starting /\ unresolved' = unresolved
      BY Zenon, <1>27 DEF LoopCloseFails
    <2>2. pc[r] # "begin" /\ \A q \in Runs \ {r} : pc'[q] = pc[q] /\ owner'[q] = owner[q]
      BY Zenon, <1>27 DEF LoopCloseFails, TypeOK
    <2> QED BY Zenon, <2>1, <2>2, AttemptsMove
  <1>28. ASSUME NEW r \in Runs, LoopFinalizes(r) PROVE AttemptInv'
    <2>1. starting' = starting /\ unresolved' = unresolved
      BY Zenon, <1>28 DEF LoopFinalizes
    <2>2. pc[r] # "begin" /\ \A q \in Runs \ {r} : pc'[q] = pc[q] /\ owner'[q] = owner[q]
      BY Zenon, <1>28 DEF LoopFinalizes, TypeOK, DropRuntime
    <2> QED BY Zenon, <2>1, <2>2, AttemptsMove
  <1>29. ASSUME NEW r \in Runs, LoopReleases(r) PROVE AttemptInv'
    <2>1. starting' = starting /\ unresolved' = unresolved
      BY Zenon, <1>29 DEF LoopReleases
    <2>2. pc[r] # "begin" /\ \A q \in Runs \ {r} : pc'[q] = pc[q] /\ owner'[q] = owner[q]
      BY Zenon, <1>29 DEF LoopReleases, TypeOK, ReleaseRun
    <2> QED BY Zenon, <2>1, <2>2, AttemptsMove
  <1>30. ASSUME NEW r \in Runs, LoopSettles(r) PROVE AttemptInv'
    <2>1. starting' = starting /\ \A j \in Jobs : unresolved[j] = NoRun => unresolved'[j] = NoRun
      <3>1. NoRun # r
        BY Zenon, JobExecutionAssumption
      <3>2. CASE ContinueDue(owner[r])
        BY Zenon, <1>30, <3>1, <3>2 DEF LoopSettles, Forget, TypeOK
      <3>3. CASE ~ContinueDue(owner[r])
        BY Zenon, <1>30, <3>1, <3>3 DEF LoopSettles, Forget, TypeOK
      <3> QED BY Zenon, <3>2, <3>3
    <2>2. pc[r] # "begin" /\ \A q \in Runs \ {r} : pc'[q] = pc[q] /\ owner'[q] = owner[q]
      BY Zenon, <1>30 DEF LoopSettles, Retire, TypeOK
    <2> QED BY Zenon, <2>1, <2>2, AttemptsMove
  <1>31. ASSUME NEW r \in Runs, LeaseExpires(r) PROVE AttemptInv'
    BY Zenon, <1>31, AttemptsSame DEF LeaseExpires
  <1>32. ASSUME NEW c \in Clients, PauseActs(c) PROVE AttemptInv'
    BY Zenon, <1>32, AttemptsSame DEF PauseActs
  <1>33. ASSUME NEW c \in Clients, ContinueActs(c) PROVE AttemptInv'
    BY Zenon, <1>33, AttemptsSame DEF ContinueActs
  <1>34. ASSUME NEW c \in Clients, ContinueSettles(c) PROVE AttemptInv'
    <2>1. \A j \in Jobs : unresolved[j] = NoRun => unresolved'[j] = NoRun
      BY Zenon, <1>34 DEF ContinueSettles, SettleContinue, TypeOK
    <2> QED BY Zenon, <1>34, <2>1, AttemptsSame DEF ContinueSettles
  <1>35. ASSUME NEW c \in Clients, RestartActs(c) PROVE AttemptInv'
    <2>1. \A j \in Jobs : unresolved[j] = NoRun => unresolved'[j] = NoRun
      BY Zenon, <1>35 DEF RestartActs, TypeOK
    <2> QED BY Zenon, <1>35, <2>1, AttemptsSame DEF RestartActs
  <1>36. ASSUME NEW c \in Clients, RestartLeases(c) PROVE AttemptInv'
    BY Zenon, <1>36, AttemptsSame DEF RestartLeases
  <1>37. ASSUME NEW c \in Clients, RestartSchedules(c) PROVE AttemptInv'
    <2>1. CASE UNCHANGED <<pc, owner>>
      BY Zenon, <1>37, <2>1, AttemptsSame DEF RestartSchedules
    <2>2. CASE \E r \in Runs : Fresh(r) /\ BeginClaim(r, req[c].job)
      <3>1. PICK r \in Runs : Fresh(r) /\ BeginClaim(r, req[c].job)
        BY Zenon, <2>2
      <3>2. starting' = starting /\ unresolved' = unresolved
        BY Zenon, <1>37 DEF RestartSchedules
      <3>3. pc[r] # "begin" /\ \A q \in Runs \ {r} : pc'[q] = pc[q] /\ owner'[q] = owner[q]
        BY Zenon, <3>1 DEF TypeOK, Fresh, BeginClaim
      <3> QED BY Zenon, <3>2, <3>3, AttemptsMove
    <2> QED BY Zenon, <1>37, <2>1, <2>2 DEF RestartSchedules
  <1>38. ASSUME NEW c \in Clients, CancelActs(c) PROVE AttemptInv'
    BY Zenon, <1>38, AttemptsSame DEF CancelActs
  <1>39. ASSUME NEW c \in Clients, CancelWrites(c) PROVE AttemptInv'
    BY Zenon, <1>39, AttemptsSame DEF CancelWrites
  <1>40. ASSUME NEW c \in Clients, CancelDrops(c) PROVE AttemptInv'
    BY Zenon, <1>40, AttemptsSame DEF CancelDrops
  <1>41. ASSUME NEW c \in Clients, StopBegins(c) PROVE AttemptInv'
    BY Zenon, <1>41, AttemptsSame DEF StopBegins
  <1>42. ASSUME NEW a \in Actors, StopEnds(a) PROVE AttemptInv'
    BY Zenon, <1>42, AttemptsSame DEF StopEnds
  <1>43. ASSUME NEW c \in Clients, NEW op \in Ops, NEW j \in Jobs, Request(c, op, j)
        PROVE AttemptInv'
    BY Zenon, <1>43, AttemptsSame DEF Request
  <1>44. ASSUME NEW r \in Runs, ReconcileSlot(r) PROVE AttemptInv'
    BY Zenon, <1>44, AttemptsSame DEF ReconcileSlot
  <1>45. ASSUME NEW j \in Jobs, ReconcilesFresh(j) PROVE AttemptInv'
    <2>1. /\ starting' \subseteq starting
          /\ \A k \in Jobs : unresolved[k] = NoRun => unresolved'[k] = NoRun
      BY Zenon, <1>45, ReconcileAttempts DEF ReconcilesFresh
    <2> QED BY Zenon, <1>45, <2>1, AttemptsSame DEF ReconcilesFresh
  <1>46. ASSUME NEW j \in Jobs, ReconcileReads(j) PROVE AttemptInv'
    BY Zenon, <1>46, AttemptsSame DEF ReconcileReads
  <1>47. ASSUME ReconcileChecks PROVE AttemptInv'
    BY Zenon, <1>47, AttemptsSame DEF ReconcileChecks
  <1>48. ASSUME ReconcileWrites PROVE AttemptInv'
    <2>1. /\ starting' \subseteq starting
          /\ \A k \in Jobs : unresolved[k] = NoRun => unresolved'[k] = NoRun
      BY Zenon, <1>48, ReconcileAttempts DEF ReconcileWrites
    <2> QED BY Zenon, <1>48, <2>1, AttemptsSame DEF ReconcileWrites
  <1>49. ASSUME ReconcilerAdvances PROVE AttemptInv'
    BY Zenon, <1>49, AttemptsSame DEF ReconcilerAdvances
  <1>50. ASSUME Crash PROVE AttemptInv'
    BY Zenon, <1>50 DEF Crash, AttemptInv
  <1>51. ASSUME Startup PROVE AttemptInv'
    <2>1. starting' = {}
      BY Zenon, <1>51 DEF Startup, LoopInv, AttemptInv, TypeOK
    <2> QED BY Zenon, <2>1 DEF AttemptInv
  <1>52. ASSUME UNCHANGED vars PROVE AttemptInv'
    BY Zenon, <1>52, AttemptsSame DEF vars
  <1>53. ASSUME Advance PROVE AttemptInv'
    BY Zenon, <1>53, <1>2, <1>3, <1>4, <1>5, <1>6, <1>7 DEF Advance
  <1>54. ASSUME NEW r \in Runs, Loop(r) PROVE AttemptInv'
    BY Zenon, <1>54, <1>8, <1>9, <1>10, <1>11, <1>12, <1>13, <1>14, <1>15, <1>16, <1>17, <1>18,
       <1>19, <1>20, <1>21, <1>22, <1>23, <1>24, <1>25, <1>26, <1>27, <1>28, <1>29, <1>30 DEF
       Loop, LoopActs
  <1>55. ASSUME NEW c \in Clients, Handler(c) PROVE AttemptInv'
    BY Zenon, <1>55, <1>32, <1>33, <1>34, <1>35, <1>36, <1>37, <1>38, <1>39, <1>40, <1>41, <1>42
       DEF Handler, Actors
  <1>56. ASSUME Reconcile PROVE AttemptInv'
    BY Zenon, <1>56, <1>42, <1>44, <1>45, <1>46, <1>47, <1>48, <1>49 DEF Reconcile, Actors
  <1> QED BY Zenon, <1>1, <1>31, <1>43, <1>50, <1>51, <1>52, <1>53, <1>54, <1>55, <1>56 DEF Next

\* No step takes up an attempt of unknown outcome, or writes it off unasked.
LEMMA ReplayStep == IInv /\ [Next]_vars => [ReplayAuthorised]_vars
  <1> SUFFICES ASSUME TypeOK, AttemptInv, [Next]_vars PROVE ReplayAuthorised
    BY Zenon DEF IInv
  <1> USE DEF TypeOK, ReplayAuthorised, rowVars, attemptVars, runVars, loopVars, memVars, queueVars
  <1>1. ASSUME NEW j \in Jobs, Launch(j) PROVE ReplayAuthorised
    BY Zenon, <1>1 DEF Launch
  <1>2. ASSUME NEW j \in Jobs, AdvanceHoldsUncertain(j) PROVE ReplayAuthorised
    BY Zenon, <1>2 DEF AdvanceHoldsUncertain
  <1>3. ASSUME NEW j \in Jobs, AdvanceResumes(j) PROVE ReplayAuthorised
    BY Zenon, <1>3 DEF AdvanceResumes
  <1>4. ASSUME NEW j \in Jobs, AdvanceSkipsRunning(j) PROVE ReplayAuthorised
    BY Zenon, <1>4 DEF AdvanceSkipsRunning
  <1>5. ASSUME NEW j \in Jobs, AdvancePicks(j) PROVE ReplayAuthorised
    BY Zenon, <1>5 DEF AdvancePicks
  <1>6. ASSUME NEW j \in Jobs, AdvanceClaims(j) PROVE ReplayAuthorised
    BY Zenon, <1>6 DEF AdvanceClaims
  <1>7. ASSUME AdvanceStops PROVE ReplayAuthorised
    BY Zenon, <1>7 DEF AdvanceStops
  <1>8. ASSUME NEW r \in Runs, ScheduleStarts(r) PROVE ReplayAuthorised
    BY Zenon, <1>8 DEF ScheduleStarts
  <1>9. ASSUME NEW r \in Runs, ScheduleRefused(r) PROVE ReplayAuthorised
    BY Zenon, <1>9 DEF ScheduleRefused
  <1>10. ASSUME NEW r \in Runs, LoopClaims(r) PROVE ReplayAuthorised
    BY Zenon, <1>10 DEF LoopClaims
  <1>11. ASSUME NEW r \in Runs, LoopAbandoned(r) PROVE ReplayAuthorised
    BY Zenon, <1>11 DEF LoopAbandoned
  <1>12. ASSUME NEW r \in Runs, LoopLacksWorkspace(r) PROVE ReplayAuthorised
    BY Zenon, <1>12 DEF LoopLacksWorkspace
  <1>13. ASSUME NEW r \in Runs, LoopInit(r) PROVE ReplayAuthorised
    BY Zenon, <1>13 DEF LoopInit
  <1>14. ASSUME NEW r \in Runs, LoopChecks(r) PROVE ReplayAuthorised
    BY Zenon, <1>14 DEF LoopChecks
  <1>15. ASSUME NEW r \in Runs, LoopWrites(r) PROVE ReplayAuthorised
    BY Zenon, <1>15 DEF LoopWrites
  <1>16. ASSUME NEW r \in Runs, LoopStops(r) PROVE ReplayAuthorised
    BY Zenon, <1>16 DEF LoopStops
  <1>17. ASSUME NEW r \in Runs, LoopConcludes(r) PROVE ReplayAuthorised
    BY Zenon, <1>17 DEF LoopConcludes
  <1>18. ASSUME NEW r \in Runs, LoopThrows(r) PROVE ReplayAuthorised
    BY Zenon, <1>18 DEF LoopThrows, TurnFrame
  <1>19. ASSUME NEW r \in Runs, LoopReverts(r) PROVE ReplayAuthorised
    BY Zenon, <1>19 DEF LoopReverts
  <1>20. ASSUME NEW r \in Runs, AttemptBegins(r) \/ TurnStarts(r) PROVE ReplayAuthorised
    BY Zenon, <1>20 DEF AttemptBegins, TurnStarts, TurnFrame, AttemptInv
  <1>21. ASSUME NEW r \in Runs, TurnCompletes(r) PROVE ReplayAuthorised
    BY Zenon, <1>21 DEF TurnCompletes, TurnFrame
  <1>22. ASSUME NEW r \in Runs, TurnStopped(r) PROVE ReplayAuthorised
    BY Zenon, <1>22 DEF TurnStopped, TurnFrame
  <1>23. ASSUME NEW r \in Runs, TurnFails(r) PROVE ReplayAuthorised
    BY Zenon, <1>23 DEF TurnFails, TurnFrame
  <1>24. ASSUME NEW r \in Runs, TurnRecovers(r) PROVE ReplayAuthorised
    BY Zenon, <1>24 DEF TurnRecovers, TurnFrame
  <1>25. ASSUME NEW r \in Runs, TurnLost(r) PROVE ReplayAuthorised
    BY Zenon, <1>25 DEF TurnLost, TurnFrame
  <1>26. ASSUME NEW r \in Runs, LoopCloses(r) PROVE ReplayAuthorised
    BY Zenon, <1>26 DEF LoopCloses
  <1>27. ASSUME NEW r \in Runs, LoopCloseFails(r) PROVE ReplayAuthorised
    BY Zenon, <1>27 DEF LoopCloseFails
  <1>28. ASSUME NEW r \in Runs, LoopFinalizes(r) PROVE ReplayAuthorised
    BY Zenon, <1>28 DEF LoopFinalizes
  <1>29. ASSUME NEW r \in Runs, LoopReleases(r) PROVE ReplayAuthorised
    BY Zenon, <1>29 DEF LoopReleases
  <1>30. ASSUME NEW r \in Runs, LoopSettles(r) PROVE ReplayAuthorised
    BY Zenon, <1>30 DEF LoopSettles, Forget, ContinueDue
  <1>31. ASSUME NEW r \in Runs, LeaseExpires(r) PROVE ReplayAuthorised
    BY Zenon, <1>31 DEF LeaseExpires
  <1>32. ASSUME NEW c \in Clients, PauseActs(c) PROVE ReplayAuthorised
    BY Zenon, <1>32 DEF PauseActs, At
  <1>33. ASSUME NEW c \in Clients, ContinueActs(c) PROVE ReplayAuthorised
    BY Zenon, <1>33 DEF ContinueActs, At
  <1>34. ASSUME NEW c \in Clients, ContinueSettles(c) PROVE ReplayAuthorised
    BY Zenon, <1>34 DEF ContinueSettles, At, SettleContinue, ContinueDue
  <1>35. ASSUME NEW c \in Clients, RestartActs(c) PROVE ReplayAuthorised
    BY Zenon, <1>35 DEF RestartActs, At, Actors
  <1>36. ASSUME NEW c \in Clients, RestartLeases(c) PROVE ReplayAuthorised
    BY Zenon, <1>36 DEF RestartLeases
  <1>37. ASSUME NEW c \in Clients, RestartSchedules(c) PROVE ReplayAuthorised
    BY Zenon, <1>37 DEF RestartSchedules
  <1>38. ASSUME NEW c \in Clients, CancelActs(c) PROVE ReplayAuthorised
    BY Zenon, <1>38 DEF CancelActs, At
  <1>39. ASSUME NEW c \in Clients, CancelWrites(c) PROVE ReplayAuthorised
    BY Zenon, <1>39 DEF CancelWrites, At
  <1>40. ASSUME NEW c \in Clients, CancelDrops(c) PROVE ReplayAuthorised
    BY Zenon, <1>40 DEF CancelDrops, At
  <1>41. ASSUME NEW c \in Clients, StopBegins(c) PROVE ReplayAuthorised
    BY Zenon, <1>41 DEF StopBegins
  <1>42. ASSUME NEW a \in Actors, StopEnds(a) PROVE ReplayAuthorised
    BY Zenon, <1>42 DEF StopEnds
  <1>43. ASSUME NEW c \in Clients, NEW op \in Ops, NEW j \in Jobs, Request(c, op, j)
        PROVE  ReplayAuthorised
    BY Zenon, <1>43 DEF Request
  <1>44. ASSUME NEW r \in Runs, ReconcileSlot(r) PROVE ReplayAuthorised
    BY Zenon, <1>44 DEF ReconcileSlot
  <1>45. ASSUME NEW j \in Jobs, ReconcilesFresh(j) PROVE ReplayAuthorised
    BY Zenon, <1>45 DEF ReconcilesFresh, ReconcileJob, Uncertain
  <1>46. ASSUME NEW j \in Jobs, ReconcileReads(j) PROVE ReplayAuthorised
    BY Zenon, <1>46 DEF ReconcileReads
  <1>47. ASSUME ReconcileChecks PROVE ReplayAuthorised
    BY Zenon, <1>47 DEF ReconcileChecks, At
  <1>48. ASSUME ReconcileWrites PROVE ReplayAuthorised
    BY Zenon, <1>48 DEF ReconcileWrites, At, ReconcileJob, Uncertain, Actors
  <1>49. ASSUME ReconcilerAdvances PROVE ReplayAuthorised
    BY Zenon, <1>49 DEF ReconcilerAdvances
  <1>50. ASSUME Crash PROVE ReplayAuthorised
    BY Zenon, <1>50 DEF Crash, Uncertain
  <1>51. ASSUME Startup PROVE ReplayAuthorised
    BY Zenon, <1>51 DEF Startup
  <1>52. ASSUME UNCHANGED vars PROVE ReplayAuthorised
    BY Zenon, <1>52 DEF vars
  <1> HIDE DEF TypeOK, ReplayAuthorised
  <1>53. ASSUME Advance PROVE ReplayAuthorised
    BY Zenon, <1>53, <1>2, <1>3, <1>4, <1>5, <1>6, <1>7 DEF Advance
  <1>54. ASSUME NEW r \in Runs, Loop(r) PROVE ReplayAuthorised
    BY Zenon, <1>54, <1>8, <1>9, <1>10, <1>11, <1>12, <1>13, <1>14, <1>15, <1>16, <1>17, <1>18,
       <1>19, <1>20, <1>21, <1>22, <1>23, <1>24, <1>25, <1>26, <1>27, <1>28, <1>29, <1>30 DEF
       Loop, LoopActs
  <1>55. ASSUME NEW c \in Clients, Handler(c) PROVE ReplayAuthorised
    BY Zenon, <1>55, <1>32, <1>33, <1>34, <1>35, <1>36, <1>37, <1>38, <1>39, <1>40, <1>41, <1>42
       DEF Handler, Actors
  <1>56. ASSUME Reconcile PROVE ReplayAuthorised
    BY Zenon, <1>56, <1>42, <1>44, <1>45, <1>46, <1>47, <1>48, <1>49 DEF Reconcile, Actors
  <1> QED BY Zenon, <1>1, <1>31, <1>43, <1>50, <1>51, <1>52, <1>53, <1>54, <1>55, <1>56 DEF Next

\* The database starts without jobs, runs and handlers.
LEMMA IInvInit == Init => IInv
  <1> SUFFICES ASSUME Init PROVE IInv
    BY Zenon
  <1>1. TypeOK
    <2>1. /\ status \in [Jobs -> JobStatus] /\ run \in [Runs -> RunStatus]
          /\ pc \in [Runs -> LoopPc] /\ goal \in [Runs -> Goals]
          /\ req \in [Actors -> Requests]
      BY Zenon, IdleType, NoGoalType DEF Init, RunStatus, JobStatus, LoopPc
    <2>2. events \in 0..MaxEvents
      BY JobExecutionAssumption DEF Init
    <2> QED BY Zenon, <2>1, <2>2 DEF Init, TypeOK, NoJob
  <1>2. SlotsInUse = {}
    BY Zenon DEF Init, SlotsInUse, OpenRun
  <1>3. SlotInv
    BY Zenon, <1>2 DEF Init, SlotInv, OneSlot, SlotNamesOwner
  <1>4. LoopInv
    BY Zenon DEF Init, LoopInv, HandlerInv, Idle
  <1>5. AttemptInv
    BY Zenon DEF Init, AttemptInv
  <1> QED BY Zenon, <1>1, <1>3, <1>4, <1>5 DEF IInv

\* The invariant holds in every state the handlers, loops, faults and restarts reach.
THEOREM JobInvariant == Spec => []IInv
  <1>1. IInv /\ [Next]_vars => IInv'
    BY Zenon, TypeStep, SlotStep, LoopStep, AttemptStep DEF IInv
  <1> QED BY IInvInit, <1>1, PTL DEF Spec

\* All variables keep their types.
THEOREM JobTypes == Spec => []TypeOK
  BY JobInvariant, PTL DEF IInv

\* claimWorkloadSlotTx and claimExecutionSlotForJobTx never hold two slots of the
\* execution pool at once.
THEOREM JobOneSlot == Spec => []OneSlot
  BY JobInvariant, PTL DEF IInv, SlotInv

\* A slot in use and the active_run_id of its job name each other.
THEOREM JobSlotNamesOwner == Spec => []SlotNamesOwner
  BY JobInvariant, PTL DEF IInv, SlotInv

\* An attempt of unknown outcome is written off only by its own run or a user's
\* Continue, and never taken up by another run.
THEOREM JobOnlyUserAuthorisesReplay == Spec => OnlyUserAuthorisesReplay
  BY JobInvariant, ReplayStep, PTL DEF Spec, OnlyUserAuthorisesReplay
=============================================================================
