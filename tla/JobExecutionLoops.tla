------------------------- MODULE JobExecutionLoops --------------------------
(*****************************************************************************)
(* Where loops and handlers can be: every step of job execution keeps        *)
(* LoopInv, on which the slot properties rest.                               *)
(*****************************************************************************)
EXTENDS JobExecutionTypes

\* After a handler returned, the others still know their jobs.
LEMMA FinishKeeps == ASSUME TypeOK, HandlerInv, NEW a \in Actors, Finish(a) PROVE HandlerInv'
  BY Zenon DEF TypeOK, HandlerInv, Finish, Idle

\* A handler that goes on still knows its job.
LEMMA GoToKeeps ==
    ASSUME TypeOK, HandlerInv, NEW a \in Actors, NEW at, GoTo(a, at), req[a].at \notin {"start", "kill"}
    PROVE  HandlerInv'
  <1>1. \A b \in Actors : req'[b].job = req[b].job /\ (b # a => req'[b] = req[b])
    BY Zenon DEF TypeOK, GoTo, Requests
  <1> QED BY Zenon, <1>1 DEF HandlerInv

\* A step that does not move loops and opens no run.
LEMMA LoopsStay ==
    ASSUME LoopInv, HandlerInv', UNCHANGED <<pc, owner, up>>,
           \A q \in Runs : run'[q] \in OpenRun => run[q] \in OpenRun
    PROVE  LoopInv'
  BY Zenon DEF LoopInv

\* A step of neither a loop nor a handler.
LEMMA LoopsSame == ASSUME LoopInv, UNCHANGED <<pc, owner, run, req, up>> PROVE LoopInv'
  BY Zenon DEF LoopInv, HandlerInv

\* A step of the loop of run r: the other loops stay, and the facts hold for r where it is.
LEMMA LoopMoves ==
    ASSUME LoopInv, HandlerInv', up, up', NEW r \in Runs,
           \A q \in Runs \ {r} : pc'[q] = pc[q] /\ owner'[q] = owner[q] /\ run'[q] = run[q],
           pc'[r] # "unused" => owner'[r] \in Jobs,
           pc'[r] \in {"claim", "abandon", "settle"} => run'[r] \notin OpenRun
    PROVE  LoopInv'
  BY Zenon DEF LoopInv

\* Where a loop that has its run works on the job's tasks.
Working == {"check", "write", "loop", "begin", "again", "turn", "retry", "void", "close", "stop",
            "revert"}

\* A loop that works on tasks only needs its job.
LEMMA LoopWorks ==
    ASSUME TypeOK, LoopInv, NEW r \in Runs, up, pc[r] # "unused",
           UNCHANGED <<owner, run, req, up>>,
           \A q \in Runs \ {r} : pc'[q] = pc[q],
           pc'[r] \in Working
    PROVE  LoopInv'
  <1>1. HandlerInv' /\ owner'[r] \in Jobs
    BY Zenon DEF LoopInv, HandlerInv
  <1>2. pc'[r] \notin {"claim", "abandon", "settle"} /\ owner' = owner /\ run' = run
    BY Zenon DEF Working
  <1> QED BY Zenon, <1>1, <1>2, LoopMoves

\* A handler that forgets a run id still knows its job.
LEMMA RetireKeeps == ASSUME TypeOK, HandlerInv, NEW r \in Runs, Retire(r) PROVE HandlerInv'
  <1>1. \A a \in Actors : req'[a].job = req[a].job /\ req'[a].at = req[a].at
    BY Zenon DEF TypeOK, Retire, Requests
  <1> QED BY Zenon, <1>1 DEF HandlerInv

\* The facts on loops and handlers.
LEMMA LoopStep == TypeOK /\ LoopInv /\ [Next]_vars => LoopInv'
  <1> SUFFICES ASSUME TypeOK, LoopInv, [Next]_vars PROVE LoopInv'
    BY Zenon
  <1> USE DEF rowVars, attemptVars, runVars, loopVars, memVars, queueVars
  <1>0. HandlerInv
    BY Zenon DEF LoopInv
  <1>1. ASSUME NEW j \in Jobs, Launch(j) PROVE LoopInv'
    BY Zenon, <1>1, LoopsSame DEF Launch
  <1>2. ASSUME NEW j \in Jobs, AdvanceHoldsUncertain(j) PROVE LoopInv'
    BY Zenon, <1>2, LoopsSame DEF AdvanceHoldsUncertain
  <1>3. ASSUME NEW j \in Jobs, AdvanceResumes(j) PROVE LoopInv'
    <2>1. PICK r \in Runs : Fresh(r) /\ BeginClaim(r, j)
      BY Zenon, <1>3 DEF AdvanceResumes
    <2>2. HandlerInv' /\ up /\ up' /\ UNCHANGED run
      BY Zenon, <1>0, <1>3 DEF AdvanceResumes, PassDue, HandlerInv
    <2>3. /\ \A q \in Runs \ {r} : pc'[q] = pc[q] /\ owner'[q] = owner[q]
          /\ pc'[r] = "claim" /\ owner'[r] = j /\ run[r] \notin OpenRun
      BY Zenon, <2>1 DEF Fresh, BeginClaim, TypeOK, OpenRun, LoopInv
    <2> QED BY Zenon, <2>2, <2>3, LoopMoves
  <1>4. ASSUME NEW j \in Jobs, AdvanceSkipsRunning(j) PROVE LoopInv'
    BY Zenon, <1>4, LoopsSame DEF AdvanceSkipsRunning
  <1>5. ASSUME NEW j \in Jobs, AdvancePicks(j) PROVE LoopInv'
    BY Zenon, <1>5, LoopsSame DEF AdvancePicks
  <1>6. ASSUME NEW j \in Jobs, AdvanceClaims(j) PROVE LoopInv'
    <2>1. HandlerInv' /\ up /\ up'
      BY Zenon, <1>0, <1>6 DEF AdvanceClaims, HandlerInv
    <2>2. CASE UNCHANGED <<runVars, pc>>
      BY Zenon, <2>1, <2>2, LoopsStay
    <2>3. CASE \E r \in Runs : Fresh(r) /\ OpenSlot(r, j) /\ pc' = [pc EXCEPT ![r] = "scheduled"]
      <3>1. PICK r \in Runs : Fresh(r) /\ OpenSlot(r, j) /\ pc' = [pc EXCEPT ![r] = "scheduled"]
        BY Zenon, <2>3
      <3>2. /\ \A q \in Runs \ {r} : pc'[q] = pc[q] /\ owner'[q] = owner[q] /\ run'[q] = run[q]
            /\ pc'[r] = "scheduled" /\ owner'[r] \in Jobs
        BY Zenon, <3>1 DEF Fresh, OpenSlot, TypeOK, LoopInv
      <3> QED BY Zenon, <2>1, <3>2, LoopMoves
    <2> QED BY Zenon, <1>6, <2>2, <2>3 DEF AdvanceClaims
  <1>7. ASSUME AdvanceStops PROVE LoopInv'
    BY Zenon, <1>7, LoopsSame DEF AdvanceStops
  <1>8. ASSUME NEW r \in Runs, ScheduleStarts(r) PROVE LoopInv'
    <2>1. HandlerInv' /\ up /\ up' /\ owner[r] \in Jobs
      BY Zenon, <1>0, <1>8 DEF ScheduleStarts, HandlerInv, LoopInv
    <2>2. /\ \A q \in Runs \ {r} : pc'[q] = pc[q] /\ owner'[q] = owner[q] /\ run'[q] = run[q]
          /\ pc'[r] = "init" /\ owner'[r] = owner[r]
      BY Zenon, <1>8 DEF ScheduleStarts, TypeOK, LoopInv
    <2> QED BY Zenon, <2>1, <2>2, LoopMoves
  <1>9. ASSUME NEW r \in Runs, ScheduleRefused(r) PROVE LoopInv'
    <2>1. HandlerInv' /\ up /\ up'
      BY Zenon, <1>0, <1>9, RetireKeeps DEF ScheduleRefused
    <2>2. /\ \A q \in Runs \ {r} : pc'[q] = pc[q] /\ owner'[q] = owner[q] /\ run'[q] = run[q]
          /\ pc'[r] = "unused"
      BY Zenon, <1>9 DEF ScheduleRefused, Retire, TypeOK, LoopInv
    <2> QED BY Zenon, <2>1, <2>2, LoopMoves
  <1>10. ASSUME NEW r \in Runs, LoopClaims(r) PROVE LoopInv'
    <2>1. HandlerInv' /\ up /\ up' /\ owner[r] \in Jobs
      BY Zenon, <1>0, <1>10 DEF LoopClaims, HandlerInv, LoopInv
    <2>2. /\ \A q \in Runs \ {r} : pc'[q] = pc[q] /\ owner'[q] = owner[q] /\ run'[q] = run[q]
          /\ pc'[r] \in {"init", "abandon"} /\ owner'[r] = owner[r]
          /\ pc'[r] = "abandon" => run'[r] \notin OpenRun
      BY ZenonT(40), <1>10 DEF LoopClaims, OpenSlot, TypeOK, LoopInv
    <2> QED BY Zenon, <2>1, <2>2, LoopMoves
  <1>11. ASSUME NEW r \in Runs, LoopAbandoned(r) PROVE LoopInv'
    <2>1. HandlerInv' /\ up /\ up'
      BY Zenon, <1>0, <1>11, RetireKeeps DEF LoopAbandoned
    <2>2. /\ \A q \in Runs \ {r} : pc'[q] = pc[q] /\ owner'[q] = owner[q] /\ run'[q] = run[q]
          /\ pc'[r] = "unused"
      BY Zenon, <1>11 DEF LoopAbandoned, Retire, TypeOK, LoopInv
    <2> QED BY Zenon, <2>1, <2>2, LoopMoves
  <1>12. ASSUME NEW r \in Runs, LoopLacksWorkspace(r) PROVE LoopInv'
    <2>1. HandlerInv' /\ up /\ up' /\ owner[r] \in Jobs
      BY Zenon, <1>0, <1>12 DEF LoopLacksWorkspace, HandlerInv, LoopInv
    <2>2. /\ \A q \in Runs \ {r} : pc'[q] = pc[q] /\ owner'[q] = owner[q] /\ run'[q] = run[q]
          /\ pc'[r] = "close" /\ owner'[r] = owner[r]
      BY Zenon, <1>12 DEF LoopLacksWorkspace, ReleaseRun, TypeOK
    <2> QED BY Zenon, <2>1, <2>2, LoopMoves
  <1>13. ASSUME NEW r \in Runs, LoopInit(r) PROVE LoopInv'
    <2>1. up /\ pc[r] # "unused" /\ UNCHANGED <<owner, run, req, up>>
      BY Zenon, <1>13 DEF LoopInit
    <2>2. /\ \A q \in Runs \ {r} : pc'[q] = pc[q]
          /\ pc'[r] \in Working
      BY ZenonT(40), <1>13 DEF LoopInit, Persist, Working, TypeOK
    <2> QED BY Zenon, <2>1, <2>2, LoopWorks
  <1>14. ASSUME NEW r \in Runs, LoopChecks(r) PROVE LoopInv'
    <2>1. up /\ pc[r] # "unused" /\ UNCHANGED <<owner, run, req, up>>
      BY Zenon, <1>14 DEF LoopChecks
    <2>2. /\ \A q \in Runs \ {r} : pc'[q] = pc[q]
          /\ pc'[r] \in Working
      BY Zenon, <1>14, GoalNext DEF LoopChecks, Proceed, Working, TypeOK
    <2> QED BY Zenon, <2>1, <2>2, LoopWorks
  <1>15. ASSUME NEW r \in Runs, LoopWrites(r) PROVE LoopInv'
    <2>1. up /\ pc[r] # "unused" /\ UNCHANGED <<owner, run, req, up>>
      BY Zenon, <1>15 DEF LoopWrites
    <2>2. /\ \A q \in Runs \ {r} : pc'[q] = pc[q]
          /\ pc'[r] \in Working
      BY Zenon, <1>15, GoalNext DEF LoopWrites, Proceed, Working, TypeOK
    <2> QED BY Zenon, <2>1, <2>2, LoopWorks
  <1>16. ASSUME NEW r \in Runs, LoopStops(r) PROVE LoopInv'
    <2>1. up /\ pc[r] # "unused" /\ UNCHANGED <<owner, run, req, up>>
      BY Zenon, <1>16 DEF LoopStops
    <2>2. /\ \A q \in Runs \ {r} : pc'[q] = pc[q]
          /\ pc'[r] \in Working
      BY Zenon, <1>16 DEF LoopStops, Persist, Working, TypeOK
    <2> QED BY Zenon, <2>1, <2>2, LoopWorks
  <1>17. ASSUME NEW r \in Runs, LoopConcludes(r) PROVE LoopInv'
    <2>1. up /\ pc[r] # "unused" /\ UNCHANGED <<owner, run, req, up>>
      BY Zenon, <1>17 DEF LoopConcludes
    <2>2. /\ \A q \in Runs \ {r} : pc'[q] = pc[q]
          /\ pc'[r] \in Working
      BY Zenon, <1>17 DEF LoopConcludes, Persist, Working, TypeOK
    <2> QED BY Zenon, <2>1, <2>2, LoopWorks
  <1>18. ASSUME NEW r \in Runs, LoopThrows(r) PROVE LoopInv'
    <2>1. up /\ pc[r] # "unused" /\ UNCHANGED <<owner, run, req, up>>
      BY Zenon, <1>18 DEF LoopThrows, TurnFrame
    <2>2. /\ \A q \in Runs \ {r} : pc'[q] = pc[q]
          /\ pc'[r] \in Working
      BY Zenon, <1>18 DEF LoopThrows, Throws, TurnFrame, Working, TypeOK
    <2> QED BY Zenon, <2>1, <2>2, LoopWorks
  <1>19. ASSUME NEW r \in Runs, LoopReverts(r) PROVE LoopInv'
    <2>1. up /\ pc[r] # "unused" /\ UNCHANGED <<owner, run, req, up>>
      BY Zenon, <1>19 DEF LoopReverts
    <2>2. /\ \A q \in Runs \ {r} : pc'[q] = pc[q]
          /\ pc'[r] \in Working
      BY Zenon, <1>19, GoalNext DEF LoopReverts, Proceed, Working, TypeOK
    <2> QED BY Zenon, <2>1, <2>2, LoopWorks
  <1>20. ASSUME NEW r \in Runs, AttemptBegins(r) \/ TurnStarts(r) PROVE LoopInv'
    <2>1. up /\ pc[r] # "unused" /\ UNCHANGED <<owner, run, req, up>>
      BY Zenon, <1>20 DEF AttemptBegins, TurnStarts, TurnFrame
    <2>2. /\ \A q \in Runs \ {r} : pc'[q] = pc[q]
          /\ pc'[r] \in Working
      BY ZenonT(40), <1>20 DEF AttemptBegins, TurnStarts, TurnPc, Throws, Persist, Working,
         TypeOK
    <2> QED BY Zenon, <2>1, <2>2, LoopWorks
  <1>21. ASSUME NEW r \in Runs, TurnCompletes(r) PROVE LoopInv'
    <2>1. up /\ pc[r] # "unused" /\ UNCHANGED <<owner, run, req, up>>
      BY Zenon, <1>21 DEF TurnCompletes, TurnFrame, InTurn
    <2>2. /\ \A q \in Runs \ {r} : pc'[q] = pc[q]
          /\ pc'[r] \in Working
      BY Zenon, <1>21 DEF TurnCompletes, Persist, Throws, FailsAttempt, TurnFrame, InTurn,
         Working, TypeOK
    <2> QED BY Zenon, <2>1, <2>2, LoopWorks
  <1>22. ASSUME NEW r \in Runs, TurnStopped(r) PROVE LoopInv'
    <2>1. up /\ pc[r] # "unused" /\ UNCHANGED <<owner, run, req, up>>
      BY Zenon, <1>22 DEF TurnStopped, TurnFrame, InTurn
    <2>2. /\ \A q \in Runs \ {r} : pc'[q] = pc[q]
          /\ pc'[r] \in Working
      BY Zenon, <1>22 DEF TurnStopped, Persist, Throws, FailsAttempt, TurnFrame, InTurn,
         Working, TypeOK
    <2> QED BY Zenon, <2>1, <2>2, LoopWorks
  <1>23. ASSUME NEW r \in Runs, TurnFails(r) PROVE LoopInv'
    <2>1. up /\ pc[r] # "unused" /\ UNCHANGED <<owner, run, req, up>>
      BY Zenon, <1>23 DEF TurnFails, TurnFrame, InTurn
    <2>2. /\ \A q \in Runs \ {r} : pc'[q] = pc[q]
          /\ pc'[r] \in Working
      BY Zenon, <1>23 DEF TurnFails, Persist, Throws, FailsAttempt, TurnFrame, InTurn, Working,
         TypeOK
    <2> QED BY Zenon, <2>1, <2>2, LoopWorks
  <1>24. ASSUME NEW r \in Runs, TurnRecovers(r) PROVE LoopInv'
    <2>1. up /\ pc[r] # "unused" /\ UNCHANGED <<owner, run, req, up>>
      BY Zenon, <1>24 DEF TurnRecovers, TurnFrame
    <2>2. /\ \A q \in Runs \ {r} : pc'[q] = pc[q]
          /\ pc'[r] \in Working
      BY Zenon, <1>24 DEF TurnRecovers, Persist, Throws, FailsAttempt, TurnFrame, Working,
         TypeOK
    <2> QED BY Zenon, <2>1, <2>2, LoopWorks
  <1>25. ASSUME NEW r \in Runs, TurnLost(r) PROVE LoopInv'
    <2>1. up /\ pc[r] # "unused" /\ UNCHANGED <<owner, run, req, up>>
      BY Zenon, <1>25 DEF TurnLost, TurnFrame, InTurn
    <2>2. /\ \A q \in Runs \ {r} : pc'[q] = pc[q]
          /\ pc'[r] \in Working
      BY Zenon, <1>25 DEF TurnLost, TurnFrame, InTurn, Working, TypeOK
    <2> QED BY Zenon, <2>1, <2>2, LoopWorks
  <1>26. ASSUME NEW r \in Runs, LoopCloses(r) PROVE LoopInv'
    <2>1. HandlerInv' /\ up /\ up' /\ owner[r] \in Jobs
      BY Zenon, <1>0, <1>26 DEF LoopCloses, HandlerInv, LoopInv
    <2>2. /\ \A q \in Runs \ {r} : pc'[q] = pc[q] /\ owner'[q] = owner[q] /\ run'[q] = run[q]
          /\ pc'[r] = "finalize" /\ owner'[r] = owner[r]
      BY Zenon, <1>26 DEF LoopCloses, Stopping, TypeOK
    <2> QED BY Zenon, <2>1, <2>2, LoopMoves
  <1>27. ASSUME NEW r \in Runs, LoopCloseFails(r) PROVE LoopInv'
    <2>1. HandlerInv' /\ up /\ up' /\ owner[r] \in Jobs
      BY Zenon, <1>0, <1>27 DEF LoopCloseFails, HandlerInv, LoopInv
    <2>2. /\ \A q \in Runs \ {r} : pc'[q] = pc[q] /\ owner'[q] = owner[q] /\ run'[q] = run[q]
          /\ pc'[r] = "stuck" /\ owner'[r] = owner[r]
      BY Zenon, <1>27 DEF LoopCloseFails, Stopping, TypeOK
    <2> QED BY Zenon, <2>1, <2>2, LoopMoves
  <1>28. ASSUME NEW r \in Runs, LoopFinalizes(r) PROVE LoopInv'
    <2>1. HandlerInv' /\ up /\ up' /\ owner[r] \in Jobs
      BY Zenon, <1>0, <1>28 DEF LoopFinalizes, HandlerInv, LoopInv
    <2>2. /\ \A q \in Runs \ {r} : pc'[q] = pc[q] /\ owner'[q] = owner[q] /\ run'[q] = run[q]
          /\ pc'[r] = "done" /\ owner'[r] = owner[r]
      BY Zenon, <1>28 DEF LoopFinalizes, TypeOK, LoopInv
    <2> QED BY Zenon, <2>1, <2>2, LoopMoves
  <1>29. ASSUME NEW r \in Runs, LoopReleases(r) PROVE LoopInv'
    <2>1. HandlerInv' /\ up /\ up' /\ owner[r] \in Jobs
      BY Zenon, <1>0, <1>29 DEF LoopReleases, HandlerInv, LoopInv
    <2>2. /\ \A q \in Runs \ {r} : pc'[q] = pc[q] /\ owner'[q] = owner[q] /\ run'[q] = run[q]
          /\ pc'[r] = "settle" /\ owner'[r] = owner[r] /\ run'[r] \notin OpenRun
      BY Zenon, <1>29 DEF LoopReleases, ReleaseRun, TypeOK, LoopInv, OpenRun
    <2> QED BY Zenon, <2>1, <2>2, LoopMoves
  <1>30. ASSUME NEW r \in Runs, LoopSettles(r) PROVE LoopInv'
    <2>1. HandlerInv' /\ up /\ up'
      BY Zenon, <1>0, <1>30, RetireKeeps DEF LoopSettles
    <2>2. /\ \A q \in Runs \ {r} : pc'[q] = pc[q] /\ owner'[q] = owner[q] /\ run'[q] = run[q]
          /\ pc'[r] = "unused"
      BY Zenon, <1>30 DEF LoopSettles, Retire, TypeOK, LoopInv
    <2> QED BY Zenon, <2>1, <2>2, LoopMoves
  <1>31. ASSUME NEW r \in Runs, LeaseExpires(r) PROVE LoopInv'
    BY Zenon, <1>31, LoopsSame DEF LeaseExpires
  <1>32. ASSUME NEW c \in Clients, PauseActs(c) PROVE LoopInv'
    <2>1. HandlerInv'
      BY Zenon, <1>0, <1>32, GoToKeeps, FinishKeeps DEF PauseActs, At, Actors
    <2> QED BY Zenon, <1>32, <2>1, LoopsStay DEF PauseActs
  <1>33. ASSUME NEW c \in Clients, ContinueActs(c) PROVE LoopInv'
    <2>1. HandlerInv'
      BY Zenon, <1>0, <1>33, GoToKeeps, FinishKeeps DEF ContinueActs, At, Actors
    <2> QED BY Zenon, <1>33, <2>1, LoopsStay DEF ContinueActs
  <1>34. ASSUME NEW c \in Clients, ContinueSettles(c) PROVE LoopInv'
    <2>1. HandlerInv'
      BY Zenon, <1>0, <1>34, FinishKeeps DEF ContinueSettles, Actors
    <2> QED BY Zenon, <1>34, <2>1, LoopsStay DEF ContinueSettles
  <1>35. ASSUME NEW c \in Clients, RestartActs(c) PROVE LoopInv'
    <2>1. HandlerInv'
      BY Zenon, <1>0, <1>35, GoToKeeps, FinishKeeps DEF RestartActs, At, Actors
    <2> QED BY Zenon, <1>35, <2>1, LoopsStay DEF RestartActs
  <1>36. ASSUME NEW c \in Clients, RestartLeases(c) PROVE LoopInv'
    <2>1. HandlerInv'
      BY Zenon, <1>0, <1>36, GoToKeeps, FinishKeeps DEF RestartLeases, At, Actors
    <2> QED BY Zenon, <1>36, <2>1, LoopsStay DEF RestartLeases
  <1>37. ASSUME NEW c \in Clients, RestartSchedules(c) PROVE LoopInv'
    <2>1. HandlerInv' /\ up /\ up' /\ UNCHANGED run
      BY Zenon, <1>0, <1>37, FinishKeeps DEF RestartSchedules, Actors
    <2>2. req[c].job \in Jobs
      BY Zenon, <1>0, <1>37 DEF RestartSchedules, HandlerInv, Actors
    <2>3. CASE UNCHANGED <<pc, owner>>
      BY Zenon, <2>1, <2>3, LoopsStay
    <2>4. CASE \E r \in Runs : Fresh(r) /\ BeginClaim(r, req[c].job)
      <3>1. PICK r \in Runs : Fresh(r) /\ BeginClaim(r, req[c].job)
        BY Zenon, <2>4
      <3>2. /\ \A q \in Runs \ {r} : pc'[q] = pc[q] /\ owner'[q] = owner[q]
            /\ pc'[r] = "claim" /\ owner'[r] \in Jobs /\ run[r] \notin OpenRun
        BY Zenon, <2>2, <3>1 DEF Fresh, BeginClaim, TypeOK, OpenRun, LoopInv
      <3> QED BY Zenon, <2>1, <3>2, LoopMoves
    <2> QED BY Zenon, <1>37, <2>3, <2>4 DEF RestartSchedules
  <1>38. ASSUME NEW c \in Clients, CancelActs(c) PROVE LoopInv'
    <2>1. HandlerInv'
      BY Zenon, <1>0, <1>38, GoToKeeps, FinishKeeps DEF CancelActs, At, Actors
    <2> QED BY Zenon, <1>38, <2>1, LoopsStay DEF CancelActs
  <1>39. ASSUME NEW c \in Clients, CancelWrites(c) PROVE LoopInv'
    <2>1. HandlerInv'
      BY Zenon, <1>0, <1>39, GoToKeeps, FinishKeeps DEF CancelWrites, At, Actors
    <2> QED BY Zenon, <1>39, <2>1, LoopsStay DEF CancelWrites
  <1>40. ASSUME NEW c \in Clients, CancelDrops(c) PROVE LoopInv'
    <2>1. HandlerInv'
      BY Zenon, <1>0, <1>40, GoToKeeps, FinishKeeps DEF CancelDrops, At, Actors
    <2> QED BY Zenon, <1>40, <2>1, LoopsStay DEF CancelDrops
  <1>41. ASSUME NEW c \in Clients, StopBegins(c) PROVE LoopInv'
    <2>1. HandlerInv'
      <3>1. CASE Finish(c)
        BY Zenon, <1>0, <3>1, FinishKeeps DEF Actors
      <3>2. CASE req' = [req EXCEPT ![c].at = "kill", ![c].run = activeRun[req[c].job]]
        <4>1. \A b \in Actors \ {c} : req'[b] = req[b]
          BY Zenon, <3>2 DEF TypeOK
        <4>2. req'[c].at = "kill"
          BY ZenonT(40), <3>2 DEF TypeOK, Requests, Actors
        <4> QED BY Zenon, <1>0, <4>1, <4>2 DEF HandlerInv
      <3> QED BY Zenon, <1>41, <3>1, <3>2 DEF StopBegins
    <2>2. \A q \in Runs : run'[q] \in OpenRun => run[q] \in OpenRun
      BY Zenon, <1>41 DEF StopBegins, Stopping, TypeOK
    <2> QED BY Zenon, <1>41, <2>1, <2>2, LoopsStay DEF StopBegins
  <1>42. ASSUME NEW a \in Actors, StopEnds(a) PROVE LoopInv'
    <2>1. HandlerInv'
      BY Zenon, <1>0, <1>42, FinishKeeps DEF StopEnds
    <2>2. UNCHANGED <<pc, owner, up>>
      BY Zenon, <1>42 DEF StopEnds
    <2>3. \A q \in Runs : run'[q] \in OpenRun => run[q] \in OpenRun
      BY Zenon, <1>42 DEF StopEnds, ReleaseRun, StopFails, Stopping, TypeOK, OpenRun
    <2> QED BY Zenon, <2>1, <2>2, <2>3, LoopsStay
  <1>43. ASSUME NEW c \in Clients, NEW op \in Ops, NEW j \in Jobs, Request(c, op, j)
        PROVE  LoopInv'
    <2>1. HandlerInv'
      BY Zenon, <1>0, <1>43 DEF Request, HandlerInv, TypeOK, Idle, Actors
    <2> QED BY Zenon, <1>43, <2>1, LoopsStay DEF Request
  <1>44. ASSUME NEW r \in Runs, ReconcileSlot(r) PROVE LoopInv'
    <2>1. HandlerInv'
      BY Zenon, <1>0, <1>44 DEF ReconcileSlot, HandlerInv, TypeOK, Idle, Actors
    <2>2. \A q \in Runs : run'[q] \in OpenRun => run[q] \in OpenRun
      BY Zenon, <1>44 DEF ReconcileSlot, Stopping, TypeOK
    <2> QED BY Zenon, <1>44, <2>1, <2>2, LoopsStay DEF ReconcileSlot
  <1>45. ASSUME NEW j \in Jobs, ReconcilesFresh(j) PROVE LoopInv'
    BY Zenon, <1>45, LoopsSame DEF ReconcilesFresh
  <1>46. ASSUME NEW j \in Jobs, ReconcileReads(j) PROVE LoopInv'
    <2>1. HandlerInv'
      BY Zenon, <1>0, <1>46 DEF ReconcileReads, HandlerInv, TypeOK, Idle, Actors
    <2> QED BY Zenon, <1>46, <2>1, LoopsStay DEF ReconcileReads
  <1>47. ASSUME ReconcileChecks PROVE LoopInv'
    <2>1. HandlerInv'
      BY Zenon, <1>0, <1>47, GoToKeeps, FinishKeeps DEF ReconcileChecks, At, Actors
    <2> QED BY Zenon, <1>47, <2>1, LoopsStay DEF ReconcileChecks
  <1>48. ASSUME ReconcileWrites PROVE LoopInv'
    <2>1. HandlerInv'
      BY Zenon, <1>0, <1>48, FinishKeeps DEF ReconcileWrites, Actors
    <2> QED BY Zenon, <1>48, <2>1, LoopsStay DEF ReconcileWrites
  <1>49. ASSUME ReconcilerAdvances PROVE LoopInv'
    BY Zenon, <1>49, LoopsSame DEF ReconcilerAdvances
  <1>50. ASSUME Crash PROVE LoopInv'
    BY Zenon, <1>50 DEF Crash, LoopInv, HandlerInv, Idle
  <1>51. ASSUME Startup PROVE LoopInv'
    <2>1. HandlerInv'
      BY Zenon, <1>0, <1>51 DEF Startup, HandlerInv
    <2> QED BY Zenon, <1>51, <2>1 DEF Startup, StartupRuns, LoopInv, OpenRun
  <1>52. ASSUME UNCHANGED vars PROVE LoopInv'
    BY Zenon, <1>52, LoopsSame DEF vars
  <1>53. ASSUME Advance PROVE LoopInv'
    BY Zenon, <1>53, <1>2, <1>3, <1>4, <1>5, <1>6, <1>7 DEF Advance
  <1>54. ASSUME NEW r \in Runs, Loop(r) PROVE LoopInv'
    BY Zenon, <1>54, <1>8, <1>9, <1>10, <1>11, <1>12, <1>13, <1>14, <1>15, <1>16, <1>17, <1>18,
       <1>19, <1>20, <1>21, <1>22, <1>23, <1>24, <1>25, <1>26, <1>27, <1>28, <1>29, <1>30 DEF
       Loop, LoopActs
  <1>55. ASSUME NEW c \in Clients, Handler(c) PROVE LoopInv'
    BY Zenon, <1>55, <1>32, <1>33, <1>34, <1>35, <1>36, <1>37, <1>38, <1>39, <1>40, <1>41, <1>42
       DEF Handler, Actors
  <1>56. ASSUME Reconcile PROVE LoopInv'
    BY Zenon, <1>56, <1>42, <1>44, <1>45, <1>46, <1>47, <1>48, <1>49 DEF Reconcile, Actors
  <1> QED BY Zenon, <1>1, <1>31, <1>43, <1>50, <1>51, <1>52, <1>53, <1>54, <1>55, <1>56 DEF Next
=============================================================================
