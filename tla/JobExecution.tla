---------------------------- MODULE JobExecution ----------------------------
(***************************************************************************)
(* Job execution in the Legacy control plane (src/server/                  *)
(* legacy-control-plane): the execution queue, workload runs and slots,    *)
(* the execution loop, the user controls (pause, continue, cancel,         *)
(* restart), the periodic reconciler, crash and start-up.                  *)
(*                                                                         *)
(* Database statements are synchronous; two handlers interleave only at an *)
(* await.  A step of this module is what a handler does between two awaits *)
(* that wait for something (I/O, a timer, a child process, a turn of the   *)
(* queue).  A workload run is claimed by at most one execution loop, so a  *)
(* run id also names the loop; an id is used again once nothing refers to  *)
(* it, ids being only ever compared.                                       *)
(***************************************************************************)
EXTENDS Naturals, FiniteSets

CONSTANTS
    Jobs,           \* job ids: a set of numbers in FIFO order (planConfirmedAt)
    JobUser,        \* the user of each job
    Runs,           \* workload run ids
    NoRun,          \* null
    OldRun,         \* an ended run a task attempt still names
    Clients,        \* concurrent HTTP requests
    Reconciler,     \* the 60 s workload reconciler
    Ops,            \* the user controls the clients call
    MaxEvents,      \* bound: user requests, and faults of the kinds below, in a behaviour
    WorkspaceBusy,  \* TRUE: another owner may hold an overlapping workspace
    SandboxMayFail, \* TRUE: the outer sandbox may be not ready
    CloseMayFail,   \* TRUE: closing a run's runtime handle may fail
    PlanMayBeEmpty, \* TRUE: the plan of a pending job may have no tasks
    Crashes,        \* TRUE: the process may crash
    Expiries,       \* TRUE: a run's lease may expire although its loop is alive
    LateReconcile   \* TRUE: the reconciler may act on a row it read earlier

ASSUME JobExecutionAssumption ==
    /\ Jobs \subseteq Nat \ {0}
    /\ {NoRun, OldRun} \cap Runs = {} /\ NoRun # OldRun
    /\ Reconciler \notin Clients
    /\ Ops \subseteq {"pause", "continue", "cancel", "restart"}
    /\ {WorkspaceBusy, SandboxMayFail, CloseMayFail, PlanMayBeEmpty, Crashes, Expiries,
        LateReconcile} \subseteq BOOLEAN
    /\ MaxEvents \in Nat

NoJob == 0
Actors == Clients \cup {Reconciler}

JobStatus == {"absent", "pending", "running", "pausing", "paused",
              "completed", "failed", "cancelled"}
OpenRun == {"active", "cancelling", "stopping"}
RunStatus == {"unclaimed", "released"} \cup OpenRun
LoopPc == {"unused", "scheduled", "claim", "init", "loop", "begin", "again", "turn", "retry",
           "void", "check", "write", "revert", "close", "stop", "finalize", "done", "settle",
           "abandon", "stuck"}

VARIABLES
    \* thread_jobs rows
    status,      \* status[j]
    cont,        \* cont[j]: continue_after_pause
    lease,       \* lease[j]: execution lease, of this boot ("local") or an older one
    activeRun,   \* activeRun[j]: active_run_id
    \* job_task_attempts.  A job works on one task at a time; the ledger of every task
    \* of a job is module TaskAttempts
    unresolved,  \* unresolved[j]: the run whose provider outcome is unknown, or NoRun
    starting,    \* runs whose attempt row is "starting"
    \* workload_runs and workload_slots rows; a slot is active while its run is open
    owner,       \* owner[r]: the job of run r
    run,         \* run[r]: its status
    held,        \* held[r]: its lease is of this boot and has not expired
    \* the execution loops
    pc,          \* pc[r]: where the loop of run r is
    goal,        \* goal[r]: the status it is about to persist, and where it goes then
    \* in-memory registry of job loops
    loops,       \* activeLoops
    control,     \* control[j]: "none" when the job has no runtime entry
    \* queue
    wake,        \* an advanceExecutionQueue pass is due, or is past its running job
    picked,      \* jobs startPendingExecutionJob is about to claim a slot for
    \* handlers in progress
    req,
    up,          \* the process is alive and has started up
    events       \* how many of the bounded events have happened

rowVars   == <<status, cont, lease>>
attemptVars == <<unresolved, starting>>
runVars   == <<activeRun, owner, run, held>>
loopVars  == <<pc, goal>>
memVars   == <<loops, control>>
queueVars == <<wake, picked>>
vars == <<rowVars, attemptVars, runVars, loopVars, memVars, queueVars, req, up, events>>

NoGoal == [status |-> "running", next |-> "loop"]
Idle == [op |-> "idle", at |-> "start", job |-> NoJob, seen |-> "running",
         cont |-> FALSE, run |-> NoRun]

Event == events < MaxEvents /\ events' = events + 1
Fresh(r) == pc[r] = "unused" /\ run[r] = "unclaimed"
SlotsInUse == {r \in Runs : run[r] \in OpenRun}
LiveSlot(except) == \E r \in SlotsInUse : held[r] /\ owner[r] # except
RunningJobs(u) == {k \in Jobs : status[k] = "running" /\ JobUser[k] = u}

-----------------------------------------------------------------------------
(* Row updates shared by the handlers. *)

\* updateJobRow with a status: the execution lease is cleared unless it is "running".
SetStatus(j, s) ==
    /\ status' = [status EXCEPT ![j] = s]
    /\ lease' = IF s = "running" THEN lease ELSE [lease EXCEPT ![j] = "none"]

\* Seeded fault: the owner's active_run_id is cleared whatever run it names.
ReleaseRun_Unfenced(r) ==
    /\ run' = [run EXCEPT ![r] = "released"]
    /\ activeRun' = [activeRun EXCEPT ![owner[r]] = NoRun]

\* releaseWorkloadSlot: run and slot released, the owner's active_run_id cleared
\* if it still names the run; a second release changes nothing.
ReleaseRun(r) ==
    /\ run' = [run EXCEPT ![r] = "released"]
    /\ activeRun' = [j \in Jobs |-> IF activeRun[j] = r THEN NoRun ELSE activeRun[j]]

\* A new run row for job j with an active slot and a lease of this boot.
OpenSlot(r, j) ==
    /\ owner' = [owner EXCEPT ![r] = j]
    /\ run' = [run EXCEPT ![r] = "active"]
    /\ held' = [held EXCEPT ![r] = TRUE]
    /\ activeRun' = [activeRun EXCEPT ![j] = r]

\* acquireExecutionLease: this boot already holds the lease of the running job, or no
\* other loop of the user is active, the running job of the user the query returned is
\* this one, and the job is resumable.  The query has no order: with several running
\* jobs it may return any of them.  A lease held by this boot does not reach its expiry
\* of 30 minutes: every minute the reconciler refreshes the lease of a job with a loop
\* and clears that of one without.
HoldsLease(j) == status[j] = "running" /\ lease[j] = "local"

Resumable(j) ==
    /\ \A k \in loops \ {j} : JobUser[k] # JobUser[j]
    /\ status[j] \in {"pending", "paused", "pausing", "failed", "cancelled", "running"}

LeaseAcquired(j) ==
    \/ HoldsLease(j)
    \/ Resumable(j) /\ (RunningJobs(JobUser[j]) = {} \/ status[j] = "running")

LeaseRefused(j) ==
    /\ ~HoldsLease(j)
    /\ ~Resumable(j) \/ RunningJobs(JobUser[j]) \ {j} # {}

\* settleContinueAfterPause: a compare-and-set on (paused, continue intent).
ContinueDue(j) == status[j] = "paused" /\ cont[j]

SettleContinue(j) ==
    IF ContinueDue(j)
      THEN /\ SetStatus(j, "pending")
           /\ cont' = [cont EXCEPT ![j] = FALSE]
           /\ unresolved' = [unresolved EXCEPT ![j] = NoRun]
      ELSE UNCHANGED <<rowVars, unresolved>>

\* dropRuntime: forget the job's loop and its control state.
DropRuntime(j) ==
    /\ loops' = loops \ {j}
    /\ control' = [control EXCEPT ![j] = "none"]

\* tryStartLoop: any active loop of the process blocks a new one.
StartLoop(j) ==
    /\ loops = {}
    /\ loops' = {j}
    /\ control' = [control EXCEPT ![j] = "running"]

\* A loop of job j that has yet to claim its run.
BeginClaim(r, j) ==
    /\ pc' = [pc EXCEPT ![r] = "claim"]
    /\ owner' = [owner EXCEPT ![r] = j]

-----------------------------------------------------------------------------
(* The execution queue: advanceExecutionQueue and its two branches. *)

\* A confirmed plan creates the job as pending and advances the queue.
Launch(j) ==
    /\ up /\ status[j] = "absent"
    /\ SetStatus(j, "pending")
    /\ wake' = "due"
    /\ UNCHANGED <<cont, attemptVars, runVars, loopVars, memVars, picked, req, up, events>>

Uncertain(j) == unresolved[j] # NoRun

\* A pass begins: no loop is active in the process.
PassDue == up /\ wake = "due" /\ loops = {}

\* resumeInterruptedRunningJob on a job whose provider outcome is unknown: it is
\* held as paused, and the pass goes on to the pending jobs.
AdvanceHoldsUncertain(j) ==
    /\ PassDue /\ status[j] = "running" /\ Uncertain(j)
    /\ SetStatus(j, "paused")
    /\ cont' = [cont EXCEPT ![j] = FALSE]
    /\ wake' = "past"
    /\ UNCHANGED <<attemptVars, runVars, loopVars, memVars, picked, req, up, events>>

MayResume(j) == status[j] = "running" /\ ~Uncertain(j) /\ LeaseAcquired(j)

\* resumeInterruptedRunningJob: take the execution lease and start a loop that claims
\* its own slot.  Between the lease and the registration of the loop the code only
\* reads the row again.
AdvanceResumes(j) ==
    /\ PassDue /\ MayResume(j)
    /\ lease' = [lease EXCEPT ![j] = "local"]
    /\ StartLoop(j)
    /\ \E r \in Runs : Fresh(r) /\ BeginClaim(r, j)
    /\ wake' = "no"
    /\ UNCHANGED <<status, cont, attemptVars, activeRun, run, held, goal, picked, req, up,
                   events>>

\* The running job the pass looked at cannot be leased, or its workspace is taken and
\* the lease is given back: the pass goes on to the pending jobs.
AdvanceSkipsRunning(j) ==
    /\ PassDue /\ status[j] = "running" /\ ~Uncertain(j)
    /\ \/ LeaseRefused(j) /\ UNCHANGED <<lease, events>>
       \/ LeaseAcquired(j) /\ WorkspaceBusy /\ Event /\ lease' = [lease EXCEPT ![j] = "none"]
    /\ wake' = "past"
    /\ UNCHANGED <<status, cont, attemptVars, runVars, loopVars, memVars, picked, req, up>>

NextPending(j) == status[j] = "pending" /\ \A k \in Jobs : status[k] = "pending" => j <= k
NoneRunning == \A k \in Jobs : status[k] # "running"

\* The pass has no running job to resume.
PassesRunning == up /\ (wake = "past" \/ (PassDue /\ NoneRunning))

\* findNextPendingJob: the oldest pending job when no slot is live.
AdvancePicks(j) ==
    /\ PassesRunning /\ ~LiveSlot(NoJob) /\ NextPending(j)
    /\ picked' = picked \cup {j}
    /\ wake' = "no"
    /\ UNCHANGED <<rowVars, attemptVars, runVars, loopVars, memVars, req, up, events>>

\* The pass finds the process busy, or nothing to start.
AdvanceStops ==
    /\ up /\ wake # "no"
    /\ \/ wake = "due" /\ loops # {}
       \/ PassesRunning /\ (LiveSlot(NoJob) \/ \A k \in Jobs : status[k] # "pending")
    /\ wake' = "no"
    /\ UNCHANGED <<rowVars, attemptVars, runVars, loopVars, memVars, picked, req, up,
                   events>>

\* Seeded fault: the claim trusts the pool check made before the await.
MayClaim_NoCapacity(j) == status[j] = "pending"

\* claimExecutionSlotForJobTx: capacity and the pending -> running compare-and-set.
MayClaim(j) == SlotsInUse = {} /\ status[j] = "pending"

\* startPendingExecutionJob: one transaction, or the job is left as it is; a pending job
\* without tasks fails, by an unfenced write.
AdvanceClaims(j) ==
    /\ up /\ j \in picked
    /\ picked' = picked \ {j}
    /\ \/ /\ MayClaim(j)
          /\ \E r \in Runs :
               /\ Fresh(r)
               /\ OpenSlot(r, j)
               /\ pc' = [pc EXCEPT ![r] = "scheduled"]
          /\ status' = [status EXCEPT ![j] = "running"]
          /\ lease' = [lease EXCEPT ![j] = "local"]
          /\ UNCHANGED events
       \/ /\ ~MayClaim(j)
          /\ UNCHANGED <<status, lease, runVars, pc, events>>
       \/ /\ WorkspaceBusy /\ MayClaim(j) /\ Event
          /\ UNCHANGED <<status, lease, runVars, pc>>
       \/ /\ PlanMayBeEmpty /\ status[j] = "pending" /\ Event
          /\ SetStatus(j, "failed")
          /\ UNCHANGED <<runVars, pc>>
    /\ UNCHANGED <<cont, attemptVars, goal, memVars, wake, req, up>>

-----------------------------------------------------------------------------
(* scheduleJobExecution. *)

\* The id of a loop that is over; references to it are gone or fall back to OldRun.
Retire(r) ==
    /\ pc' = [pc EXCEPT ![r] = "unused"]
    /\ goal' = [goal EXCEPT ![r] = NoGoal]
    /\ owner' = [owner EXCEPT ![r] = NoJob]
    /\ held' = [held EXCEPT ![r] = FALSE]
    /\ req' = [a \in Actors |-> IF req[a].run = r THEN [req[a] EXCEPT !.run = NoRun] ELSE req[a]]

Forget(u, r) == [j \in Jobs |-> IF u[j] = r THEN OldRun ELSE u[j]]

\* A loop whose slot was claimed by the queue registers itself.
ScheduleStarts(r) ==
    /\ up /\ pc[r] = "scheduled" /\ StartLoop(owner[r])
    /\ pc' = [pc EXCEPT ![r] = "init"]
    /\ UNCHANGED <<rowVars, attemptVars, runVars, goal, queueVars, req, up, events>>

\* Seeded fault: the refused slot is not given back.
ScheduleRefused_KeepsSlot(r) ==
    /\ up /\ pc[r] = "scheduled" /\ loops # {}
    /\ SetStatus(owner[r], "pending")
    /\ pc' = [pc EXCEPT ![r] = "unused"]
    /\ UNCHANGED <<cont, attemptVars, runVars, goal, memVars, queueVars, req, up, events>>

\* Another loop is active: the slot is given back and the job reverts to pending,
\* without a queue advance.
ScheduleRefused(r) ==
    /\ up /\ pc[r] = "scheduled" /\ loops # {}
    /\ SetStatus(owner[r], "pending")
    /\ activeRun' = [j \in Jobs |-> IF activeRun[j] = r THEN NoRun ELSE activeRun[j]]
    /\ run' = [run EXCEPT ![r] = "unclaimed"]
    /\ Retire(r)
    /\ UNCHANGED <<cont, attemptVars, memVars, queueVars, up, events>>

\* claimExecutionWorkloadSlot for a resumed, continued or restarted job.  Without a
\* slot the job reverts to pending and the loop is given up.
LoopClaims(r) ==
    /\ up /\ pc[r] = "claim"
    /\ IF SlotsInUse = {}
         THEN /\ OpenSlot(r, owner[r])
              /\ pc' = [pc EXCEPT ![r] = "init"]
              /\ UNCHANGED <<status, lease>>
         ELSE /\ SetStatus(owner[r], "pending")
              /\ pc' = [pc EXCEPT ![r] = "abandon"]
              /\ UNCHANGED runVars
    /\ UNCHANGED <<cont, attemptVars, goal, memVars, queueVars, req, up, events>>

\* finalizeJobExecution and markJobExecutionDone of a loop that never had a run.
LoopAbandoned(r) ==
    /\ up /\ pc[r] = "abandon"
    /\ DropRuntime(owner[r])
    /\ lease' = [lease EXCEPT ![owner[r]] = "none"]
    /\ Retire(r)
    /\ UNCHANGED <<status, cont, attemptVars, activeRun, run, queueVars, up, events>>

\* The workspace is taken: the slot is released without a queue advance and the
\* job reverts to pending; the lifecycle below still runs.
LoopLacksWorkspace(r) ==
    /\ up /\ pc[r] = "init" /\ WorkspaceBusy /\ Event
    /\ ReleaseRun(r)
    /\ SetStatus(owner[r], "pending")
    /\ pc' = [pc EXCEPT ![r] = "close"]
    /\ UNCHANGED <<cont, attemptVars, owner, held, goal, memVars, queueVars, req, up>>

-----------------------------------------------------------------------------
(* runExecutionLoop.  A status is persisted in two steps: assertRunWritable, then  *)
(* after an await the row update fenced by active_run_id.                          *)

Persist(r, s, next) ==
    /\ pc' = [pc EXCEPT ![r] = "check"]
    /\ goal' = [goal EXCEPT ![r] = [status |-> s, next |-> next]]

\* initializeExecutionState.
LoopInit(r) ==
    LET j == owner[r] IN
    /\ up /\ pc[r] = "init"
    /\ \/ /\ status[j] \in {"paused", "cancelled"}
          /\ pc' = [pc EXCEPT ![r] = "close"]
          /\ UNCHANGED <<goal, control>>
       \/ /\ status[j] = "pausing"
          /\ control' = [control EXCEPT ![j] = "paused"]
          /\ pc' = [pc EXCEPT ![r] = "loop"]
          /\ UNCHANGED goal
       \/ /\ status[j] \notin {"paused", "cancelled", "pausing"}
          /\ Persist(r, "running", "loop")
          /\ UNCHANGED control
    /\ UNCHANGED <<rowVars, attemptVars, runVars, loops, queueVars, req, up, events>>

\* assertRunWritable: the job's active run is this one and it is not being stopped.
Writable(r) == activeRun[owner[r]] = r /\ run[r] = "active"

\* What follows a status update; after a pause the control state is set again.
Proceed(r) ==
    /\ pc' = [pc EXCEPT ![r] = IF goal[r].next = "pause" THEN "close" ELSE goal[r].next]
    /\ goal' = [goal EXCEPT ![r] = NoGoal]
    /\ control' = IF goal[r].next = "pause" THEN [control EXCEPT ![owner[r]] = "paused"] ELSE control

LoopChecks(r) ==
    /\ up /\ pc[r] = "check"
    /\ IF Writable(r)
         THEN pc' = [pc EXCEPT ![r] = "write"] /\ UNCHANGED <<control, goal>>
         ELSE Proceed(r)
    /\ UNCHANGED <<rowVars, attemptVars, runVars, loops, queueVars, req, up, events>>

\* jobRowFence: the update applies only while the row names this run.
RowFence(r) == activeRun[owner[r]] = r

\* updateJobRowFenced.
LoopWrites(r) ==
    /\ up /\ pc[r] = "write"
    /\ IF RowFence(r) THEN SetStatus(owner[r], goal[r].status) ELSE UNCHANGED <<status, lease>>
    /\ Proceed(r)
    /\ UNCHANGED <<cont, attemptVars, runVars, loops, queueVars, req, up, events>>

\* refreshExecutionLease at the top of every iteration.
RefreshLease(j) ==
    lease' = IF status[j] = "running" THEN [lease EXCEPT ![j] = "local"] ELSE lease

\* shouldStopExecution: a cancelled job leaves the loop, a paused one persists it.
LoopStops(r) ==
    LET j == owner[r] IN
    /\ up /\ pc[r] = "loop"
    /\ RefreshLease(j)
    /\ \/ /\ control[j] = "cancelling"
          /\ pc' = [pc EXCEPT ![r] = "close"]
          /\ UNCHANGED goal
       \/ control[j] = "paused" /\ Persist(r, "paused", "pause")
    /\ UNCHANGED <<status, cont, attemptVars, runVars, memVars, queueVars, req, up, events>>

\* The workflow is complete, or nothing can run any more.
LoopConcludes(r) ==
    /\ up /\ pc[r] = "loop" /\ control[owner[r]] \in {"running", "none"}
    /\ RefreshLease(owner[r])
    /\ \E s \in {"completed", "failed"} : Persist(r, s, "close")
    /\ UNCHANGED <<status, cont, attemptVars, runVars, memVars, queueVars, req, up, events>>

InTurn(r) == pc[r] \in {"turn", "retry", "void"}

TurnFrame == UNCHANGED <<rowVars, runVars, memVars, queueVars, req, up>>

\* An exception leaves the loop: the failure is written under the row fence alone.
Throws(r) ==
    /\ pc' = [pc EXCEPT ![r] = "write"]
    /\ goal' = [goal EXCEPT ![r] = [status |-> "failed", next |-> "stop"]]

\* Seeded fault: any run may take up an attempt whose outcome is unknown.
MayStartAttempt_AnyRun(r) == TRUE

\* beginTaskAttempt: no attempt of unknown outcome, except this run's own.
MayStartAttempt(r) == unresolved[owner[r]] \in {NoRun, r}

\* The starting rows that are left when those of job j are interrupted.
OfOthers(j) == {r \in starting : owner[r] # j}

\* processNextTaskStep up to its first await: the run takes up its own attempt again, or
\* opens a new one and supersedes another run's that did not start.  A task whose outcome
\* is unknown fails the job.
AttemptBegins(r) ==
    LET j == owner[r] IN
    /\ up /\ pc[r] = "loop" /\ control[j] \in {"running", "none"}
    /\ RefreshLease(j)
    /\ \/ /\ MayStartAttempt(r) /\ unresolved[j] = r
          /\ pc' = [pc EXCEPT ![r] = "again"]
          /\ UNCHANGED <<goal, starting>>
       \/ /\ MayStartAttempt(r) /\ unresolved[j] # r
          /\ pc' = [pc EXCEPT ![r] = "begin"]
          /\ starting' = OfOthers(j) \cup {r}
          /\ UNCHANGED goal
       \/ /\ ~MayStartAttempt(r)
          /\ Persist(r, "failed", "close")
          /\ UNCHANGED starting
    /\ UNCHANGED <<status, cont, unresolved, runVars, memVars, queueVars, req, up, events>>

\* A run whose abort signal fired before its stream opens gets no provider.
TurnPc(r, first) == IF run[r] = "active" THEN first ELSE "void"

\* markTaskAttemptProviderStarted and the provider call, after the progress was saved.
\* From here the outcome is unknown.  An attempt that is not starting any more throws.
TurnStarts(r) ==
    /\ up
    /\ \/ /\ pc[r] = "again"
          /\ pc' = [pc EXCEPT ![r] = TurnPc(r, "retry")]
          /\ UNCHANGED <<goal, attemptVars>>
       \/ /\ pc[r] = "begin" /\ r \in starting
          /\ unresolved' = [unresolved EXCEPT ![owner[r]] = r]
          /\ starting' = starting \ {r}
          /\ pc' = [pc EXCEPT ![r] = TurnPc(r, "turn")]
          /\ UNCHANGED goal
       \/ /\ pc[r] = "begin" /\ r \notin starting
          /\ Throws(r)
          /\ UNCHANGED attemptVars
    /\ TurnFrame /\ UNCHANGED events

\* The task completed: the attempt is committed, then a pause request is honoured.
\* Committing an attempt that is not running any more throws.
TurnCompletes(r) ==
    LET j == owner[r] IN
    /\ up /\ InTurn(r) /\ pc[r] # "void"
    /\ IF unresolved[j] = r
         THEN /\ unresolved' = [unresolved EXCEPT ![j] = NoRun]
              /\ IF control[j] = "paused" THEN Persist(r, "paused", "pause")
                                          ELSE Persist(r, "running", "loop")
         ELSE Throws(r) /\ UNCHANGED unresolved
    /\ UNCHANGED starting
    /\ TurnFrame /\ UNCHANGED events

\* markTaskAttemptFailed keeps the outcome unknown; it throws when the attempt is not
\* open any more.
FailsAttempt(r, s, next) == IF unresolved[owner[r]] = r THEN Persist(r, s, next) ELSE Throws(r)

\* The task is paused: a person is needed, or the user's abort ended the stream (both
\* stop reasons are persisted as paused).
TurnStopped(r) ==
    /\ up /\ InTurn(r)
    /\ pc[r] = "void" => control[owner[r]] \in {"paused", "cancelling"}
    /\ FailsAttempt(r, "paused", "pause")
    /\ UNCHANGED attemptVars
    /\ TurnFrame /\ UNCHANGED events

\* The task failed; a pausing job tries again until its limit and then fails.
TurnFails(r) ==
    /\ up /\ InTurn(r)
    /\ \/ control[owner[r]] # "paused" /\ FailsAttempt(r, "failed", "close")
       \/ control[owner[r]] = "paused" /\ Persist(r, "failed", "close")
       \/ /\ control[owner[r]] = "paused"
          /\ pc' = [pc EXCEPT ![r] = "loop"]
          /\ UNCHANGED goal
    /\ UNCHANGED attemptVars
    /\ TurnFrame /\ UNCHANGED events

\* Infrastructure failure within the recovery limit, here one: the same run tries again.
TurnRecovers(r) ==
    /\ up /\ pc[r] = "turn"
    /\ Persist(r, "running", "loop")
    /\ UNCHANGED attemptVars
    /\ TurnFrame /\ UNCHANGED events

\* The workspace lease is gone, or the run was aborted because its own lease expired:
\* the loop returns and leaves the row as it is.
TurnLost(r) ==
    /\ up /\ InTurn(r)
    /\ \/ (~held[r] \/ run[r] # "active") /\ UNCHANGED events
       \/ WorkspaceBusy /\ Event
    /\ pc' = [pc EXCEPT ![r] = "close"]
    /\ UNCHANGED <<goal, attemptVars>>
    /\ TurnFrame

\* An exception elsewhere in the loop.  When the sandbox is not ready the job is
\* reverted instead, by an unfenced write.
LoopThrows(r) ==
    /\ up
    /\ \/ pc[r] = "init"
       \/ pc[r] = "loop" /\ control[owner[r]] # "cancelling"
    /\ \/ Throws(r) /\ UNCHANGED events
       \/ /\ SandboxMayFail /\ Event
          /\ pc' = [pc EXCEPT ![r] = "revert"]
          /\ \E s \in {"pending", "paused"} :
               goal' = [goal EXCEPT ![r] = [status |-> s, next |-> "stop"]]
    /\ UNCHANGED attemptVars
    /\ TurnFrame

\* revertJobAfterInfraStartupFailure.
LoopReverts(r) ==
    /\ up /\ pc[r] = "revert"
    /\ SetStatus(owner[r], goal[r].status)
    /\ Proceed(r)
    /\ UNCHANGED <<cont, attemptVars, runVars, loops, queueVars, req, up, events>>

-----------------------------------------------------------------------------
(* finishExecutionRunLifecycle. *)

Stopping(r, s) == run' = [run EXCEPT ![r] = IF run[r] \in OpenRun THEN s ELSE run[r]]

\* The runtime handle is closed, after cancel/stop/kill when the loop failed.
LoopCloses(r) ==
    /\ up /\ pc[r] \in {"close", "stop"}
    /\ IF pc[r] = "stop" THEN Stopping(r, "cancelling") ELSE UNCHANGED run
    /\ pc' = [pc EXCEPT ![r] = "finalize"]
    /\ UNCHANGED <<rowVars, attemptVars, activeRun, owner, held, goal, memVars, queueVars, req,
                   up, events>>

\* Closing failed: the run is quarantined and the lifecycle ends there.
LoopCloseFails(r) ==
    /\ up /\ CloseMayFail /\ Event /\ pc[r] \in {"close", "stop"}
    /\ Stopping(r, "stopping")
    /\ pc' = [pc EXCEPT ![r] = "stuck"]
    /\ UNCHANGED <<rowVars, attemptVars, activeRun, owner, held, goal, memVars, queueVars,
                   req, up>>

LoopFinalizes(r) ==
    /\ up /\ pc[r] = "finalize"
    /\ DropRuntime(owner[r])
    /\ pc' = [pc EXCEPT ![r] = "done"]
    /\ UNCHANGED <<rowVars, attemptVars, runVars, goal, queueVars, req, up, events>>

\* markJobExecutionDone, then the slot is released without a queue advance.
LoopReleases(r) ==
    LET j == owner[r] IN
    /\ up /\ pc[r] = "done"
    /\ loops' = loops \ {j}
    /\ control' = [control EXCEPT ![j] = IF control[j] = "paused" THEN "paused" ELSE "none"]
    /\ lease' = [lease EXCEPT ![j] = "none"]
    /\ ReleaseRun(r)
    /\ pc' = [pc EXCEPT ![r] = "settle"]
    /\ UNCHANGED <<status, cont, attemptVars, owner, held, goal, queueVars, req, up, events>>

\* The Continue intent is consumed, then the queue advances.
LoopSettles(r) ==
    LET j == owner[r] IN
    /\ up /\ pc[r] = "settle"
    /\ IF ContinueDue(j)
         THEN /\ SetStatus(j, "pending")
              /\ cont' = [cont EXCEPT ![j] = FALSE]
              /\ unresolved' = Forget([unresolved EXCEPT ![j] = NoRun], r)
         ELSE /\ unresolved' = Forget(unresolved, r)
              /\ UNCHANGED rowVars
    /\ wake' = "due"
    /\ run' = [run EXCEPT ![r] = "unclaimed"]
    /\ Retire(r)
    /\ UNCHANGED <<starting, activeRun, memVars, picked, up, events>>

-----------------------------------------------------------------------------
(* The user controls.  A request reads the job row first and acts on what it saw *)
(* after an await; only pause and continue use the status again.                 *)

Accepts == [pause    |-> {"running", "paused", "pending"},
            continue |-> {"paused", "pausing", "failed"},
            cancel   |-> JobStatus \ {"absent", "completed", "cancelled"},
            restart  |-> {"failed", "cancelled", "paused"}]

Request(c, op, j) ==
    /\ up /\ req[c] = Idle /\ status[j] \in Accepts[op] /\ Event
    /\ req' = [req EXCEPT ![c] =
                 [Idle EXCEPT !.op = op, !.at = "act", !.job = j,
                              !.seen = IF op \in {"pause", "continue"} THEN status[j] ELSE @]]
    /\ UNCHANGED <<rowVars, attemptVars, runVars, loopVars, memVars, queueVars, up>>

At(a, op, at) == up /\ req[a].op = op /\ req[a].at = at
GoTo(a, at) == req' = [req EXCEPT ![a].at = at]
Finish(a) == req' = [req EXCEPT ![a] = Idle]

\* pauseJob: a pending job is paused at once, a running one becomes pausing and its
\* loop is told, a paused one also has its run stopped.
PauseActs(c) ==
    LET j == req[c].job IN
    /\ At(c, "pause", "act")
    /\ cont' = [cont EXCEPT ![j] = FALSE]
    /\ SetStatus(j, IF req[c].seen = "running" THEN "pausing" ELSE "paused")
    /\ control' = IF req[c].seen = "pending" THEN control ELSE [control EXCEPT ![j] = "paused"]
    /\ IF req[c].seen = "paused" THEN GoTo(c, "stop") ELSE Finish(c)
    /\ UNCHANGED <<attemptVars, runVars, loopVars, loops, queueVars, up, events>>

\* resumePausedJob persists the intent; a job seen pausing is left to its loop.
ContinueActs(c) ==
    LET j == req[c].job IN
    /\ At(c, "continue", "act") /\ req[c].seen \in {"paused", "pausing"}
    /\ cont' = [cont EXCEPT ![j] = TRUE]
    /\ IF req[c].seen = "pausing" THEN Finish(c) ELSE GoTo(c, "settle")
    /\ UNCHANGED <<status, lease, attemptVars, runVars, loopVars, memVars, queueVars, up,
                   events>>

OldRunSettles(j) == j \in loops \/ activeRun[j] # NoRun

\* While the old loop or its run is there, it consumes the intent itself.
ContinueSettles(c) ==
    LET j == req[c].job IN
    /\ At(c, "continue", "settle")
    /\ IF OldRunSettles(j)
         THEN UNCHANGED <<rowVars, unresolved, wake>>
         ELSE SettleContinue(j) /\ wake' = "due"
    /\ Finish(c)
    /\ UNCHANGED <<starting, runVars, loopVars, memVars, picked, up, events>>

Occupied(j) ==
    \/ \E k \in loops \ {j} : JobUser[k] = JobUser[j]
    \/ LiveSlot(j)
    \/ RunningJobs(JobUser[j]) \ {j} # {}

\* restartJob, and continueFailedJob after it authorised the replay: queue behind
\* another job of the user or any live slot, else go for the execution lease.
RestartActs(c) ==
    LET j == req[c].job IN
    /\ At(c, "restart", "act") \/ (At(c, "continue", "act") /\ req[c].seen = "failed")
    /\ unresolved' = IF req[c].op = "continue" THEN [unresolved EXCEPT ![j] = NoRun] ELSE unresolved
    /\ IF Occupied(j) THEN SetStatus(j, "pending") /\ Finish(c)
                      ELSE GoTo(c, "lease") /\ UNCHANGED <<status, lease>>
    /\ UNCHANGED <<cont, starting, runVars, loopVars, memVars, queueVars, up, events>>

RestartLeases(c) ==
    LET j == req[c].job IN
    /\ up /\ req[c].at = "lease"
    /\ \/ /\ LeaseAcquired(j)
          /\ status' = [status EXCEPT ![j] = "running"]
          /\ lease' = [lease EXCEPT ![j] = "local"]
          /\ control' = [control EXCEPT ![j] = "running"]
          /\ GoTo(c, "schedule")
       \/ LeaseRefused(j) /\ SetStatus(j, "pending") /\ Finish(c) /\ UNCHANGED control
    /\ UNCHANGED <<cont, attemptVars, runVars, loopVars, loops, queueVars, up, events>>

\* The row is saved (a continue writes the status again), then
\* requestJobExecutionResume waits for an old loop of the job, or gives up.
RestartSchedules(c) ==
    LET j == req[c].job IN
    /\ up /\ req[c].at = "schedule"
    /\ IF req[c].op = "continue" THEN SetStatus(j, "running") ELSE UNCHANGED <<status, lease>>
    /\ \/ /\ StartLoop(j)
          /\ \E r \in Runs : Fresh(r) /\ BeginClaim(r, j)
       \/ /\ loops # {}
          /\ control' = IF j \in loops THEN control ELSE [control EXCEPT ![j] = "running"]
          /\ UNCHANGED <<loops, pc, owner>>
    /\ Finish(c)
    /\ UNCHANGED <<cont, attemptVars, activeRun, run, held, goal, queueVars, up, events>>

\* cancelJob: tell the loop, write the row, forget the runtime, stop the run.
CancelActs(c) ==
    /\ At(c, "cancel", "act")
    /\ control' = [control EXCEPT ![req[c].job] = "cancelling"]
    /\ GoTo(c, "write")
    /\ UNCHANGED <<rowVars, attemptVars, runVars, loopVars, loops, queueVars, up, events>>

CancelWrites(c) ==
    /\ At(c, "cancel", "write")
    /\ SetStatus(req[c].job, "cancelled")
    /\ GoTo(c, "drop")
    /\ UNCHANGED <<cont, attemptVars, runVars, loopVars, memVars, queueVars, up, events>>

CancelDrops(c) ==
    /\ At(c, "cancel", "drop")
    /\ DropRuntime(req[c].job)
    /\ lease' = [lease EXCEPT ![req[c].job] = "none"]
    /\ GoTo(c, "stop")
    /\ UNCHANGED <<status, cont, attemptVars, runVars, loopVars, queueVars, up, events>>

\* stopAndReleaseActiveRun: markRunCancelling and abort, then the graceful stop.
StopBegins(c) ==
    LET r == activeRun[req[c].job] IN
    /\ up /\ req[c].at = "stop"
    /\ IF r = NoRun
         THEN Finish(c) /\ UNCHANGED run
         ELSE /\ Stopping(r, "cancelling")
              /\ req' = [req EXCEPT ![c].at = "kill", ![c].run = r]
    /\ UNCHANGED <<rowVars, attemptVars, activeRun, owner, held, loopVars, memVars,
                   queueVars, up, events>>

\* A handle that does not close: the run is quarantined and keeps its slot.
StopFails(r) == Stopping(r, "stopping") /\ UNCHANGED activeRun

\* cancel, stop and kill with their grace periods and the close of the runtime handle;
\* then the slot is released and the queue advances (the reconciler's own advance comes
\* at the end of its cycle).  A run that ended meanwhile only leaves the advance.  The
\* handle of a job does not know its sandboxed turn, whose process may still drain:
\* module WorkspaceLease.
StopEnds(a) ==
    LET r == req[a].run IN
    /\ up /\ req[a].at = "kill"
    /\ IF r = NoRun
         THEN /\ wake' = IF a = Reconciler THEN wake ELSE "due"
              /\ UNCHANGED <<run, activeRun, events>>
         ELSE \/ /\ ReleaseRun(r)
                 /\ wake' = IF a = Reconciler THEN wake ELSE "due"
                 /\ UNCHANGED events
              \/ CloseMayFail /\ Event /\ StopFails(r) /\ UNCHANGED wake
    /\ Finish(a)
    /\ UNCHANGED <<rowVars, attemptVars, owner, held, loopVars, memVars, picked, up>>

-----------------------------------------------------------------------------
(* The reconciler. *)

\* A slot whose lease is not of this boot or has expired is stopped and released.
ReconcileSlot(r) ==
    /\ up /\ req[Reconciler] = Idle /\ r \in SlotsInUse /\ ~held[r]
    /\ Stopping(r, "cancelling")
    /\ req' = [req EXCEPT ![Reconciler] = [Idle EXCEPT !.op = "reconcile", !.at = "kill", !.run = r]]
    /\ UNCHANGED <<rowVars, attemptVars, activeRun, owner, held, loopVars, memVars,
                   queueVars, up, events>>

\* Seeded fault: a pausing job without a loop is taken for one being handled.
ReconcileJob_KeepsPausing(j, seen, intent) ==
    /\ seen = "running"
    /\ lease' = [lease EXCEPT ![j] = "none"]
    /\ unresolved' = [unresolved EXCEPT ![j] = IF Uncertain(j) THEN OldRun ELSE NoRun]
    /\ starting' = OfOthers(j)
    /\ UNCHANGED <<status, cont>>

\* reconcileStaleJobIfNeeded for a job without a loop whose row was read as (seen,
\* intent).  A pausing job becomes paused, or pending when Continue was asked for; a
\* running one stays running with its lease dropped and its open attempts interrupted.
ReconcileJob(j, seen, intent) ==
    /\ lease' = [lease EXCEPT ![j] = "none"]
    /\ IF seen = "running"
         THEN /\ status' = [status EXCEPT ![j] = "running"]
              /\ unresolved' = [unresolved EXCEPT ![j] = IF Uncertain(j) THEN OldRun ELSE NoRun]
              /\ starting' = OfOthers(j)
              /\ UNCHANGED cont
         ELSE /\ status' = [status EXCEPT ![j] = IF intent THEN "pending" ELSE "paused"]
              /\ unresolved' = [unresolved EXCEPT ![j] = IF intent THEN NoRun ELSE unresolved[j]]
              /\ cont' = [cont EXCEPT ![j] = FALSE]
              /\ UNCHANGED starting

\* The reconciler acts on a row as soon as it has read it,
ReconcilesFresh(j) ==
    /\ up /\ req[Reconciler] = Idle /\ status[j] \in {"running", "pausing"} /\ j \notin loops
    /\ ReconcileJob(j, status[j], cont[j])
    /\ UNCHANGED <<runVars, loopVars, memVars, queueVars, req, up, events>>

\* or later: the rows of all jobs are read before the first one is handled, and a
\* job's progress is saved to disk before its row is written.
ReconcileReads(j) ==
    /\ up /\ LateReconcile /\ req[Reconciler] = Idle /\ status[j] \in {"running", "pausing"} /\ Event
    /\ req' = [req EXCEPT ![Reconciler] =
                 [Idle EXCEPT !.op = "reconcile", !.at = "act", !.job = j, !.seen = status[j],
                              !.cont = cont[j]]]
    /\ UNCHANGED <<rowVars, attemptVars, runVars, loopVars, memVars, queueVars, up>>

\* A job with a loop only has its lease refreshed.
ReconcileChecks ==
    LET j == req[Reconciler].job IN
    /\ At(Reconciler, "reconcile", "act")
    /\ IF j \in loops THEN RefreshLease(j) /\ Finish(Reconciler)
                      ELSE GoTo(Reconciler, "write") /\ UNCHANGED lease
    /\ UNCHANGED <<status, cont, attemptVars, runVars, loopVars, memVars, queueVars, up,
                   events>>

ReconcileWrites ==
    /\ At(Reconciler, "reconcile", "write")
    /\ LET q == req[Reconciler] IN ReconcileJob(q.job, q.seen, q.cont)
    /\ Finish(Reconciler)
    /\ UNCHANGED <<runVars, loopVars, memVars, queueVars, up, events>>

\* Every cycle ends with a queue advance.
ReconcilerAdvances ==
    /\ up /\ req[Reconciler] = Idle /\ wake = "no"
    /\ wake' = "due"
    /\ UNCHANGED <<rowVars, attemptVars, runVars, loopVars, memVars, picked, req, up,
                   events>>

\* The lease of a run expires: the machine slept, or its quarantined loop does not renew
\* it any more.
LeaseExpires(r) ==
    /\ up /\ r \in SlotsInUse /\ held[r]
    /\ \/ Expiries /\ Event
       \/ pc[r] = "stuck" /\ UNCHANGED events
    /\ held' = [held EXCEPT ![r] = FALSE]
    /\ UNCHANGED <<rowVars, attemptVars, activeRun, owner, run, loopVars, memVars, queueVars,
                   req, up>>

-----------------------------------------------------------------------------
(* Crash and start-up. *)

\* The process dies: what it kept in memory is gone, no lease is of the next boot, and
\* the attempts are named by runs that are over.  (Start-up marks the attempts.)
Crash ==
    /\ up /\ Crashes /\ Event
    /\ up' = FALSE
    /\ lease' = [j \in Jobs |-> IF lease[j] = "local" THEN "stale" ELSE lease[j]]
    /\ unresolved' = [j \in Jobs |-> IF Uncertain(j) THEN OldRun ELSE NoRun] /\ starting' = {}
    /\ held' = [r \in Runs |-> FALSE]
    /\ run' = [r \in Runs |-> IF r \in SlotsInUse THEN run[r] ELSE "unclaimed"]
    /\ owner' = [r \in Runs |-> IF r \in SlotsInUse THEN owner[r] ELSE NoJob]
    /\ pc' = [r \in Runs |-> "unused"] /\ goal' = [r \in Runs |-> NoGoal]
    /\ loops' = {} /\ control' = [j \in Jobs |-> "none"]
    /\ wake' = "no" /\ picked' = {} /\ req' = [a \in Actors |-> Idle]
    /\ UNCHANGED <<status, cont, activeRun>>

\* reconcileOrphanWorkloadSlotsOnStartup: no slot is of this boot, all are released.
StartupRuns ==
    /\ run' = [r \in Runs |-> "unclaimed"]
    /\ owner' = [r \in Runs |-> NoJob]
    /\ activeRun' = [j \in Jobs |-> NoRun]
    /\ UNCHANGED held

\* Seeded fault: start-up writes a status the Legacy plane does not have.
StartupStatus_Interrupted(j) ==
    IF status[j] \in {"running", "pausing"} THEN "interrupted" ELSE status[j]

\* reconcileOrphanRunningJobsOnStartup, on every row.
StartupStatus(j) ==
    IF status[j] = "pausing" THEN IF cont[j] THEN "pending" ELSE "paused" ELSE status[j]

\* The start-up stages run before requests are served, then the queue advances.
Startup ==
    /\ ~up /\ up' = TRUE
    /\ StartupRuns
    /\ status' = [j \in Jobs |-> StartupStatus(j)]
    /\ cont' = [j \in Jobs |-> cont[j] /\ status[j] # "pausing"]
    /\ lease' = [j \in Jobs |-> IF status[j] \in {"running", "pausing"} THEN "none" ELSE lease[j]]
    /\ unresolved' = [j \in Jobs |-> IF status[j] = "pausing" /\ cont[j] THEN NoRun ELSE unresolved[j]]
    /\ wake' = "due"
    /\ UNCHANGED <<starting, loopVars, memVars, picked, req, events>>

-----------------------------------------------------------------------------
(* Specification. *)

Init ==
    /\ status = [j \in Jobs |-> "absent"] /\ cont = [j \in Jobs |-> FALSE]
    /\ lease = [j \in Jobs |-> "none"] /\ activeRun = [j \in Jobs |-> NoRun]
    /\ unresolved = [j \in Jobs |-> NoRun] /\ starting = {}
    /\ owner = [r \in Runs |-> NoJob] /\ run = [r \in Runs |-> "unclaimed"]
    /\ held = [r \in Runs |-> FALSE]
    /\ pc = [r \in Runs |-> "unused"] /\ goal = [r \in Runs |-> NoGoal]
    /\ loops = {} /\ control = [j \in Jobs |-> "none"]
    /\ wake = "no" /\ picked = {}
    /\ req = [a \in Actors |-> Idle] /\ up = TRUE /\ events = 0

Advance ==
    \/ \E j \in Jobs : \/ AdvanceHoldsUncertain(j) \/ AdvanceResumes(j) \/ AdvanceSkipsRunning(j)
                       \/ AdvancePicks(j) \/ AdvanceClaims(j)
    \/ AdvanceStops

LoopActs(r) ==
    \/ ScheduleStarts(r) \/ ScheduleRefused(r) \/ LoopClaims(r) \/ LoopAbandoned(r)
    \/ LoopLacksWorkspace(r) \/ LoopInit(r) \/ LoopChecks(r) \/ LoopWrites(r) \/ LoopStops(r)
    \/ LoopConcludes(r) \/ LoopThrows(r) \/ LoopReverts(r)
    \/ AttemptBegins(r) \/ TurnStarts(r) \/ TurnCompletes(r) \/ TurnStopped(r) \/ TurnFails(r)
    \/ TurnRecovers(r) \/ TurnLost(r)
    \/ LoopCloses(r) \/ LoopFinalizes(r) \/ LoopReleases(r) \/ LoopSettles(r)

Loop(r) == LoopActs(r) \/ LoopCloseFails(r)

Handler(c) ==
    \/ PauseActs(c) \/ ContinueActs(c) \/ ContinueSettles(c) \/ RestartActs(c) \/ RestartLeases(c)
    \/ RestartSchedules(c) \/ CancelActs(c) \/ CancelWrites(c) \/ CancelDrops(c) \/ StopBegins(c)
    \/ StopEnds(c)

Reconcile ==
    \/ \E r \in Runs : ReconcileSlot(r)
    \/ \E j \in Jobs : ReconcilesFresh(j) \/ ReconcileReads(j)
    \/ ReconcileChecks \/ ReconcileWrites \/ StopEnds(Reconciler) \/ ReconcilerAdvances

Next ==
    \/ \E j \in Jobs : Launch(j)
    \/ Advance
    \/ \E r \in Runs : Loop(r) \/ LeaseExpires(r)
    \/ \E c \in Clients : Handler(c) \/ \E op \in Ops, j \in Jobs : Request(c, op, j)
    \/ Reconcile \/ Crash \/ Startup

Spec == Init /\ [][Next]_vars

-----------------------------------------------------------------------------
(* Properties. *)

Goals == [status : JobStatus, next : {"loop", "close", "stop", "pause"}]
Stages == {"start", "act", "settle", "lease", "schedule", "write", "drop", "stop", "kill"}
Requests == [op : Ops \cup {"idle", "reconcile"}, at : Stages, job : Jobs \cup {NoJob},
             seen : JobStatus, cont : BOOLEAN, run : Runs \cup {NoRun}]

\* Types of the rows, of the process's memory and of the place of every handler.
TypeOK ==
    /\ status \in [Jobs -> JobStatus] /\ cont \in [Jobs -> BOOLEAN]
    /\ lease \in [Jobs -> {"none", "local", "stale"}]
    /\ activeRun \in [Jobs -> Runs \cup {NoRun}]
    /\ unresolved \in [Jobs -> Runs \cup {NoRun, OldRun}] /\ starting \subseteq Runs
    /\ owner \in [Runs -> Jobs \cup {NoJob}] /\ run \in [Runs -> RunStatus]
    /\ held \in [Runs -> BOOLEAN]
    /\ pc \in [Runs -> LoopPc]
    /\ goal \in [Runs -> Goals]
    /\ loops \subseteq Jobs /\ control \in [Jobs -> {"none", "running", "paused", "cancelling"}]
    /\ wake \in {"no", "due", "past"} /\ picked \subseteq Jobs
    /\ req \in [Actors -> Requests]
    /\ up \in BOOLEAN /\ events \in 0..MaxEvents

\* The pool has one slot: claims by the queue and by resumed, continued and
\* restarted loops, in any order, never hold two.
OneSlot == \A r, s \in SlotsInUse : r = s

\* A slot in use and the owner's active_run_id name each other, so that every fence
\* on active_run_id is a fence on the slot.
SlotNamesOwner ==
    /\ \A r \in SlotsInUse : owner[r] \in Jobs /\ activeRun[owner[r]] = r
    /\ \A j \in Jobs : activeRun[j] # NoRun =>
         activeRun[j] \in SlotsInUse /\ owner[activeRun[j]] = j

\* An attempt whose outcome is unknown is not taken up by another run, and is
\* written off only by its own run or by a user's Continue.
ReplayAuthorised ==
    \A j \in Jobs :
      unresolved[j] # NoRun /\ unresolved'[j] # unresolved[j] =>
        \/ unresolved'[j] = OldRun
        \/ /\ unresolved'[j] = NoRun
           /\ \/ unresolved[j] \in Runs /\ InTurn(unresolved[j])
              \/ cont[j]
              \/ \E a \in Actors : req[a].job = j /\ (req[a].cont \/ req[a].op = "continue")

OnlyUserAuthorisesReplay == [][ReplayAuthorised]_vars

\* A cancelled job stays cancelled until the user restarts it: no late write of a
\* loop, a request or the reconciler revives it.
CancelSticks ==
    [][\A j \in Jobs : status[j] = "cancelled" /\ status'[j] # "cancelled" =>
         \E c \in Clients : req[c].job = j /\ req[c].op = "restart"]_vars

\* Every step of a handler, of a loop and of the queue that is due is taken; a turn
\* ends; a loop concludes, its plan not growing for ever (ExecutionGate,
\* LoopSettlesOrGrows: the code counts repairs per task, not per plan); timers
\* fire, so the reconciler runs and a lease without heartbeat expires.  A claimed
\* slot does not meet another pass in the few milliseconds before its loop starts
\* every single time.
Fairness ==
    /\ WF_vars(\/ AdvanceStops
               \/ \E j \in Jobs : \/ AdvanceHoldsUncertain(j) \/ AdvanceResumes(j)
                                  \/ AdvanceSkipsRunning(j) \/ AdvancePicks(j))
    /\ \A j \in Jobs : WF_vars(AdvanceClaims(j)) /\ WF_vars(ReconcilesFresh(j))
    /\ \A r \in Runs : /\ WF_vars(LoopActs(r))
                       /\ SF_vars(LoopConcludes(r))
                       /\ WF_vars(pc[r] = "stuck" /\ LeaseExpires(r))
                       /\ WF_vars(ReconcileSlot(r))
    /\ SF_vars(\E r \in Runs : ScheduleStarts(r))
    /\ \A c \in Clients : WF_vars(Handler(c))
    /\ WF_vars(ReconcileChecks \/ ReconcileWrites \/ StopEnds(Reconciler)) /\ WF_vars(ReconcilerAdvances)
    /\ WF_vars(Startup)

FairSpec == Spec /\ Fairness

\* A pending job is eventually started, also after a crash.
PendingStarts == \A j \in Jobs : status[j] = "pending" ~> status[j] # "pending"

\* A slot that was claimed is given back, whichever path the loop takes and also
\* when the process crashes.
SlotFreed == \A r \in Runs : r \in SlotsInUse ~> r \notin SlotsInUse

\* A pausing job does not stay pausing: its loop persists the pause, or the
\* reconciler does when no loop is left.
PausingSettles == \A j \in Jobs : status[j] = "pausing" ~> status[j] # "pausing"

=============================================================================
