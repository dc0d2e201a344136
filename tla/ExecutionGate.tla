--------------------------- MODULE ExecutionGate ---------------------------
(***************************************************************************)
(* The execution loop of one job: which task runs next, when a slice and a *)
(* milestone are verified, and how the plan grows when a task is blocked   *)
(* or a verdict asks for repair (legacy-control-plane/execution-gate.ts    *)
(* and executor.ts).                                                       *)
(*                                                                         *)
(* The loop is sequential.  What interleaves with it is a pause request    *)
(* and the end of the process, so the model keeps the progress twice: mem, *)
(* the state of the loop, and disk, what the last save left in the         *)
(* database.  A save takes the progress object it is given: the saves that *)
(* build a fresh object drop the counters and the slice verdicts           *)
(* (operator Bare), the ones that spread taskProgress keep them.           *)
(*                                                                         *)
(* A task is its position in plan.  Evidence is reduced to whether it was  *)
(* accepted, and an evidence bundle to the number of tasks it covers:      *)
(* every repair adds a task, and a completed task is not run again.        *)
(***************************************************************************)
EXTENDS Naturals, Sequences, FiniteSets, SequencesExt

CONSTANTS
    InitialPlan,    \* sequence of [slice, deps, parallel], as the planner saved it
    SliceDeps,      \* dependsOnSliceIds: the slices each slice waits for
    MilestoneOf,    \* the milestone of each slice
    MaxGeneration,  \* MAX_REPAIR_GENERATIONS and the like of recovery-limits.ts
    MaxAttempts,    \* MAX_VERIFICATION_ATTEMPTS
    MaxPausing,     \* MAX_PAUSING_TURN_ATTEMPTS
    Reports,        \* the blocked reports tasks may make: <<kind, task>> pairs
    MaxRepairTasks, \* DEFAULT_MAX_REPAIR_TASKS_PER_VERDICT
    MaxTasks,       \* bound of the model: no task is injected into a longer plan
    MaxStops        \* bound on crashes, pause requests and restarts

ASSUME GateAssumption ==
    /\ \A t \in DOMAIN InitialPlan : InitialPlan[t].slice \in 1..Len(SliceDeps)
    /\ \A s \in DOMAIN SliceDeps : SliceDeps[s] \subseteq 1..(s - 1)
    /\ DOMAIN MilestoneOf = DOMAIN SliceDeps
    /\ MaxGeneration \in Nat /\ MaxAttempts \in Nat \ {0} /\ MaxPausing \in Nat \ {0}
    /\ MaxRepairTasks \in Nat \ {0} /\ MaxTasks \in Nat /\ MaxStops \in Nat
    /\ Reports \subseteq {"infra", "prep", "repair"} \X (1..MaxTasks)

VARIABLES
    plan,       \* the plan, which every injection saves with the progress
    mem,        \* the loop's items, gate states, verdicts and counters
    disk,       \* the same as last saved
    committed,  \* tasks with a completed attempt in the ledger
    pc,         \* where the loop is
    cur,        \* the task, slice or milestone it is working on
    status,     \* thread_jobs.status, with the reason of a failure
    pausing,    \* a pause request is pending
    stops,      \* crashes, pause requests and restarts so far
    covered,    \* history: number of tasks each slice and milestone passed with
    torn        \* history: the stops after which progress and ledger may disagree

vars == <<plan, mem, disk, committed, pc, cur, status, pausing, stops, covered, torn>>

Slices == DOMAIN SliceDeps
Milestones == {MilestoneOf[s] : s \in Slices}
SlicesOf(m) == {s \in Slices : MilestoneOf[s] = m}
TasksOf(p, s) == {t \in DOMAIN p : p[t].slice = s}
TasksIn(p, m) == {t \in DOMAIN p : MilestoneOf[p[t].slice] = m}
Greatest(S) == CHOOSE x \in S : \A y \in S : x >= y

----------------------------------------------------------------------------
(* Progress: items, runtime and verification status of the gates, verdicts *)
(* and counters.  A counter that was never written counts as zero.         *)

Queued == [status |-> "queued", evidence |-> FALSE]

Get(counters, key, default) ==
    IF key \in DOMAIN counters THEN counters[key] ELSE default
Put(counters, key, n) ==
    [k \in DOMAIN counters \cup {key} |-> IF k = key THEN n ELSE counters[k]]
NoCounters == [k \in {} |-> 0]

Generation(m, key) == Get(m.generations, key, 0)

\* Seeded fault: the retry is not counted.
withGeneration_Lost(m, key, n) == m

withGeneration(m, key, n) == [m EXCEPT !.generations = Put(@, key, n)]

\* What a progress object built without ...taskProgress saves of the loop's
\* state: items and gate states, no counters and no verdicts.
Bare(m) == [m EXCEPT !.verdict = [s \in Slices |-> "none"],
                     !.generations = NoCounters, !.attempts = NoCounters]

SetItem(m, t, item) == [m EXCEPT !.items = [@ EXCEPT ![t] = item]]

Done(m, t) == m.items[t].status = "completed" /\ m.items[t].evidence

sliceStatus(p, m, s) ==
    LET statuses == {m.items[t].status : t \in TasksOf(p, s)} IN
    IF m.runtime[s] \in {"progress-ok", "verification-blocked"} THEN "completed"
    ELSE IF "failed" \in statuses THEN "failed"
    ELSE IF statuses = {"completed"} THEN "completed"
    ELSE IF "running" \in statuses THEN "in_progress"
    ELSE "pending"

reconcileSliceStatuses(p, m) ==
    [m EXCEPT !.runtime = [s \in Slices |->
        LET st == sliceStatus(p, m, s) IN
        IF st = "completed" /\ @[s] \in {"none", "running"} THEN "ready-for-verification"
        ELSE IF st = "in_progress" THEN "running"
        ELSE @[s]]]

reconcileMilestoneStatuses(m) ==
    [m EXCEPT !.milestone = [k \in Milestones |->
        IF @[k] = "none" /\ \A s \in SlicesOf(k) : m.runtime[s] = "progress-ok"
        THEN "ready-for-verification" ELSE @[k]]]

Reconcile(p, m) == reconcileMilestoneStatuses(reconcileSliceStatuses(p, m))
----------------------------------------------------------------------------
(* Choice of the next task.                                                *)

\* The tasks before t in its slice, in order.
Earlier(p, t) ==
    SelectSeq([u \in 1..(t - 1) |-> u], LAMBDA u : p[u].slice = p[t].slice)

Implicit(p, t) == p[t].deps = <<>> /\ ~p[t].parallel

effectiveTaskDependencyIds(p, t, target) ==
    IF p[t].deps # <<>> THEN p[t].deps
    ELSE IF p[t].parallel \/ (p[t].slice = p[target].slice /\ t >= target) THEN <<>>
    ELSE Earlier(p, t)

\* hasEffectiveDependencyPath: depth first from one task, with the tasks on
\* the current path and the answers so far.
SearchFrom(p, target) ==
    LET visit[t \in DOMAIN p, visiting \in SUBSET DOMAIN p,
              memo \in [DOMAIN p -> {"unknown", "path", "none"}]] ==
          LET deps == effectiveTaskDependencyIds(p, t, target)
              some[i \in Nat, sofar \in BOOLEAN \X [DOMAIN p -> STRING]] ==
                IF sofar[1] \/ i > Len(deps)
                THEN <<sofar[1], [sofar[2] EXCEPT ![t] = IF sofar[1] THEN "path" ELSE "none"]>>
                ELSE some[i + 1, visit[deps[i], visiting \cup {t}, sofar[2]]]
          IN  IF t = target THEN <<TRUE, memo>>
              ELSE IF memo[t] # "unknown" THEN <<memo[t] = "path", memo>>
              ELSE IF t \in visiting THEN <<FALSE, memo>>
              ELSE some[1, <<FALSE, memo>>]
    IN  visit

\* The earlier tasks of the slice that a task without dependencies of its own
\* still waits for: those without a path back to it.  The answers are kept from
\* one predecessor to the next.
ImplicitPredecessors(p, t) ==
    LET visit == SearchFrom(p, t)
        preds == Earlier(p, t)
        from[i \in Nat, memo \in [DOMAIN p -> STRING]] ==
          IF i > Len(preds) THEN {}
          ELSE UNION {(IF found[1] THEN {} ELSE {preds[i]}) \cup from[i + 1, found[2]] :
                        found \in {visit[preds[i], {}, memo]}}
    IN  from[1, [u \in DOMAIN p |-> "unknown"]]

\* Seeded fault: the slice dependencies are left to the first loop over them,
\* whose continue does not leave it.
Ready_FirstLoopOnly(p, m, t) ==
    /\ m.items[t].status = "queued"
    /\ sliceStatus(p, m, p[t].slice) # "failed"
    /\ Implicit(p, t) => \A u \in ImplicitPredecessors(p, t) : Done(m, u)
    /\ \A u \in ToSet(p[t].deps) : Done(m, u)

Ready(p, m, t) ==
    /\ m.items[t].status = "queued"
    /\ sliceStatus(p, m, p[t].slice) # "failed"
    /\ \A s \in SliceDeps[p[t].slice] : m.runtime[s] = "progress-ok"
    /\ Implicit(p, t) => \A u \in ImplicitPredecessors(p, t) : Done(m, u)
    /\ \A u \in ToSet(p[t].deps) : Done(m, u)

\* The first of a set of slices or milestones, as a set of at most one.
First(S) == {x \in S : \A y \in S : x <= y}

\* Slices in order, and in each slice its tasks in order.
findNextReadyTask(p, m) ==
    LET ready == {t \in DOMAIN p : Ready(p, m, t)}
    IN  {t \in ready : \A u \in ready :
            p[t].slice < p[u].slice \/ (p[t].slice = p[u].slice /\ t <= u)}

findSliceReadyForVerification(p, m) ==
    First({s \in Slices :
             /\ m.runtime[s] = "ready-for-verification"
             /\ m.verification[s] \notin {"passed", "blocked"}
             /\ \A d \in SliceDeps[s] : m.runtime[d] = "progress-ok"
             /\ \A t \in TasksOf(p, s) : Done(m, t)})

findMilestoneReadyForVerification(m) ==
    First({k \in Milestones :
             /\ m.milestone[k] = "ready-for-verification"
             /\ \A s \in SlicesOf(k) : m.runtime[s] = "progress-ok"})

isWorkflowComplete(m) ==
    /\ \A k \in Milestones : m.milestone[k] = "passed"
    /\ \A s \in Slices : m.runtime[s] = "progress-ok"
----------------------------------------------------------------------------
(* Steps of the loop.                                                      *)

Fresh(p) == [items        |-> [t \in DOMAIN p |-> Queued],
             runtime      |-> [s \in Slices |-> "none"],
             verification |-> [s \in Slices |-> "none"],
             milestone    |-> [k \in Milestones |-> "none"],
             verdict      |-> [s \in Slices |-> "none"],
             generations  |-> NoCounters,
             attempts     |-> NoCounters]

Init ==
    /\ plan = InitialPlan /\ mem = Fresh(plan) /\ disk = Fresh(plan) /\ committed = {}
    /\ pc = "loop" /\ cur = 0 /\ status = "running"
    /\ pausing = FALSE /\ stops = 0 /\ torn = {}
    /\ covered = [g \in {<<"slice", s>> : s \in Slices}
                        \cup {<<"milestone", k>> : k \in Milestones} |-> 0]

history == <<covered, torn>>
control == <<pausing, stops>>

\* The loop goes on with progress m, and disk has d.
Continue(m, d) ==
    /\ mem' = m /\ disk' = d
    /\ pc' = "loop" /\ cur' = 0 /\ UNCHANGED status

\* The loop returns with the job in the given status, and disk has d.
Return(st, d) ==
    /\ disk' = d /\ status' = st /\ pc' = "stopped" /\ cur' = 0
    /\ pausing' = FALSE /\ UNCHANGED mem

\* The progress after the reconcile at the head of an iteration that no pause
\* stops.
Heads == IF pc = "loop" /\ ~pausing THEN {Reconcile(plan, mem)} ELSE {}

finalizeExecutionPause ==
    /\ pc = "loop" /\ pausing
    /\ Return("paused", mem)
    /\ UNCHANGED <<plan, committed, stops, history>>

handleWorkflowCompletion ==
    /\ \E now \in Heads : isWorkflowComplete(now) /\ Return("completed", now)
    /\ UNCHANGED <<plan, committed, stops, history>>

\* The workflow is not complete, and no slice or milestone is to be verified.
TaskTurn(now) ==
    /\ ~isWorkflowComplete(now)
    /\ findSliceReadyForVerification(plan, now) = {}
    /\ findMilestoneReadyForVerification(now) = {}

NoTaskReady ==
    /\ \E now \in Heads :
         /\ TaskTurn(now) /\ findNextReadyTask(plan, now) = {}
         /\ Return(IF \E t \in DOMAIN plan : now.items[t].status = "failed"
                   THEN "workflow.failed_block" ELSE "workflow.deadlock", Bare(now))
    /\ UNCHANGED <<plan, committed, stops, history>>

\* The task's status changes and the gates follow.
Marked(m, t, st) ==
    Reconcile(plan, SetItem(m, t, [status |-> st, evidence |-> m.items[t].evidence]))

\* The ledger has the task completed: it is marked so and not run again.
AlreadyCompleted ==
    /\ \E now \in Heads : TaskTurn(now) /\ \E t \in findNextReadyTask(plan, now) :
         /\ t \in committed
         /\ Continue(Marked(now, t, "completed"), Marked(now, t, "completed"))
    /\ UNCHANGED <<plan, committed, control, history>>

TaskStarts ==
    /\ \E now \in Heads : TaskTurn(now) /\ \E t \in findNextReadyTask(plan, now) :
         /\ t \notin committed
         /\ mem' = Marked(now, t, "running") /\ cur' = t
    /\ disk' = Bare(mem') /\ pc' = "task"
    /\ UNCHANGED <<plan, committed, status, control, history>>

\* The task reports completed: the attempt and the task row are committed in
\* one transaction, which leaves the row's evidence status alone.  The pause
\* flag is read before the commit.
TaskCompletes ==
    /\ pc = "task"
    /\ mem' = SetItem(mem, cur, [status |-> "completed", evidence |-> TRUE])
    /\ committed' = committed \cup {cur}
    /\ disk' = SetItem(disk, cur, [disk.items[cur] EXCEPT !.status = "completed"])
    /\ pc' = IF pausing THEN "save paused" ELSE "save"
    /\ UNCHANGED <<plan, cur, status, control, history>>

SaveCompleted ==
    /\ \/ /\ pc = "save" /\ Continue(mem, Bare(mem)) /\ UNCHANGED pausing
       \/ /\ pc = "save paused" /\ Return("paused", Bare(mem))
    /\ UNCHANGED <<plan, committed, stops, history>>

\* applyTaskInfraRetryItem: the task is queued again.
TaskRetries ==
    /\ pc = "task" /\ <<"infra", cur>> \in Reports
    /\ LET key == <<"infra", cur>>
           n == Generation(mem, key) + 1
           m == Reconcile(plan, withGeneration(SetItem(mem, cur, Queued), key, n))
       IN n <= MaxGeneration /\ Continue(m, m)
    /\ UNCHANGED <<plan, committed, control, history>>

\* A plan with one more task, and a progress with n more items.
AppendTask(p, s, deps) == Append(p, [slice |-> s, deps |-> deps, parallel |-> FALSE])
AppendItems(m, n) == [m EXCEPT !.items = @ \o [i \in 1..n |-> Queued]]

\* Seeded fault: the prerequisite depends on the task it was made for.
RecoveryPlan_OnParent(p, t) ==
    AppendTask([p EXCEPT ![t].deps = Append(@, Len(p) + 1)], p[t].slice, <<t>>)

\* A prerequisite is appended to the slice, and the blocked task waits for it.
RecoveryPlan(p, t) ==
    AppendTask([p EXCEPT ![t].deps = Append(@, Len(p) + 1)], p[t].slice, <<>>)

\* inject-prep and inject-repair: the blocked task is queued behind a new one.
\* The generations are counted per task, and an injected task may be blocked in
\* its turn: the code has no bound on the length of the plan, MaxTasks is one of
\* the model.
TaskInjects(kind) ==
    /\ pc = "task" /\ <<kind, cur>> \in Reports /\ Len(plan) < MaxTasks
    /\ plan' = RecoveryPlan(plan, cur)
    /\ LET key == <<kind, cur>>
           n == Generation(mem, key) + 1
           m == Reconcile(plan', withGeneration(AppendItems(SetItem(mem, cur, Queued), 1), key, n))
       IN n <= MaxGeneration /\ Continue(m, m)
    /\ UNCHANGED <<committed, control, history>>

FailedItem(m) == SetItem(m, cur, [status |-> "failed", evidence |-> FALSE])

TaskFails ==
    /\ pc = "task" /\ ~pausing
    /\ Return("failed", Bare(FailedItem(mem)))
    /\ UNCHANGED <<plan, committed, stops, history>>

PausingKey == <<"pausing", 0>>

\* A failure while a pause is pending is counted, and the loop goes on to pause.
TaskFailsPausing ==
    /\ pc = "task" /\ pausing
    /\ LET n == Generation(mem, PausingKey) + 1
           m == withGeneration(FailedItem(mem), PausingKey, n)
       IN IF n >= MaxPausing THEN Return("failed", m)
          ELSE Continue(m, disk) /\ UNCHANGED pausing
    /\ UNCHANGED <<plan, committed, stops, history>>

\* The request aborts the turn: the task is queued again and the job is paused,
\* its counters kept.  A cancellation leaves the task the same way.
TaskPaused ==
    /\ pc = "task" /\ pausing /\ Return("paused", SetItem(mem, cur, Queued))
    /\ UNCHANGED <<plan, committed, stops, history>>

\* A task that needs a person: the job is held as paused.
TaskNeedsPerson ==
    /\ pc = "task" /\ Return("paused for a person", FailedItem(mem))
    /\ UNCHANGED <<plan, committed, stops, history>>
----------------------------------------------------------------------------
(* Verification of a slice.                                                *)

SliceKey(s) == <<"slice", s>>
MilestoneKey(k) == <<"milestone", k>>

\* guardVerificationAttempt: attempts are left, and the evidence is not the one
\* of the last inconclusive attempt.
MayVerify(m, key, bundle) ==
    LET last == Get(m.attempts, key, [count |-> 0, bundle |-> 0])
    IN  last.count < MaxAttempts /\ (last.count = 0 \/ last.bundle # bundle)

SliceBundle(s) == Cardinality(TasksOf(plan, s))
MilestoneBundle(k) == Cardinality(TasksIn(plan, k))

\* The loop goes to the verifier of gate g, with progress m.
Verify(g, at, m) ==
    /\ mem' = m /\ disk' = m /\ cur' = g /\ pc' = at
    /\ UNCHANGED <<status, pausing>>

\* The evidence of the tasks is there, as a slice is ready only with it: the
\* preflight check of the step has nothing to queue again.
SliceVerificationStarts ==
    /\ \E now \in Heads : \E s \in findSliceReadyForVerification(plan, now) :
         /\ ~isWorkflowComplete(now)
         /\ IF MayVerify(now, SliceKey(s), SliceBundle(s))
            THEN Verify(s, "verify slice", [now EXCEPT !.runtime[s] = "verifying"])
            ELSE Return("failed", [now EXCEPT !.runtime[s] = "verification-blocked",
                                              !.verification[s] = "blocked"])
    /\ UNCHANGED <<plan, committed, stops, history>>

SlicePasses ==
    /\ pc = "verify slice"
    /\ LET m == reconcileMilestoneStatuses(
                  [mem EXCEPT !.runtime[cur] = "progress-ok", !.verification[cur] = "passed",
                              !.verdict[cur] = "passed"])
       IN Continue(m, m)
    /\ covered' = [covered EXCEPT ![SliceKey(cur)] = SliceBundle(cur)]
    /\ UNCHANGED <<plan, committed, control, torn>>

\* Seeded fault: the verification state of the slice is kept.
resetSliceVerificationState_Kept(m, s) == m

resetSliceVerificationState(m, s) ==
    [m EXCEPT !.runtime[s] = "none", !.verification[s] = "none"]

\* The plan gets the repair tasks of a verdict, each a slice and the task it
\* comes behind, and their slices are verified again after them.
Repair(m, tasks) ==
    /\ Len(plan) + Len(tasks) <= MaxTasks
    /\ plan' = FoldLeft(LAMBDA p, new : AppendTask(p, new[1], <<new[2]>>), plan, tasks)
    /\ LET reset == FoldLeft(LAMBDA n, new : resetSliceVerificationState(n, new[1]),
                             AppendItems(m, Len(tasks)), tasks)
           n == Reconcile(plan', reset)
       IN Continue(n, n)

\* Seeded fault: one generation too many.
MayRepair_OneMore(m, key) == Generation(m, key) + 1 <= MaxGeneration + 1

MayRepair(m, key) == Generation(m, key) + 1 <= MaxGeneration

\* Each suggestion names a task the slice had, or falls back on its last one.
SliceNeedsRepair ==
    /\ pc = "verify slice" /\ MayRepair(mem, SliceKey(cur))
    /\ \E n \in 1..MaxRepairTasks : \E tasks \in [1..n -> {cur} \X TasksOf(plan, cur)] :
         Repair(withGeneration(mem, SliceKey(cur), Generation(mem, SliceKey(cur)) + 1), tasks)
    /\ UNCHANGED <<committed, control, history>>

\* The verdict cannot be acted on: blocked, or repairs used up or not suggested.
SliceFails ==
    /\ pc = "verify slice"
    /\ \/ Return("failed", [mem EXCEPT !.runtime[cur] = "verification-blocked",
                                        !.verification[cur] = "blocked",
                                        !.verdict[cur] = "blocked"])
       \/ Return("failed", mem)
    /\ UNCHANGED <<plan, committed, stops, history>>

WithAttempt(m, key, n, bundle) ==
    [m EXCEPT !.attempts = Put(@, key, [count |-> n, bundle |-> bundle])]
Attempt(m, key) == Get(m.attempts, key, [count |-> 0, bundle |-> 0]).count + 1

SliceInconclusive ==
    /\ pc = "verify slice"
    /\ LET n == Attempt(mem, SliceKey(cur))
           m == [mem EXCEPT !.verdict[cur] = "inconclusive"]
       IN IF n >= MaxAttempts
          THEN /\ Return("failed", [m EXCEPT !.runtime[cur] = "verification-blocked",
                                             !.verification[cur] = "inconclusive"])
               /\ UNCHANGED plan
          ELSE /\ Repair(WithAttempt(m, SliceKey(cur), n, SliceBundle(cur)),
                         <<<<cur, Greatest(TasksOf(plan, cur))>>>>)
               /\ UNCHANGED pausing
    /\ UNCHANGED <<committed, stops, history>>

\* The verifier ends without a verdict: it is started again while retries last.
\* A slice then fails with a fresh progress object, a milestone does not.
VerifierMisses ==
    /\ pc \in {"verify slice", "verify milestone"}
    /\ LET key == <<"verifier", pc, cur>>
           n == Generation(mem, key) + 1
       IN IF n <= MaxGeneration
          THEN /\ mem' = withGeneration(mem, key, n) /\ disk' = mem'
               /\ UNCHANGED <<pc, cur, status, pausing>>
          ELSE Return("failed", IF pc = "verify slice" THEN Bare(mem) ELSE mem)
    /\ UNCHANGED <<plan, committed, stops, history>>
----------------------------------------------------------------------------
(* Verification of a milestone.                                            *)

MilestoneTurn(now) == ~isWorkflowComplete(now) /\ findSliceReadyForVerification(plan, now) = {}
MissingVerdicts(m, k) == {s \in SlicesOf(k) : m.verdict[s] = "none"}

\* A slice that passed but whose verdict is gone is verified again.
reopenSliceVerificationForMissingVerdict ==
    /\ \E now \in Heads : MilestoneTurn(now) /\ \E k \in findMilestoneReadyForVerification(now) :
         /\ MissingVerdicts(now, k) # {}
         /\ mem' = reconcileMilestoneStatuses(
              [now EXCEPT
                 !.runtime = [s \in Slices |->
                    IF s \in MissingVerdicts(now, k) THEN "ready-for-verification" ELSE @[s]],
                 !.verification = [s \in Slices |->
                    IF s \in MissingVerdicts(now, k) THEN "none" ELSE @[s]],
                 !.milestone[k] = "none"])
    /\ disk' = mem'
    /\ UNCHANGED <<plan, committed, pc, cur, status, control, history>>

MilestoneVerificationStarts ==
    /\ \E now \in Heads : MilestoneTurn(now) /\ \E k \in findMilestoneReadyForVerification(now) :
         /\ MissingVerdicts(now, k) = {}
         /\ IF MayVerify(now, MilestoneKey(k), MilestoneBundle(k))
            THEN Verify(k, "verify milestone", [now EXCEPT !.milestone[k] = "verifying"])
            ELSE Return("failed", [now EXCEPT !.milestone[k] = "blocked"])
    /\ UNCHANGED <<plan, committed, stops, history>>

MilestonePasses ==
    /\ pc = "verify milestone"
    /\ LET m == [mem EXCEPT !.milestone[cur] = "passed"] IN Continue(m, m)
    /\ covered' = [covered EXCEPT ![MilestoneKey(cur)] = MilestoneBundle(cur)]
    /\ UNCHANGED <<plan, committed, control, torn>>

\* Each repair goes to a slice of the milestone, behind a task the milestone had
\* or, when it names none, behind the last task of the slice, which may be an
\* earlier repair of the same verdict.
MilestoneTargets(k, n) ==
    LET last == Len(plan)
        new == (last + 1)..(last + n)
    IN  {tasks \in [1..n -> SlicesOf(k) \X (TasksIn(plan, k) \cup new)] :
           \A i \in 1..n : tasks[i][2] \in new =>
              /\ tasks[i][2] < last + i
              /\ \A j \in 1..(i - 1) : tasks[j][1] = tasks[i][1] => last + j <= tasks[i][2]
              /\ tasks[tasks[i][2] - last][1] = tasks[i][1]}

MilestoneNeedsRepair ==
    /\ pc = "verify milestone" /\ MayRepair(mem, MilestoneKey(cur))
    /\ \E n \in 1..MaxRepairTasks : \E tasks \in MilestoneTargets(cur, n) :
         Repair([withGeneration(mem, MilestoneKey(cur),
                                Generation(mem, MilestoneKey(cur)) + 1)
                   EXCEPT !.milestone[cur] = "none"], tasks)
    /\ UNCHANGED <<committed, control, history>>

MilestoneFails ==
    /\ pc = "verify milestone"
    /\ \/ Return("failed", [mem EXCEPT !.milestone[cur] = "blocked"])
       \/ Return("failed", mem)
    /\ UNCHANGED <<plan, committed, stops, history>>

MilestoneInconclusive ==
    /\ pc = "verify milestone"
    /\ LET n == Attempt(mem, MilestoneKey(cur))
           last == Greatest(TasksIn(plan, cur))
       IN IF n >= MaxAttempts
          THEN /\ Return("failed", [mem EXCEPT !.milestone[cur] = "inconclusive"])
               /\ UNCHANGED plan
          ELSE /\ Repair([WithAttempt(mem, MilestoneKey(cur), n, MilestoneBundle(cur))
                            EXCEPT !.milestone[cur] = "none"], <<<<plan[last].slice, last>>>>)
               /\ UNCHANGED pausing
    /\ UNCHANGED <<committed, stops, history>>
----------------------------------------------------------------------------
(* Stops and resumes.                                                      *)

PauseRequest ==
    /\ status = "running" /\ ~pausing /\ stops < MaxStops
    /\ pausing' = TRUE /\ stops' = stops + 1
    /\ UNCHANGED <<plan, mem, disk, committed, pc, cur, status, history>>

\* The process ends; the rows stay as last saved, a pending pause among them:
\* the next loop meets it at the head of its first iteration.
Crash ==
    /\ status = "running" /\ pc # "down" /\ stops < MaxStops
    /\ pc' = "down" /\ cur' = 0 /\ mem' = Bare(disk)
    /\ stops' = stops + 1
    /\ torn' = torn \cup (IF pc \in {"save", "save paused"} THEN {"crash"} ELSE {})
    /\ UNCHANGED <<plan, disk, committed, status, pausing, covered>>

\* The user starts a job over: every task of the plan is queued again, the gates
\* are reset, the ledger keeps its completed attempts.  While another job of the
\* user occupies the slot the job is only queued, its progress left as it was.
restartJob ==
    /\ pc = "stopped" /\ status # "completed" /\ stops < MaxStops
    /\ \/ /\ mem' = Fresh(plan) /\ disk' = Fresh(plan)
          /\ torn' = torn \cup (IF committed # {} THEN {"restart"} ELSE {})
       \/ /\ torn' = torn \cup {"requeue"}
          /\ UNCHANGED <<mem, disk>>
    /\ stops' = stops + 1 /\ pc' = "down" /\ status' = "running"
    /\ UNCHANGED <<plan, committed, cur, pausing, covered>>

resetInterruptedGateVerification(m) ==
    [m EXCEPT
       !.runtime = [s \in Slices |->
          IF @[s] = "verifying" THEN "ready-for-verification" ELSE @[s]],
       !.milestone = [k \in Milestones |->
          IF @[k] = "verifying" THEN "ready-for-verification" ELSE @[k]]]

resetInterruptedRunningTasks(m) ==
    [m EXCEPT !.items = [t \in DOMAIN @ |->
       IF @[t].status = "running" THEN [@[t] EXCEPT !.status = "queued"] ELSE @[t]]]

\* The loop starts from the saved progress.  The running tasks are looked at
\* only when no verification was interrupted.
initializeExecutionState ==
    /\ pc = "down" \/ (pc = "stopped" /\ status = "paused")
    /\ LET verified == resetInterruptedGateVerification(disk)
           reset == IF verified # disk THEN verified ELSE resetInterruptedRunningTasks(disk)
           m == IF reset # disk THEN Reconcile(plan, reset) ELSE disk
       IN mem' = m /\ disk' = m
    /\ pc' = "loop" /\ cur' = 0 /\ status' = "running"
    /\ UNCHANGED <<plan, committed, control, history>>

LoopStep ==
    \/ finalizeExecutionPause \/ handleWorkflowCompletion
    \/ NoTaskReady \/ AlreadyCompleted \/ TaskStarts \/ SaveCompleted
    \/ SliceVerificationStarts \/ MilestoneVerificationStarts
    \/ reopenSliceVerificationForMissingVerdict
TaskOutcome ==
    \/ TaskCompletes \/ TaskRetries \/ (\E kind \in {"prep", "repair"} : TaskInjects(kind))
    \/ TaskFails \/ TaskFailsPausing \/ TaskPaused \/ TaskNeedsPerson
Verdict ==
    \/ SlicePasses \/ SliceNeedsRepair \/ SliceFails \/ SliceInconclusive
    \/ MilestonePasses \/ MilestoneNeedsRepair \/ MilestoneFails \/ MilestoneInconclusive
    \/ VerifierMisses

Next == LoopStep \/ TaskOutcome \/ Verdict \/ PauseRequest \/ Crash \/ restartJob
        \/ initializeExecutionState

Spec == Init /\ [][Next]_vars

\* A turn ends: the progress guard and the wait for evidence bound it.  An
\* interrupted job is resumed at start-up; a paused one only if the user asks.
Work == LoopStep \/ TaskOutcome \/ Verdict \/ (pc = "down" /\ initializeExecutionState)
FairSpec == Spec /\ WF_vars(Work)
----------------------------------------------------------------------------
Gates == {"none", "ready-for-verification", "verifying"}

Progress(m) ==
    /\ m.items \in Seq([status : {"queued", "running", "completed", "failed"},
                         evidence : BOOLEAN])
    /\ Len(m.items) = Len(plan)
    /\ m.runtime \in [Slices -> Gates \cup {"running", "progress-ok", "verification-blocked"}]
    /\ m.verification \in [Slices -> {"none", "passed", "blocked", "inconclusive"}]
    /\ m.milestone \in [Milestones -> Gates \cup {"passed", "blocked", "inconclusive"}]
    /\ m.verdict \in [Slices -> {"none", "passed", "blocked", "inconclusive"}]
    /\ \A k \in DOMAIN m.generations :
         m.generations[k] \in 1..(IF k = PausingKey THEN MaxPausing ELSE MaxGeneration)
    /\ \A k \in DOMAIN m.attempts : m.attempts[k].count \in 1..(MaxAttempts - 1)

\* Plan, progress in memory and on disk, and control state have their types;
\* in particular the repair and retry counters (recovery-limits.ts) never pass
\* their limits, and the saved items match the saved plan.
TypeOK ==
    /\ \A t \in DOMAIN plan :
         /\ plan[t].slice \in Slices /\ plan[t].parallel \in BOOLEAN
         /\ ToSet(plan[t].deps) \subseteq DOMAIN plan
    /\ Progress(mem) /\ Progress(disk)
    /\ committed \subseteq DOMAIN plan
    /\ pc \in {"loop", "task", "save", "save paused", "verify slice", "verify milestone",
               "stopped", "down"}
    /\ cur \in 0..MaxTasks
    /\ status \in {"running", "paused", "paused for a person", "completed", "failed",
                   "workflow.failed_block", "workflow.deadlock"}
    /\ pausing \in BOOLEAN /\ torn \subseteq {"crash", "restart", "requeue"} /\ stops \in 0..MaxStops
    /\ covered \in [DOMAIN covered -> 0..MaxTasks]

\* A slice that counts as progress-ok, or a milestone that counts as passed,
\* in memory or after a restart, was verified with every task the plan has for
\* it now, all completed with accepted evidence: no repair task, retry or
\* restart slips work past the verifier (isWorkflowComplete reads nothing else).
PassedCoversAll ==
    \A m \in {mem, disk} :
        /\ \A s \in Slices : m.runtime[s] = "progress-ok" =>
              /\ covered[SliceKey(s)] = SliceBundle(s)
              /\ \A t \in TasksOf(plan, s) : Done(m, t)
        /\ \A k \in Milestones : m.milestone[k] = "passed" =>
              /\ covered[MilestoneKey(k)] = MilestoneBundle(k)
              /\ \A s \in SlicesOf(k) : m.runtime[s] = "progress-ok"

\* The tasks with a chain of dependencies to the target, the reference for
\* hasEffectiveDependencyPath.
ReachesTarget(p, target) ==
    LET reach[n \in 0..Len(p)] ==
          IF n = 0 THEN {target}
          ELSE reach[n - 1] \cup
               {t \in DOMAIN p : \E u \in reach[n - 1] :
                    u \in ToSet(effectiveTaskDependencyIds(p, t, target))}
    IN  reach[Len(p)]

\* A task runs only after the slices and tasks it depends on, and a task of the
\* implicit order only after every earlier task of its slice, except those that
\* wait for it themselves (findNextReadyTask and its search for reverse paths).
OrderKept ==
    pc = "task" =>
        /\ \A s \in SliceDeps[plan[cur].slice] : mem.runtime[s] = "progress-ok"
        /\ \A u \in ToSet(plan[cur].deps) : Done(mem, u)
        /\ Implicit(plan, cur) =>
             \A u \in ToSet(Earlier(plan, cur)) : Done(mem, u) \/ u \in ReachesTarget(plan, cur)

\* The number of tasks injected in front of task t.
Injected(t) ==
    Len(plan[t].deps) - (IF t <= Len(InitialPlan) THEN Len(InitialPlan[t].deps) ELSE 0)

\* Injected tasks do not lock the workflow: as long as no crash and no restart set
\* progress and ledger apart and no task was blocked twice, some task or
\* verification can go on until the job settles (findNextReadyTask).
NoFalseDeadlock ==
    status = "workflow.deadlock" => torn # {} \/ \E t \in DOMAIN plan : Injected(t) > 1

\* No reverse path is overlooked: the workflow of a loop that was never
\* interrupted does not lock.
NoDeadlock == status # "workflow.deadlock"

\* A job started over runs its plan again: a restart that clears the progress of
\* completed tasks does not end in a workflow without a ready task (restartJob).
RestartStartsOver == torn = {"restart"} => status # "workflow.deadlock"

\* The loop of a running job settles or makes its plan longer: with a plan of any
\* given length, whatever tasks and verifiers report, it completes, fails, is
\* paused or injects a task (runExecutionLoop, its retry limits).  The code does
\* not limit the number of injected tasks, so it need not settle for good.
LoopSettlesOrGrows ==
    \A n \in Len(InitialPlan)..MaxTasks : []<>(status # "running" \/ Len(plan) # n)
=============================================================================
