---------------------------- MODULE TaskAttempts ----------------------------
(***************************************************************************)
(* The ledger of task attempts of one job (legacy-control-plane/task-      *)
(* attempts.ts) and the execution loops that write it.                     *)
(*                                                                         *)
(* A row of the ledger holds the stable idempotency key of its task, or a  *)
(* suffixed key once it was superseded or its replay was authorized.  The  *)
(* plan revision is fixed, so a task has one stable key.  Every loop has   *)
(* its run; at most one run is live (JobExecution, OneSlot), but the loop  *)
(* of an older run may still be on its way out.                            *)
(***************************************************************************)
EXTENDS Naturals, Sequences

CONSTANTS
    Tasks,
    MaxRuns,      \* bound on the runs of the job
    MaxAttempts   \* bound on the rows of a task

NoRun == 0
Runs == 1..MaxRuns

ASSUME TaskAttemptsAssumption == MaxRuns \in Nat /\ MaxAttempts \in Nat

VARIABLES
    rows,      \* rows[t]: job_task_attempts of t, by attempt_no
    item,      \* item[t]: status of t in the persisted progress
    job,       \* status of the job row
    live,      \* the run that holds the slot, NoRun without one
    lastRun,   \* the last run id handed out
    loop,      \* loop[r]: where the loop of run r is
    exposed    \* exposed[t]: run that called the provider for t since the user last
               \* authorized a replay

vars == <<rows, item, job, live, lastRun, loop, exposed>>

Row(s, k, r) == [status |-> s, key |-> k, run |-> r]
Off == [at |-> "off"]
Top == [at |-> "top"]
In(a, t, n, fresh) == [at |-> a, task |-> t, no |-> n, fresh |-> fresh]

Init ==
    /\ rows = [t \in Tasks |-> <<>>]
    /\ item = [t \in Tasks |-> "queued"]
    /\ job = "running" /\ live = 1 /\ lastRun = 1
    /\ loop = [r \in Runs |-> IF r = 1 THEN Top ELSE Off]
    /\ exposed = [t \in Tasks |-> NoRun]

-----------------------------------------------------------------------------
(* The ledger. *)

hasCompletedAttempt(t) == \E i \in DOMAIN rows[t] : rows[t][i].status = "completed"

\* A row that holds the stable key after its provider was called.
IsUncertain(row) == row.key = "stable" /\ row.status \in {"running", "interrupted", "failed"}

Uncertain(t) == {i \in DOMAIN rows[t] : IsUncertain(rows[t][i])}

\* jobHasUncertainReplayFence
jobHasUncertainReplayFence == \E t \in Tasks : Uncertain(t) # {}

\* A live attempt of the same run may go on.
Resumable(t, r) == \E i \in Uncertain(t) : rows[t][i].status = "running" /\ rows[t][i].run = r

Map(s, F(_)) == [i \in DOMAIN s |-> F(s[i])]

\* A row that never reached its provider gives its key up.
Superseded(row) ==
    IF row.status = "starting" THEN [row EXCEPT !.status = "interrupted", !.key = "freed"] ELSE row

\* Seeded fault: the new row is lost.
Opened_Lost(t, r) == Map(rows[t], Superseded)

\* Seeded fault: the key of a superseded row is kept.
Opened_KeepsKeys(t, r) == Append(rows[t], Row("starting", "stable", r))

\* beginTaskAttempt, the branch that opens a new attempt.
Opened(t, r) == Append(Map(rows[t], Superseded), Row("starting", "stable", r))

\* Seeded fault: an attempt of unknown outcome gives its key up as well.
InterruptedRow_FreesAll(row) ==
    IF row.status \in {"starting", "running"}
      THEN [row EXCEPT !.status = "interrupted", !.key = "freed"]
      ELSE row

\* interruptAttempts: an attempt that may have reached its provider keeps the key.
InterruptedRow(row) ==
    CASE row.status = "starting" -> [row EXCEPT !.status = "interrupted", !.key = "freed"]
      [] row.status = "running"  -> [row EXCEPT !.status = "interrupted"]
      [] OTHER -> row

\* markRunningAttemptsInterruptedForJob, markAllRunningAttemptsInterrupted
Interrupted == [t \in Tasks |-> Map(rows[t], InterruptedRow)]

\* authorizeUncertainTaskAttemptReplayForJob
AuthorizedRow(row) ==
    IF IsUncertain(row) THEN [row EXCEPT !.status = "interrupted", !.key = "freed"] ELSE row

Authorized == [t \in Tasks |-> Map(rows[t], AuthorizedRow)]

\* The row (t, n) in one of the statuses S.
Holds(t, n, S) == rows[t][n].status \in S

SetRow(t, n, s) == rows' = [rows EXCEPT ![t][n].status = s]

-----------------------------------------------------------------------------
(* processNextTaskStep of the loop of run r. *)

Move(r, where) == loop' = [loop EXCEPT ![r] = where]

\* A write of the job row and the progress; a stale run's is ignored.
Persist(r, status, items) ==
    /\ job' = IF live = r THEN status ELSE job
    /\ item' = IF live = r THEN items ELSE item

Ended(r) == Move(r, Off) /\ live' = IF live = r THEN NoRun ELSE live

\* The error path of scheduleJobExecution: the job fails, the run ends.
Throws(r) == Persist(r, "failed", item) /\ Ended(r)

\* A stale loop works on the items it holds in memory.
Ready(r, t) == item[t] # "completed" \/ live # r

SkipsCompleted(r, t) ==
    /\ loop[r].at = "top" /\ Ready(r, t) /\ hasCompletedAttempt(t)
    /\ Persist(r, job, [item EXCEPT ![t] = "completed"])
    /\ UNCHANGED <<rows, live, lastRun, loop, exposed>>

Blocked(r, t) == Uncertain(t) # {} /\ ~Resumable(t, r)

BlockedUncertain(r, t) ==
    /\ loop[r].at = "top" /\ Ready(r, t) /\ ~hasCompletedAttempt(t) /\ Blocked(r, t)
    /\ Throws(r)
    /\ UNCHANGED <<rows, lastRun, exposed>>

BeginsAttempt(r, t) ==
    /\ loop[r].at = "top" /\ Ready(r, t) /\ ~hasCompletedAttempt(t) /\ ~Blocked(r, t)
    /\ IF Uncertain(t) # {}
         THEN \E i \in Uncertain(t) : Move(r, In("begun", t, i, FALSE)) /\ UNCHANGED rows
         ELSE /\ Len(rows[t]) < MaxAttempts
              /\ rows' = [rows EXCEPT ![t] = Opened(t, r)]
              /\ Move(r, In("begun", t, Len(rows[t]) + 1, TRUE))
    /\ UNCHANGED <<item, job, live, lastRun, exposed>>

\* markTaskAttemptProviderStarted, after the progress was written; then the provider
\* is called, unless the run was aborted.
CallsProvider(r) ==
    LET t == loop[r].task  n == loop[r].no IN
    /\ loop[r].at = "begun"
    /\ IF loop[r].fresh /\ ~Holds(t, n, {"starting"})
         THEN Throws(r) /\ UNCHANGED <<rows, exposed>>
         ELSE /\ IF loop[r].fresh THEN SetRow(t, n, "running") ELSE UNCHANGED rows
              /\ Move(r, In("turn", t, n, FALSE))
              /\ exposed' = IF live = r THEN [exposed EXCEPT ![t] = r] ELSE exposed
              /\ UNCHANGED <<item, job, live>>
    /\ UNCHANGED lastRun

\* Seeded fault: an attempt that was interrupted meanwhile is committed as well.
Completes_AnyStatus(r) ==
    LET t == loop[r].task  n == loop[r].no IN
    /\ loop[r].at = "turn"
    /\ SetRow(t, n, "completed")
    /\ item' = [item EXCEPT ![t] = "completed"]
    /\ Move(r, Top)
    /\ UNCHANGED <<job, live, lastRun, exposed>>

\* Seeded fault: a failed commit of the attempt is swallowed.
Completes_Swallowed(r) ==
    LET t == loop[r].task  n == loop[r].no IN
    /\ loop[r].at = "turn"
    /\ IF Holds(t, n, {"running"}) THEN SetRow(t, n, "completed") ELSE UNCHANGED rows
    /\ item' = [item EXCEPT ![t] = "completed"]
    /\ Move(r, Top)
    /\ UNCHANGED <<job, live, lastRun, exposed>>

\* The task is reported completed: commitCompletedTaskAttempt stamps the attempt and
\* the task in one transaction, or throws.
Completes(r) ==
    LET t == loop[r].task  n == loop[r].no IN
    /\ loop[r].at = "turn"
    /\ IF Holds(t, n, {"running"})
         THEN /\ SetRow(t, n, "completed")
              /\ item' = [item EXCEPT ![t] = "completed"]
              /\ Move(r, Top)
              /\ UNCHANGED <<job, live>>
         ELSE Throws(r) /\ UNCHANGED rows
    /\ UNCHANGED <<lastRun, exposed>>

\* The turn failed for good, or was paused or cancelled: markTaskAttemptFailed, or a
\* throw.
Fails(r) ==
    LET t == loop[r].task  n == loop[r].no IN
    /\ loop[r].at = "turn"
    /\ IF Holds(t, n, {"starting", "running"})
         THEN /\ SetRow(t, n, "failed")
              /\ \/ Persist(r, "failed", [item EXCEPT ![t] = "failed"])
                 \/ Persist(r, "paused", item)
              /\ Ended(r)
         ELSE Throws(r) /\ UNCHANGED rows
    /\ UNCHANGED <<lastRun, exposed>>

\* The turn failed while the user waits for a pause: the job is paused at the head of the
\* loop, or fails after MAX_PAUSING_TURN_ATTEMPTS.  The attempt is left as it is.
PausingFails(r) ==
    /\ loop[r].at = "turn"
    /\ \E s \in {"paused", "failed"} : Persist(r, s, [item EXCEPT ![loop[r].task] = "failed"])
    /\ Ended(r)
    /\ UNCHANGED <<rows, lastRun, exposed>>

\* A recoverable failure: the attempt stays running and the loop goes on.
Recovers(r) ==
    /\ loop[r].at = "turn"
    /\ Move(r, Top)
    /\ UNCHANGED <<rows, item, job, live, lastRun, exposed>>

\* The lease was lost: the loop leaves with the job still running.
LosesLease(r) ==
    /\ loop[r].at = "turn"
    /\ Ended(r)
    /\ UNCHANGED <<rows, item, job, lastRun, exposed>>

\* handleWorkflowCompletion
Concludes(r) ==
    /\ loop[r].at = "top" /\ live = r /\ \A t \in Tasks : item[t] = "completed"
    /\ Persist(r, "completed", item)
    /\ Ended(r)
    /\ UNCHANGED <<rows, lastRun, exposed>>

\* The control state is checked at the head of the loop: a cancelled loop returns, a
\* paused one persists the pause, which a stale run's fence ignores.
Leaves(r) ==
    /\ loop[r].at = "top"
    /\ \/ live # r /\ UNCHANGED <<item, job>>
       \/ Persist(r, "paused", item)
    /\ Ended(r)
    /\ UNCHANGED <<rows, lastRun, exposed>>

-----------------------------------------------------------------------------
(* The user, the reconciler, crashes. *)

\* A new run of the job starts a loop.
NewRun ==
    /\ live = NoRun /\ lastRun < MaxRuns
    /\ lastRun' = lastRun + 1 /\ live' = lastRun + 1
    /\ loop' = [loop EXCEPT ![lastRun + 1] = Top]
    /\ job' = "running"

\* cancelJob stops the run; its loop is left to find out.
Cancel ==
    /\ job = "running"
    /\ job' = "cancelled" /\ live' = NoRun
    /\ UNCHANGED <<rows, item, lastRun, loop, exposed>>

\* reconcileStaleJobIfNeeded: the run's lease expired; it was stopped.
Reconcile ==
    /\ job = "running" /\ live # NoRun
    /\ rows' = Interrupted /\ live' = NoRun
    /\ UNCHANGED <<item, job, lastRun, loop, exposed>>

\* resumeInterruptedRunningJob: not over an attempt of unknown outcome.
AutoResume ==
    /\ job = "running" /\ live = NoRun
    /\ IF jobHasUncertainReplayFence
         THEN job' = "paused" /\ UNCHANGED <<live, lastRun, loop>>
         ELSE NewRun
    /\ UNCHANGED <<rows, item, exposed>>

\* The user continues a paused or failed job: the replay is authorized.
Continue ==
    /\ job \in {"paused", "failed"} /\ NewRun
    /\ rows' = Authorized
    /\ item' = [t \in Tasks |-> IF item[t] = "failed" THEN "queued" ELSE item[t]]
    /\ exposed' = [t \in Tasks |-> NoRun]

\* restartJob: every task is queued again; nothing is authorized.
Restart ==
    /\ job \in {"paused", "failed", "cancelled"} /\ NewRun
    /\ item' = [t \in Tasks |-> "queued"]
    /\ UNCHANGED <<rows, exposed>>

\* A crash, and the start-up step that interrupts the attempts of the dead process.
CrashAndStartup ==
    /\ \E r \in Runs : loop[r].at # "off"
    /\ rows' = Interrupted /\ live' = NoRun
    /\ loop' = [r \in Runs |-> Off]
    /\ UNCHANGED <<item, job, lastRun, exposed>>

LoopNext(r) ==
    \/ \E t \in Tasks : SkipsCompleted(r, t) \/ BlockedUncertain(r, t) \/ BeginsAttempt(r, t)
    \/ CallsProvider(r) \/ Completes(r) \/ Fails(r) \/ PausingFails(r) \/ Recovers(r)
    \/ LosesLease(r) \/ Concludes(r) \/ Leaves(r)

Next ==
    \/ \E r \in Runs : LoopNext(r)
    \/ Cancel \/ Reconcile \/ AutoResume \/ Continue \/ Restart \/ CrashAndStartup

Spec == Init /\ [][Next]_vars

-----------------------------------------------------------------------------
Statuses == {"starting", "running", "completed", "interrupted", "failed"}
Attempt == [status : Statuses, key : {"stable", "freed"}, run : Runs]
Place == [at : {"begun", "turn"}, task : Tasks, no : Nat, fresh : BOOLEAN]

\* Types of the ledger rows, the progress and the loops; a loop in a turn works on a row
\* that exists.
TypeOK ==
    /\ rows \in [Tasks -> Seq(Attempt)]
    /\ item \in [Tasks -> {"queued", "completed", "failed"}]
    /\ job \in {"running", "paused", "failed", "cancelled", "completed"}
    /\ live \in {NoRun, lastRun} /\ lastRun \in Runs
    /\ loop \in [Runs -> {Off, Top} \cup Place]
    /\ \A r \in Runs : loop[r].at \in {"begun", "turn"} => loop[r].no \in DOMAIN rows[loop[r].task]
    /\ exposed \in [Tasks -> Runs \cup {NoRun}]

\* UNIQUE(idempotency_key) is never violated: at most one attempt of a task holds the
\* stable key, through retries, interruptions and authorized replays.
OneStableKey ==
    \A t \in Tasks : \A i, k \in DOMAIN rows[t] :
        rows[t][i].key = "stable" /\ rows[t][k].key = "stable" => i = k

\* No provider is called for a task that another run may already have handed to a
\* provider, unless the user authorized the replay in between: crashes, reconciliation,
\* restarts and late loops included.
NoBlindReplay ==
    [][\A t \in Tasks : exposed'[t] \in {exposed[t], NoRun} \/ exposed[t] = NoRun]_vars

\* "A completed task is never re-run": no live run is in a turn for it, not even after
\* a restart that queues every task again.
CompletedNeverRerun ==
    \A r \in Runs : loop[r].at = "turn" /\ live = r => ~hasCompletedAttempt(loop[r].task)

\* The progress shows a task as completed only with a completed attempt in the ledger,
\* and so does a completed job for every task.
CompletionIsDurable ==
    /\ \A t \in Tasks : item[t] = "completed" => hasCompletedAttempt(t)
    /\ job = "completed" => \A t \in Tasks : hasCompletedAttempt(t)

\* "Called by user-driven resume/continue, and by auto-resume after process death once the
\* old runtime/slot is confirmed closed" (authorizeUncertainTaskAttemptReplayForJob): a job
\* that is taken up again without a run has no attempt left that blocks its replay.
AutoResumeAuthorizes == [][AutoResume => ~jobHasUncertainReplayFence']_vars

=============================================================================
