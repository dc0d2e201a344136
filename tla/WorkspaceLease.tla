--------------------------- MODULE WorkspaceLease ---------------------------
(***************************************************************************)
(* The leases on workspace directories (legacy-control-plane/workspace-    *)
(* lease-store.ts) and their users: chat turns with write access, and the  *)
(* queue, the loops and the task turns of jobs.                            *)
(*                                                                         *)
(* An owner (a chat turn or a job) has at most one active row.  A row that *)
(* has expired is treated as released, as cleanStaleWorkspaceLeasesTx does *)
(* before every decision.  Time is kept as what is left of a lease and as  *)
(* what has passed since a heartbeat.                                      *)
(***************************************************************************)
EXTENDS Naturals, SequencesExt

CONSTANTS
    Chats,      \* chat turns
    Jobs,
    Runs,       \* workload runs
    NoRun,      \* null
    Path,       \* the directory of every chat turn and job, as a sequence of names
    TTL,        \* lease time to live
    Interval,   \* KEEPALIVE_INTERVAL_MS
    Cancels,    \* TRUE: the user may cancel a running job
    Sleeps      \* TRUE: the machine may be suspended

Owners == Chats \cup Jobs
Writers == Chats \cup Runs

ASSUME WorkspaceLeaseAssumption ==
    /\ Chats \cap (Jobs \cup Runs) = {} /\ NoRun \notin Runs
    /\ \A o \in Owners : \A i \in 1..Len(Path[o]) : Path[o][i] \in STRING
    /\ Interval \in Nat \ {0} /\ TTL \in Nat /\ Interval < TTL
    /\ {Cancels, Sleeps} \subseteq BOOLEAN

VARIABLES
    left,     \* left[o]: seconds until the lease of o expires, 0 when it has none
    holder,   \* holder[o]: run_id of the row
    since,    \* since[w]: seconds since the last heartbeat of w
    writing,  \* writers whose provider process is alive with write access, or still ending
    lost,     \* writers that hold the id of a row that is gone
    chat,     \* chat[c]: where a chat turn is
    status,   \* status[j]
    loops,    \* jobs with a registered loop
    picked,   \* pending jobs a queue pass has chosen
    slot,     \* the run that holds the execution slot
    pc,       \* pc[r]: where the loop of run r is
    job,      \* job[r]
    seen      \* history: suspensions and cancellations that have happened

leaseVars  == <<left, holder, lost>>
writerVars == <<since, writing>>
loopVars   == <<status, loops, slot, pc, job>>
jobVars    == <<loopVars, picked>>
vars == <<leaseVars, writerVars, chat, loopVars, picked, seen>>

AnyJob == CHOOSE j \in Jobs : TRUE
OwnerOf(w) == IF w \in Runs THEN job[w] ELSE w

Init ==
    /\ left = [o \in Owners |-> 0] /\ holder = [o \in Owners |-> NoRun] /\ lost = {}
    /\ since = [w \in Writers |-> 0] /\ writing = {}
    /\ chat = [c \in Chats |-> "new"]
    /\ status = [j \in Jobs |-> "pending"] /\ loops = {} /\ picked = {} /\ slot = NoRun
    /\ pc = [r \in Runs |-> "none"] /\ job = [r \in Runs |-> AnyJob]
    /\ seen = {}

-----------------------------------------------------------------------------
(* The store. *)

\* Seeded fault: only equal paths conflict.
workspacePathsConflict_Equal(p, q) == p = q

\* Same path, parent directory or child directory.
workspacePathsConflict(p, q) == IsPrefix(p, q) \/ IsPrefix(q, p)

\* findConflictingOccupant, without the owner itself.
Free(o) == \A q \in Owners \ {o} : left[q] > 0 => ~workspacePathsConflict(Path[o], Path[q])

\* acquireWorkspaceLease: the owner's row is renewed, or inserted with a new id.
Acquire(o, r) ==
    /\ Free(o)
    /\ left' = [left EXCEPT ![o] = TTL]
    /\ holder' = [holder EXCEPT ![o] = r]
    /\ lost' = IF left[o] > 0 THEN lost ELSE lost \cup {w \in writing : OwnerOf(w) = o}

\* releaseWorkspaceLease by id, or for an owner.
Drop(o) ==
    /\ left' = [left EXCEPT ![o] = 0]
    /\ lost' = lost \cup {w \in writing : OwnerOf(w) = o}
    /\ UNCHANGED holder

\* Seeded fault: the expected run is not compared.
DropFor_Unfenced(o, r) == Drop(o)

\* releaseWorkspaceLeaseForOwner with the run it was acquired for.
DropFor(o, r) == IF holder[o] = r THEN Drop(o) ELSE UNCHANGED leaseVars

\* refreshWorkspaceLease: the row by its id, if it has not expired.
Refreshable(w) == left[OwnerOf(w)] > 0 /\ w \notin lost

\* A provider process that may write starts or ends, and with it the use of the row's id.
Starts(w) == writing' = writing \cup {w} /\ since' = [since EXCEPT ![w] = 0]
Ends(w) ==
    /\ writing' = writing \ {w} /\ since' = [since EXCEPT ![w] = 0]
    /\ lost' = lost \ {w} /\ UNCHANGED <<left, holder>>

-----------------------------------------------------------------------------
(* Heartbeats and time. *)

\* TurnScope in a chat turn, and withSandboxLeaseRefresh in a task turn, keep a timer
\* while the turn lasts; an abort clears it.
Beating(w) == /\ w \in writing
              /\ w \in Chats => chat[w] = "writing"
              /\ w \in Runs => pc[w] = "turn"

\* Seeded fault: a failed refresh is ignored.
BeatFails_Ignored(w) ==
    /\ Beating(w) /\ since[w] = Interval /\ ~Refreshable(w)
    /\ since' = [since EXCEPT ![w] = 0]
    /\ UNCHANGED <<seen, leaseVars, writing, chat, jobVars>>

\* The refresh fails: the turn is aborted, and its process is told to end.
BeatFails(w) ==
    /\ Beating(w) /\ since[w] = Interval /\ ~Refreshable(w)
    /\ since' = [since EXCEPT ![w] = 0]
    /\ chat' = IF w \in Chats THEN [chat EXCEPT ![w] = "ended"] ELSE chat
    /\ pc' = IF w \in Runs THEN [pc EXCEPT ![w] = "close"] ELSE pc
    /\ UNCHANGED <<seen, leaseVars, writing, status, loops, slot, job, picked>>

\* The process of an aborted turn ends when it has drained or its watchdog fires; no step
\* of a turn or loop waits for it.
ProviderEnds(w) ==
    /\ w \in writing /\ ~Beating(w)
    /\ Ends(w)
    /\ UNCHANGED <<seen, chat, jobVars>>

\* Seeded fault: the lease is extended from its old end instead of from now.
Beats_FromOldEnd(w) ==
    /\ Beating(w) /\ since[w] = Interval /\ Refreshable(w)
    /\ left' = [left EXCEPT ![OwnerOf(w)] = @ + TTL]
    /\ since' = [since EXCEPT ![w] = 0]
    /\ UNCHANGED <<seen, holder, lost, writing, chat, jobVars>>

Beats(w) ==
    /\ Beating(w) /\ since[w] = Interval /\ Refreshable(w)
    /\ left' = [left EXCEPT ![OwnerOf(w)] = TTL]
    /\ since' = [since EXCEPT ![w] = 0]
    /\ UNCHANGED <<seen, holder, lost, writing, chat, jobVars>>

\* Timers fire when they are due.  A chat turn starts its provider long before its
\* lease runs out: the lease lasts 90 minutes.
Tick ==
    /\ \A w \in Writers : Beating(w) => since[w] < Interval
    /\ \A c \in Chats : chat[c] = "leased" /\ left[c] > 0 => left[c] > Interval + 1
    /\ left' = [o \in Owners |-> IF left[o] > 0 THEN left[o] - 1 ELSE 0]
    /\ since' = [w \in Writers |-> IF Beating(w) THEN since[w] + 1 ELSE since[w]]
    /\ UNCHANGED <<seen, holder, lost, writing, chat, jobVars>>

\* The machine wakes up after every lease has expired, with every timer due.
Sleep ==
    /\ Sleeps /\ writing # {}
    /\ seen' = seen \cup {"sleep"}
    /\ left' = [o \in Owners |-> 0]
    /\ since' = [w \in Writers |-> IF Beating(w) THEN Interval ELSE since[w]]
    /\ UNCHANGED <<holder, lost, writing, chat, jobVars>>

-----------------------------------------------------------------------------
(* Chat turns: resolveChatAccess and releaseChatWorkspaceLease. *)

ChatAcquires(c) ==
    /\ chat[c] = "new" /\ Acquire(c, NoRun)
    /\ chat' = [chat EXCEPT ![c] = "leased"]
    /\ UNCHANGED <<seen, writerVars, jobVars>>

\* The directory is taken: the turn only reads.
ChatReads(c) ==
    /\ chat[c] = "new" /\ ~Free(c)
    /\ chat' = [chat EXCEPT ![c] = "done"]
    /\ UNCHANGED <<seen, leaseVars, writerVars, jobVars>>

\* isWorkspaceLeaseActive, then the provider is started; otherwise the turn fails.
ChatStarts(c) ==
    /\ chat[c] = "leased"
    /\ IF Refreshable(c) THEN Starts(c) /\ chat' = [chat EXCEPT ![c] = "writing"]
                         ELSE chat' = [chat EXCEPT ![c] = "ended"] /\ UNCHANGED writerVars
    /\ UNCHANGED <<seen, leaseVars, jobVars>>

\* The turn is over with its process, or the user aborts it.
ChatStops(c) ==
    /\ chat[c] = "writing"
    /\ Ends(c) \/ UNCHANGED <<leaseVars, writerVars>>
    /\ chat' = [chat EXCEPT ![c] = "ended"]
    /\ UNCHANGED <<seen, jobVars>>

ChatReleases(c) ==
    /\ chat[c] = "ended"
    /\ Drop(c)
    /\ chat' = [chat EXCEPT ![c] = "done"]
    /\ UNCHANGED <<seen, writerVars, jobVars>>

-----------------------------------------------------------------------------
(* Jobs. *)

\* A loop of job j with the execution slot begins, under a new run id.
Begins(r, j) ==
    /\ pc[r] = "none" /\ r \notin writing /\ slot = NoRun
    /\ slot' = r /\ pc' = [pc EXCEPT ![r] = "start"] /\ job' = [job EXCEPT ![r] = j]
    /\ status' = [status EXCEPT ![j] = "running"] /\ loops' = loops \cup {j}

\* scheduleJobExecution without a slot: the job goes back to pending, the loop is
\* dropped, and markJobExecutionDone without a run releases the owner's lease.
Abandons(j) ==
    /\ slot # NoRun
    /\ Drop(j)
    /\ status' = [status EXCEPT ![j] = "pending"]
    /\ UNCHANGED <<loops, slot, pc, job>>

\* findNextPendingJob: no loop is registered and the slot is free.
PassPicks(j) ==
    /\ loops = {} /\ slot = NoRun /\ status[j] = "pending"
    /\ picked' = picked \cup {j}
    /\ UNCHANGED <<seen, leaseVars, writerVars, chat, loopVars>>

\* The slot was taken meanwhile: the lease is released by its id.
PassFails(j) == Free(j) /\ Drop(j) /\ UNCHANGED loopVars

\* startPendingExecutionJob: acquire the lease, then claim the slot.
PassStarts(j) ==
    /\ j \in picked /\ picked' = picked \ {j}
    /\ \/ /\ status[j] = "pending" /\ Acquire(j, NoRun)
          /\ \E r \in Runs : Begins(r, j)
       \/ /\ status[j] = "pending" /\ slot # NoRun
          /\ PassFails(j)
       \/ /\ status[j] # "pending" \/ ~Free(j)
          /\ UNCHANGED <<leaseVars, loopVars>>
    /\ UNCHANGED <<seen, writerVars, chat>>

\* resumeInterruptedRunningJob: acquire the lease and start a loop that claims a slot.
Resumes(j) ==
    /\ status[j] = "running" /\ loops = {} /\ Free(j)
    /\ \/ Acquire(j, NoRun) /\ \E r \in Runs : Begins(r, j)
       \/ Abandons(j)
    /\ UNCHANGED <<seen, writerVars, chat, picked>>

\* restartJob: a loop that claims a slot, or the queue while another job is busy.
Restarts(j) ==
    /\ status[j] \in {"ended", "cancelled"}
    /\ IF loops = {} /\ (slot = NoRun \/ job[slot] = j)
         THEN \/ UNCHANGED leaseVars /\ \E r \in Runs : Begins(r, j)
              \/ Abandons(j)
         ELSE /\ status' = [status EXCEPT ![j] = "pending"]
              /\ UNCHANGED <<leaseVars, slot, pc, job, loops>>
    /\ UNCHANGED <<seen, writerVars, chat, picked>>

\* The loop acquires the lease for its run; without it the slot is released and the
\* job goes back to pending.
LoopStarts(r) ==
    /\ pc[r] = "start"
    /\ \/ /\ Acquire(job[r], r)
          /\ pc' = [pc EXCEPT ![r] = "loop"]
          /\ UNCHANGED <<status, slot>>
       \/ /\ ~Free(job[r])
          /\ pc' = [pc EXCEPT ![r] = "close"] /\ slot' = NoRun
          /\ status' = [status EXCEPT ![job[r]] = "pending"]
          /\ UNCHANGED leaseVars
    /\ UNCHANGED <<seen, writerVars, chat, loops, job, picked>>

\* executeSingleTask acquires the lease again; without it the loop returns.
TurnStarts(r) ==
    /\ pc[r] = "loop" /\ status[job[r]] = "running"
    /\ \/ /\ Acquire(job[r], r) /\ Starts(r)
          /\ pc' = [pc EXCEPT ![r] = "turn"]
       \/ /\ ~Free(job[r])
          /\ pc' = [pc EXCEPT ![r] = "close"]
          /\ UNCHANGED <<leaseVars, writerVars>>
    /\ UNCHANGED <<seen, chat, status, loops, slot, job, picked>>

\* A turn that is not aborted ends when its worker is gone.
TurnEnds(r) ==
    /\ pc[r] = "turn"
    /\ Ends(r)
    /\ pc' = [pc EXCEPT ![r] = "loop"]
    /\ UNCHANGED <<seen, chat, status, loops, slot, job, picked>>

\* The job is over, unless it was cancelled or reverted.
LoopEnds(r) ==
    /\ pc[r] = "loop"
    /\ pc' = [pc EXCEPT ![r] = "close"]
    /\ status' = [status EXCEPT ![job[r]] = IF @ = "running" THEN "ended" ELSE @]
    /\ UNCHANGED <<seen, leaseVars, writerVars, chat, loops, slot, job, picked>>

\* markJobExecutionDone: the loop of the job is forgotten and the lease released for
\* this run; then the slot is released.
Done(r) ==
    /\ DropFor(job[r], r)
    /\ pc' = [pc EXCEPT ![r] = "none"]
    /\ loops' = loops \ {job[r]}
    /\ slot' = IF slot = r THEN NoRun ELSE slot

\* finishExecutionRunLifecycle: the runtime is closed and the loop forgotten.  The
\* files of a job that is over are cleaned up before it is marked done.
LoopFinalizes(r) ==
    /\ pc[r] = "close"
    /\ IF status[job[r]] \in {"ended", "cancelled"}
         THEN /\ pc' = [pc EXCEPT ![r] = "done"] /\ loops' = loops \ {job[r]}
              /\ UNCHANGED <<leaseVars, slot>>
         ELSE Done(r)
    /\ UNCHANGED <<seen, writerVars, chat, status, job, picked>>

LoopReleases(r) ==
    /\ pc[r] = "done"
    /\ Done(r)
    /\ UNCHANGED <<seen, writerVars, chat, status, job, picked>>

\* cancelJob: the row is cancelled, the loop forgotten and its run aborted.
Cancel(j) ==
    /\ Cancels /\ status[j] \in {"pending", "running"}
    /\ status' = [status EXCEPT ![j] = "cancelled"] /\ loops' = loops \ {j}
    /\ pc' = [r \in Runs |-> IF slot = r /\ job[r] = j /\ pc[r] \in {"start", "loop", "turn"}
                              THEN "stop" ELSE pc[r]]
    /\ seen' = seen \cup {"cancel"}
    /\ UNCHANGED <<leaseVars, writerVars, chat, slot, job, picked>>

\* stopExecutionRun for a cancelled run, or for one whose workload lease expired: the run
\* is aborted, its runtime handle closed and the slot released; the loop returns later.
\* The handle is of the Cursor session, not of the sandbox worker, which may still drain.
StopEnds(r) ==
    /\ pc[r] = "stop" \/ (slot = r /\ pc[r] \in {"loop", "turn"})
    /\ slot' = IF slot = r THEN NoRun ELSE slot
    /\ since' = [since EXCEPT ![r] = 0]
    /\ pc' = [pc EXCEPT ![r] = "close"]
    /\ UNCHANGED <<seen, leaseVars, writing, chat, status, loops, job, picked>>

-----------------------------------------------------------------------------
JobNext(j) == PassPicks(j) \/ PassStarts(j) \/ Resumes(j) \/ Restarts(j) \/ Cancel(j)

LoopNext(r) ==
    \/ LoopStarts(r) \/ TurnStarts(r) \/ TurnEnds(r) \/ LoopEnds(r)
    \/ LoopFinalizes(r) \/ LoopReleases(r) \/ StopEnds(r)

ChatNext(c) == ChatAcquires(c) \/ ChatReads(c) \/ ChatStarts(c) \/ ChatStops(c) \/ ChatReleases(c)

Next ==
    \/ \E j \in Jobs : JobNext(j)
    \/ \E r \in Runs : LoopNext(r)
    \/ \E c \in Chats : ChatNext(c)
    \/ \E w \in Writers : Beats(w) \/ BeatFails(w) \/ ProviderEnds(w)
    \/ Tick \/ Sleep

Spec == Init /\ [][Next]_vars

-----------------------------------------------------------------------------
\* Types of lease rows, timers, and of the places of chat turns and loops.
TypeOK ==
    /\ left \in [Owners -> 0..TTL] /\ holder \in [Owners -> Runs \cup {NoRun}]
    /\ lost \subseteq Writers
    /\ since \in [Writers -> 0..Interval] /\ writing \subseteq Writers
    /\ chat \in [Chats -> {"new", "leased", "writing", "ended", "done"}]
    /\ status \in [Jobs -> {"pending", "running", "ended", "cancelled"}]
    /\ loops \subseteq Jobs /\ picked \subseteq Jobs /\ slot \in Runs \cup {NoRun}
    /\ pc \in [Runs -> {"none", "start", "loop", "turn", "stop", "close", "done"}]
    /\ job \in [Runs -> Jobs] /\ seen \subseteq {"sleep", "cancel"}

\* Two live processes, one in the directory of the other or above it.
Overlap(v, w) ==
    LET p == Path[OwnerOf(v)]
        q == Path[OwnerOf(w)]
    IN  v \in writing /\ w \in writing /\ v # w /\ (IsPrefix(p, q) \/ IsPrefix(q, p))

\* Two turns with write access that were not aborted never work on overlapping directories,
\* although a lease expires by itself, only a periodic heartbeat ends a writer, and runs are
\* stopped and jobs restarted meanwhile.  Excepted are a suspended machine, whose timers do
\* not fire, and a cancelled job, whose old loop may unwind under a new run (RunKeepsLease).
WritersExclusive ==
    seen = {} => \A v, w \in Writers : Beating(v) /\ Beating(w) => ~Overlap(v, w)

\* The lease of a job lasts as long as a provider process of the run that holds the slot:
\* neither another loop of the job nor the queue releases it.
RunKeepsLease == \A r \in Runs \cap writing : slot = r => left[job[r]] > 0

\* A loop that unwinds never takes away the lease of the run that replaced it: the
\* release of markJobExecutionDone is fenced by the run.
LateReleaseHarmless ==
    [][\A r \in Runs : LoopReleases(r) =>
          \A w \in Runs : Beating(w) => left'[job[w]] = left[job[w]]]_vars

\* Timers fire, and the process of an aborted turn ends: armCancelDrainWatchdog.
Fairness ==
    /\ \A w \in Writers : WF_vars(Beats(w) \/ BeatFails(w) \/ ProviderEnds(w))
    /\ WF_vars(Tick)

FairSpec == Spec /\ Fairness

\* Two writers overlap after a suspension, until the next heartbeat of one, or while the
\* process of an aborted turn ends: never for ever.
OverlapEnds ==
    \A p \in kSubset(2, Writers) :
      (\E v, w \in p : Overlap(v, w)) ~> ~(\E v, w \in p : Overlap(v, w))

=============================================================================
