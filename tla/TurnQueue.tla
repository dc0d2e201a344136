----------------------------- MODULE TurnQueue -----------------------------
(***************************************************************************)
(* The durable conversation-turn queue (src/server/conversation/           *)
(* turn-queue.ts).  A turn is a row of conversation_turns; turns of one    *)
(* thread are served one at a time in insertion order, and a user has at   *)
(* most maxActive turns in flight.                                         *)
(*                                                                         *)
(* Every better-sqlite3 statement is synchronous, so handlers interleave   *)
(* only where they await.  `advancing' is the set of users for whom a      *)
(* handler has changed a row and is still to call advanceTurnQueue after   *)
(* its await.  runAdmittedTurn writes a terminal status and advances the   *)
(* queue in one step when its stream ends or throws; when it meets a       *)
(* cancellation inside its for-await loop, it writes "cancelled", returns, *)
(* and thereby awaits the iterator's return() before its finally block     *)
(* advances the queue.                                                     *)
(***************************************************************************)
EXTENDS Naturals, FiniteSets

CONSTANTS
    Users,                  \* usernames
    Threads,                \* conversation threads
    NoThread,               \* thread of a row that has not been inserted
    ThreadUser,             \* the user each thread belongs to
    Keys,                   \* idempotency keys clients send
    NoKey,                  \* no idempotency key was sent
    MaxTurns,               \* bound: rows ever inserted
    maxActive,              \* config.http.maxConcurrentTurnsPerUser
    Unreadable              \* users whose turns may have attachments that cannot be read

ASSUME TurnQueueAssumption ==
    /\ ThreadUser \in [Threads -> Users]
    /\ NoThread \notin Threads
    /\ NoKey \notin Keys
    /\ MaxTurns \in Nat
    /\ maxActive \in Nat \ {0}
    /\ Unreadable \subseteq Users

Turn == 1..MaxTurns
ActiveStatus == {"admitted", "running", "committing", "cancelling"}
TerminalStatus == {"completed", "failed", "cancelled"}
TurnStatus == {"absent", "queued"} \cup ActiveStatus \cup TerminalStatus

VARIABLES
    thread,     \* thread[i]: thread of row i, rows are numbered by rowid
    key,        \* key[i]: its idempotency key
    status,     \* status[i]: its status, "absent" before the insert
    stream,     \* turns whose runAdmittedTurn has not reached its finally block
    advancing,  \* users with a pending advanceTurnQueue call
    up          \* the server process is alive and has finished start-up

vars == <<thread, key, status, stream, advancing, up>>

UserOf(i) == ThreadUser[thread[i]]
Rows == {i \in Turn : status[i] # "absent"}

-----------------------------------------------------------------------------
(* Admission. *)

\* Seeded fault: the status list forgets "cancelling".
threadHasActiveTurn_ForgetsCancelling(st, th) ==
    \E i \in Turn : thread[i] = th /\ st[i] \in ActiveStatus \ {"cancelling"}

threadHasActiveTurn(st, th) ==
    \E i \in Turn : thread[i] = th /\ st[i] \in ActiveStatus

ActiveTurns(st, u) == {i \in Turn : st[i] \in ActiveStatus /\ UserOf(i) = u}

\* Seeded fault: the pass orders the queued rows newest first.
Heads_NewestFirst(st) ==
    {i \in Turn : /\ st[i] = "queued"
                  /\ ~threadHasActiveTurn(st, thread[i])
                  /\ \A j \in Turn : j > i /\ thread[j] = thread[i] => st[j] # "queued"}

\* The queued rows that the per-thread check can let through: the first queued
\* row of each thread that has no active turn.  The code orders rows by createdAt,
\* in seconds, and then by rowid: insertion order while the clock does not go back.
Heads(st) ==
    {i \in Turn : /\ st[i] = "queued"
                  /\ ~threadHasActiveTurn(st, thread[i])
                  /\ \A j \in Turn : j < i /\ thread[j] = thread[i] => st[j] # "queued"}

HeadsBefore(st, i) == {j \in Heads(st) : j < i /\ UserOf(j) = UserOf(i)}

\* Seeded fault: the limit is compared with <=.
Admitted_OffByOne(st, U) ==
    {i \in Heads(st) :
        /\ UserOf(i) \in U
        /\ Cardinality(ActiveTurns(st, UserOf(i))) + Cardinality(HeadsBefore(st, i))
              <= maxActive}

\* The rows one pass of advanceTurnQueue over the users U admits.  The pass goes
\* through the queued rows in rowid order; a row passes while its user's active
\* turns and the heads admitted before it stay below the limit.
Admitted(st, U) ==
    {i \in Heads(st) :
        /\ UserOf(i) \in U
        /\ Cardinality(ActiveTurns(st, UserOf(i))) + Cardinality(HeadsBefore(st, i))
              < maxActive}

\* advanceTurnQueue on the statuses st: the admitted rows go through "admitted"
\* to "running" before the pass returns.  runAdmittedTurn reads the attachments
\* outside its try block, so a row whose attachments cannot be read stays
\* "running" without a stream.
advanceTurnQueue(st, strm, U) ==
    \E broken \in SUBSET Admitted(st, U) :
        /\ \A i \in broken : UserOf(i) \in Unreadable
        /\ status' = [i \in Turn |-> IF i \in Admitted(st, U) THEN "running" ELSE st[i]]
        /\ stream' = strm \cup (Admitted(st, U) \ broken)

-----------------------------------------------------------------------------
Init ==
    /\ thread = [i \in Turn |-> NoThread]
    /\ key = [i \in Turn |-> NoKey]
    /\ status = [i \in Turn |-> "absent"]
    /\ stream = {}
    /\ advancing = {}
    /\ up = TRUE

\* Seeded fault: only turns that are still open are searched for the key.
KeyIsFresh_OpenOnly(u, k) ==
    \/ k = NoKey
    \/ \A i \in Rows : ~(UserOf(i) = u /\ key[i] = k /\ status[i] \notin TerminalStatus)

\* A repeated key replays (or conflicts with) the existing row and inserts nothing.
KeyIsFresh(u, k) ==
    k = NoKey \/ \A i \in Rows : ~(UserOf(i) = u /\ key[i] = k)

enqueueConversationTurn(i, th, k) ==
    /\ up
    /\ status[i] = "absent"
    /\ \A j \in Turn : j < i => status[j] # "absent"
    /\ KeyIsFresh(ThreadUser[th], k)
    /\ thread' = [thread EXCEPT ![i] = th]
    /\ key' = [key EXCEPT ![i] = k]
    /\ status' = [status EXCEPT ![i] = "queued"]
    /\ advancing' = advancing \cup {ThreadUser[th]}
    /\ UNCHANGED <<stream, up>>

cancelConversationTurn(i) ==
    /\ up
    /\ status[i] \in {"queued"} \cup ActiveStatus
    /\ status' = [status EXCEPT ![i] = IF @ = "queued" THEN "cancelled" ELSE "cancelling"]
    /\ advancing' = advancing \cup {UserOf(i)}
    /\ UNCHANGED <<thread, key, stream, up>>

\* The advanceTurnQueue call a handler makes after its await.
AdvanceForUser(u) ==
    /\ u \in advancing
    /\ advanceTurnQueue(status, stream, {u})
    /\ advancing' = advancing \ {u}
    /\ UNCHANGED <<thread, key, up>>

\* The statuses the terminal writes of runAdmittedTurn may start from.
Streaming == {i \in stream : status[i] \in {"running", "cancelling"}}

\* Turns whose row is settled while the iterator's return() is awaited.
Unwinding == {i \in stream : status[i] = "cancelled"}

\* runAdmittedTurn leaves its loop with terminal status s; the finally block, in
\* the same step, drops the controller and advances the user's queue.
Settle(i, s) ==
    /\ i \in Streaming
    /\ advanceTurnQueue([status EXCEPT ![i] = s], stream \ {i}, {UserOf(i)})
    /\ UNCHANGED <<thread, key, advancing, up>>

\* The stream ends; a cancellation requested meanwhile wins over completion.
StreamEnds(i) ==
    Settle(i, IF status[i] = "cancelling" THEN "cancelled" ELSE "completed")

\* Seeded fault: the catch block takes a cancelled turn for a failed one.
StreamFails_DropsCancel(i) == Settle(i, "failed")

\* The stream throws, or yields an error event.
StreamFails(i) ==
    Settle(i, IF status[i] = "cancelling" THEN "cancelled" ELSE "failed")

\* The stream yields a chunk and the loop finds its turn cancelled.
StreamMeetsCancel(i) ==
    /\ i \in stream /\ status[i] = "cancelling"
    /\ status' = [status EXCEPT ![i] = "cancelled"]
    /\ UNCHANGED <<thread, key, stream, advancing, up>>

\* Seeded fault: the return from the loop skips the advance.
Unwinds_NoAdvance(i) ==
    /\ i \in Unwinding
    /\ stream' = stream \ {i}
    /\ UNCHANGED <<thread, key, status, advancing, up>>

\* The iterator's return() is done: the finally block of a cancelled turn.
Unwinds(i) ==
    /\ i \in Unwinding
    /\ advanceTurnQueue(status, stream \ {i}, {UserOf(i)})
    /\ UNCHANGED <<thread, key, advancing, up>>

Crash ==
    /\ up
    /\ stream' = {}
    /\ advancing' = {}
    /\ up' = FALSE
    /\ UNCHANGED <<thread, key, status>>

\* Seeded faults: orphans get a status the table does not know, settled rows are
\* settled again, running rows are kept.
Reconciled_Interrupted(s) ==
    IF s \in ActiveStatus THEN "interrupted" ELSE s
Reconciled_AllRows(s) ==
    IF s \in {"absent", "queued"} THEN s ELSE "failed"
Reconciled_KeepsRunning(s) ==
    IF s = "cancelling" THEN "cancelled" ELSE s

\* What reconcileConversationTurnsOnStartup leaves of each row.
Reconciled(s) ==
    IF s = "cancelling" THEN "cancelled" ELSE IF s \in ActiveStatus THEN "failed" ELSE s

\* Start-up settles orphan rows, then advances every user's queue, before the
\* HTTP listener is bound.
Startup ==
    /\ ~up
    /\ advanceTurnQueue([i \in Turn |-> Reconciled(status[i])], {}, Users)
    /\ up' = TRUE
    /\ UNCHANGED <<thread, key, advancing>>

Next ==
    \/ \E i \in Turn, th \in Threads, k \in Keys \cup {NoKey} : enqueueConversationTurn(i, th, k)
    \/ \E i \in Turn : cancelConversationTurn(i)
    \/ \E u \in Users : AdvanceForUser(u)
    \/ \E i \in Turn : StreamEnds(i)
    \/ \E i \in Turn : StreamFails(i)
    \/ \E i \in Turn : StreamMeetsCancel(i)
    \/ \E i \in Turn : Unwinds(i)
    \/ Crash
    \/ Startup

Spec == Init /\ [][Next]_vars

\* Handlers run to their end, the provider stream of a turn ends, throws or yields
\* (the runtime bounds a turn by its own timeout), and its return() ends.  Users,
\* crashes and restarts are not fair.
Fairness ==
    /\ \A u \in Users : WF_vars(AdvanceForUser(u))
    /\ \A i \in Turn : WF_vars(\/ StreamEnds(i) \/ StreamFails(i)
                              \/ StreamMeetsCancel(i) \/ Unwinds(i))

FairSpec == Spec /\ Fairness

-----------------------------------------------------------------------------
(* Properties. *)

\* Types of the columns, and only inserted rows have a thread.
TypeOK ==
    /\ thread \in [Turn -> Threads \cup {NoThread}]
    /\ key \in [Turn -> Keys \cup {NoKey}]
    /\ status \in [Turn -> TurnStatus]
    /\ stream \in SUBSET Turn
    /\ advancing \in SUBSET Users
    /\ up \in BOOLEAN
    /\ \A i \in Turn : status[i] = "absent" <=> thread[i] = NoThread

\* Same-thread turns serialize: a thread never has two active turns, whatever
\* enqueues, cancellations, settlements and restarts interleave.
ThreadSerial ==
    \A i, j \in Turn :
        /\ status[i] \in ActiveStatus
        /\ status[j] \in ActiveStatus
        /\ thread[i] = thread[j]
        => i = j

\* A user never has more than maxActive turns in flight, counting the ones that
\* are being cancelled.
UserCap == \A u \in Users : Cardinality(ActiveTurns(status, u)) <= maxActive

\* Turns of a thread start in insertion order: while a row is queued, no later
\* row of its thread has been admitted (a later row may have been cancelled).
NoOvertaking ==
    \A i, j \in Turn :
        i < j /\ thread[i] = thread[j] /\ status[i] = "queued"
            => status[j] \in {"queued", "cancelled"}

\* An idempotency key names one turn of a user, across retries and restarts.
KeyNamesOneTurn ==
    \A i, j \in Rows : key[i] # NoKey /\ key[i] = key[j] /\ UserOf(i) = UserOf(j) => i = j

\* No lost wake-up: a queued turn that could be admitted waits only while a
\* handler's advanceTurnQueue call for its user is still to run, or the finally
\* block of a cancelled turn of its user.
NoLostWakeup ==
    up => Admitted(status, Users \ (advancing \cup {UserOf(i) : i \in Unwinding})) = {}

\* "Same-thread turns serialize", for the streams: two streams of a thread live at
\* once only while all but one of them belong to cancelled turns that unwind (the
\* thread is free as soon as the row says "cancelled", before return() has ended).
StreamsSerial ==
    \A i, j \in stream :
        thread[i] = thread[j] /\ i # j => i \in Unwinding \/ j \in Unwinding

\* Every active turn of a live server is driven by a stream that will settle it.
\* It needs readable attachments: runAdmittedTurn reads them outside its try.
ActiveIsDriven ==
    up => \A i \in Turn :
              status[i] \in ActiveStatus /\ UserOf(i) \notin Unreadable => i \in stream

\* A settled turn never changes again, neither by a late stream, a repeated
\* cancellation nor the start-up reconciliation.
TerminalIsFinal ==
    [][\A i \in Turn : status[i] \in TerminalStatus => status'[i] = status[i]]_vars

\* A requested cancellation is never lost: a turn being cancelled ends cancelled,
\* even if its stream completes, fails or dies with the process first.
CancelHonoured ==
    [][\A i \in Turn :
        status[i] = "cancelling" => status'[i] \in {"cancelling", "cancelled"}]_vars

\* Every accepted turn of a user with readable attachments is settled, and with it the
\* whole backlog of the user, unless the server goes down first; orphan rows of another
\* user do not hold it back.  (A user enqueues at most MaxTurns turns: with arrivals for
\* ever the backlog need not be empty at any one time.)
TurnSettles ==
    \A u \in Users \ Unreadable :
        (\E i \in Rows : UserOf(i) = u /\ status[i] = "queued")
            ~> (~up \/ \A i \in Rows : UserOf(i) = u => status[i] \in TerminalStatus)
=============================================================================
