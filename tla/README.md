# A TLA+ model of codetask

codetask is a desktop and server application that lets a user talk to coding agents, turn a
conversation into a plan, and run the plan as a job: a sequence of tasks, slices and milestones
executed by provider runtimes inside a workspace.

## The system's parts

- Conversation turn queue (`src/server/conversation/turn-queue.ts`): accepts turns of a chat
  thread, serializes them per thread and limits them per user.
- Job control plane (`src/server/legacy-control-plane`): jobs, the execution queue, workload
  slots, runs, workspace leases, task attempts, pause, resume, cancel, restart, deletion.
- Second-generation control plane (`src/server/application`, `src/server/domain`,
  `src/server/infra/sqlite/control-plane`).

## What each module models

- `TurnQueue.tla`: the conversation turn queue. `TurnQueueProofs.tla`: its theorems.
  `MCTurnQueue.tla`: the instances TLC checks.

## What each run checks

- `turn_queue_safety`: two users, three threads, three turns, cancellation, crashes and
  unreadable attachments.
- `turn_queue_live`: every accepted turn is eventually settled, with readable attachments.

## What is left out

The content of turns, events sent to clients, revision numbers.
