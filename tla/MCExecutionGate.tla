-------------------------- MODULE MCExecutionGate --------------------------
(* Small plans.  Tasks without dependencies follow the order of their slice. *)
EXTENDS ExecutionGate, TLC

Task(slice) == [slice |-> slice, deps |-> <<>>, parallel |-> FALSE]

\* A slice of two tasks, and one of a single task behind it, in one milestone.
\* The first task may be blocked by the environment or a prerequisite, the first
\* injected task by an implementation error.
MCTwoSlices == <<Task(1), Task(1), Task(2)>>
MCTwoSliceDeps == <<{}, {1}>>
MCSameMilestone == <<1, 1>>
MCReports == {<<"infra", 1>>, <<"prep", 1>>, <<"repair", 4>>}

\* One slice of three tasks, the second of which may be blocked repeatedly.
MCOneSlice == <<Task(1), Task(1), Task(1)>>
MCOneSliceDeps == <<{}>>
MCOneMilestone == <<1>>
MCSecondBlocked == {<<"prep", 2>>}

\* No task is blocked.
MCNoReports == {}
=============================================================================
