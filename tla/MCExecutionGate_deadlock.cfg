SPECIFICATION Spec
CONSTANTS
    InitialPlan <- MCOneSlice
    SliceDeps <- MCOneSliceDeps
    MilestoneOf <- MCOneMilestone
    MaxGeneration = 2
    MaxAttempts = 2
    MaxPausing = 2
    Reports <- MCSecondBlocked
    MaxRepairTasks = 1
    MaxTasks = 5
    MaxStops = 0
CHECK_DEADLOCK FALSE
INVARIANTS
    NoDeadlock
