SPECIFICATION Spec
CONSTANTS
    InitialPlan <- MCTwoSlices
    SliceDeps <- MCTwoSliceDeps
    MilestoneOf <- MCSameMilestone
    MaxGeneration = 1
    MaxAttempts = 2
    MaxPausing = 2
    Reports <- MCNoReports
    MaxRepairTasks = 1
    MaxTasks = 4
    MaxStops = 1
CHECK_DEADLOCK FALSE
INVARIANTS
    RestartStartsOver
