SPECIFICATION FairSpec
CONSTANTS
    InitialPlan <- MCTwoSlices
    SliceDeps <- MCTwoSliceDeps
    MilestoneOf <- MCSameMilestone
    MaxGeneration = 1
    MaxAttempts = 2
    Reports <- MCReports
    MaxRepairTasks = 2
    MaxTasks = 5
    MaxStops = 1
    MaxPausing = 2
CHECK_DEADLOCK FALSE
INVARIANTS
    TypeOK
    PassedCoversAll
    OrderKept
    NoFalseDeadlock
PROPERTIES
    LoopSettlesOrGrows
