SPECIFICATION FairSpec
CONSTANTS
    r1 = r1
    r2 = r2
    c1 = c1
    Jobs = {1, 2}
    JobUser <- MCTwoUsers
    Runs = {r1, r2}
    NoRun = NoRun
    OldRun = OldRun
    Clients = {c1}
    Reconciler = Reconciler
    Ops = {"pause"}
    MaxEvents = 1
    WorkspaceBusy = FALSE
    SandboxMayFail = FALSE
    CloseMayFail = FALSE
    PlanMayBeEmpty = FALSE
    Crashes = TRUE
    Expiries = FALSE
    LateReconcile = FALSE
CHECK_DEADLOCK FALSE
INVARIANTS
    OneSlot
PROPERTIES
    PausingSettles
    PendingStarts
    SlotFreed
