SPECIFICATION FairSpec
CONSTANTS
    r1 = r1
    r2 = r2
    c1 = c1
    Jobs = {1, 2}
    JobUser <- MCTwoUsers
    Runs = {r1, r2}
    NoRun = NoRun
    OldRun = OldRun
    Clients = {c1}
    Reconciler = Reconciler
    Ops = {}
    MaxEvents = 1
    WorkspaceBusy = FALSE
    SandboxMayFail = FALSE
    CloseMayFail = TRUE
    PlanMayBeEmpty = FALSE
    Crashes = FALSE
    Expiries = FALSE
    LateReconcile = FALSE
CHECK_DEADLOCK FALSE
PROPERTIES
    PendingStarts
