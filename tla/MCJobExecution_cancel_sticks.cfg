SPECIFICATION Spec
CONSTANTS
    r1 = r1
    r2 = r2
    c1 = c1
    Jobs = {1}
    JobUser <- MCOneUser
    Runs = {r1, r2}
    NoRun = NoRun
    OldRun = OldRun
    Clients = {c1}
    Reconciler = Reconciler
    Ops = {"cancel"}
    MaxEvents = 1
    WorkspaceBusy = FALSE
    SandboxMayFail = FALSE
    CloseMayFail = FALSE
    PlanMayBeEmpty = FALSE
    Crashes = FALSE
    Expiries = FALSE
    LateReconcile = FALSE
CHECK_DEADLOCK FALSE
PROPERTIES
    CancelSticks
