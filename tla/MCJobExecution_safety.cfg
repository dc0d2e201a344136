SPECIFICATION Spec
CONSTANTS
    r1 = r1
    r2 = r2
    c1 = c1
    Jobs = {1}
    JobUser <- MCOneUser
    Runs = {r1, r2}
    NoRun = NoRun
    OldRun = OldRun
    Clients = {c1}
    Reconciler = Reconciler
    Ops = {"pause", "continue", "cancel", "restart"}
    MaxEvents = 2
    WorkspaceBusy = TRUE
    SandboxMayFail = TRUE
    CloseMayFail = TRUE
    PlanMayBeEmpty = TRUE
    Crashes = TRUE
    Expiries = TRUE
    LateReconcile = TRUE
CHECK_DEADLOCK FALSE
SYMMETRY RunSymmetry
INVARIANTS
    TypeOK
    SlotNamesOwner
PROPERTIES
    OnlyUserAuthorisesReplay
