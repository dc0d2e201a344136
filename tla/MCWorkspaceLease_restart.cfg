SPECIFICATION Spec
CONSTANTS
    c1 = c1
    j1 = j1
    r1 = r1
    r2 = r2
    NoRun = NoRun
    Chats <- MCChats
    Jobs <- MCJobs
    Runs <- MCRuns
    Path <- MCPath
    TTL = 3
    Interval = 1
    Cancels = TRUE
    Sleeps = FALSE
INVARIANT RunKeepsLease
