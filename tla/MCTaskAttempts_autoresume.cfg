SPECIFICATION Spec
CONSTANTS
    t1 = t1
    t2 = t2
    Tasks <- MCOneTask
    MaxRuns = 2
    MaxAttempts = 2
PROPERTY AutoResumeAuthorizes
CHECK_DEADLOCK FALSE
