SPECIFICATION FairSpec
CONSTANTS
    u1 = u1
    u2 = u2
    t1 = t1
    t2 = t2
    t3 = t3
    t4 = t4
    k1 = k1
    Users = {u1, u2}
    Threads = {t1, t2, t3, t4}
    NoThread = NoThread
    ThreadUser <- MCThreadUser
    Keys = {k1}
    NoKey = NoKey
    MaxTurns = 3
    maxActive = 2
    Unreadable = {u2}
INVARIANTS
    TypeOK
    ThreadSerial
    UserCap
    NoOvertaking
    KeyNamesOneTurn
    NoLostWakeup
    StreamsSerial
    ActiveIsDriven
PROPERTIES
    TerminalIsFinal
    CancelHonoured
    TurnSettles
