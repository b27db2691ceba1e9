SPECIFICATION Spec
CONSTANTS
    Servers = {"s1", "s2"}
    Panels = {"c1"}
    Keys = {"k1"}
    Tokens = {"t1", "t2", "t3", "t4"}
    Revisions = {"r1", "r2", "r3", "r4"}
    PersonWrites <- MCPersonWrites
    MaxEdits = 1
    MaxKills = 1
    BridgeProcs = {"b1", "b2"}
    WebOps = {"o1"}
    MainAction <- MCMainAction
    WebKeys = {"w1", "w2", "w3"}
    MaxRecords = 2
    MaxBridgeKills = 1
    Tabs = {"a", "b"}
    Cookies = {"x1", "x2", "x3", "x4"}
    MaxSessions = 1
    IdleLimit = 1
    AbsoluteLimit = 3
    LegacyIds = {"q1", "q2"}
    PlanLength = 3
    PoolSize = 1
    Starters = {"u1", "u2"}
    MaxLegacyKills = 1
    MaxFaults = 2
    Writers = {"w1", "w2", "w3"}
    MaxLapses = 1
    MaxIntrusions = 1
    MaxWriteKills = 1
    Callers = {"m1"}
    QueueSize = 1
    StderrLimit = 1
    MaxCalls = 2
INVARIANT OneWriter
INVARIANT EditorReopens
INVARIANT TokenServesHolder
INVARIANT DispatchedOnce
PROPERTY SeenBeforeReplaced
PROPERTY StartsAgain
PROPERTY TableFreesUp
PROPERTY RunsOnceToAnEnd
PROPERTY CallsEnd
