SPECIFICATION MCSpec
CONSTANTS
    d1 = d1
    d2 = d2
    d3 = d3
    r1 = r1
    r2 = r2
    r3 = r3
    a1 = a1
    p1 = p1
    k1 = k1
    l1 = l1
    l2 = l2
    q1 = q1
    q2 = q2
    q3 = q3
    c1 = c1
    c2 = c2
    Worker = Worker
    NoTask = NoTask
    NoThread = NoThread
    NullTester = NullTester
    NoPeriod = NoPeriod
    Never = Never
    MaxTime = 1
    Tasks <- MCTasks
    Tokens <- MCTokens
    TesterOf <- MCTesterOf
    Delay <- MCDelay
    Period <- MCPeriod
    Removable <- MCRemovable
    Clients <- MCClients
    Threads <- MCThreads
    Deferrals <- MCDeferrals
    TaskOf <- MCTaskOf
    LifeTokens <- MCLifeTokens
    FirstToken = l1
INVARIANTS
    NothingRunsAfterRemoval
    NeverOversleeps
    StartedInOrder
    DrainedAtExit
    NothingEscapesCancel
PROPERTIES
    EverybodyReturns
