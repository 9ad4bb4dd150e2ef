SPECIFICATION PoolFairSpec
CONSTANTS
    t1 = t1
    t2 = t2
    t3 = t3
    t4 = t4
    t5 = t5
    l1 = l1
    o1 = o1
    o2 = o2
    e1 = e1
    e2 = e2
    c1 = c1
    c2 = c2
    NoTask = NoTask
    NoThread = NoThread
    NullTester = NullTester
    Worker = Worker
    Tasks <- MCTasks
    Tokens <- MCTokens
    Outsiders <- MCOutsiders
    Threads <- MCThreads
    TesterOf <- MCTesterOf
    Executors <- MCExecutors
    Releasers <- MCReleasers
    MaxThreads = 3
    IdleTimeout = TRUE
    PoolTasks <- MCPoolTasks
    Clients <- MCClients
INVARIANTS
    NobodyIsForgotten
    JoinsOnlySleepers
PROPERTIES
    NobodyWaitsForThePool
