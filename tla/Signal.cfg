SPECIFICATION LiveSpec
CONSTANTS
    c1 = c1
    c2 = c2
    u1 = u1
    u2 = u2
    v1 = v1
    v2 = v2
    Executor = Executor
    NoThread = NoThread
    NoValue = NoValue
    Initial = v1
    None = None
    Tokens <- MCConnections
    Async <- MCAsync
    Users <- MCUsers
    Threads <- MCThreads
    Values <- MCValues
    MaxInvocations = 3
INVARIANTS
    NothingCalledAfterDisconnect
PROPERTIES
    ImplementsObservable
    EverythingSettles
\* After the last invocation nobody calls any more.
CHECK_DEADLOCK FALSE
