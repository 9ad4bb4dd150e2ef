SPECIFICATION MCSpec
CONSTANTS
    w1 = w1
    c1 = c1
    c2 = c2
    First = First
    Second = Second
    Nobody = Nobody
    Waiters <- MCWaiters
    Tokens <- MCWaiters
    TimedWaiters <- MCWaiters
    Cancellers <- MCCancellers
INVARIANTS
    HandlerAlive
    NoLostCancel
    JoinedWaitIsSafe
PROPERTIES
    EveryoneReturns
