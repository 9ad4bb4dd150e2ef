SPECIFICATION Spec
CONSTANTS
    First = First
    Second = Second
    c1 = c1
    c2 = c2
    Tokens <- MCTokens
    Cancellers <- MCCancellers
INVARIANT NoLostCancel
