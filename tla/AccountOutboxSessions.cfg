CONSTANTS
    a1 = a1
    a2 = a2
    r1 = r1
    r2 = r2
    r3 = r3
    n1 = n1
    n2 = n2
    Accounts <- MCAccounts
    Requests <- MCTwoRequests
    Names <- MCNames
    KeyOf <- MCKeyOf
    MaxVersion = 2
    MaxLosses = 1
    MaxAttempts = 1
    Wirings = {FALSE}
    None = None

SPECIFICATION Spec

INVARIANTS
    NoEventForNothing
