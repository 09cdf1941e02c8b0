CONSTANTS
    a1 = a1
    a2 = a2
    r1 = r1
    r2 = r2
    r3 = r3
    n1 = n1
    n2 = n2
    Accounts <- MCAccounts
    Requests <- MCRequests
    Names <- MCNames
    KeyOf <- MCKeyOf
    MaxVersion = 3
    MaxLosses = 1
    MaxAttempts = 1
    Wirings = {TRUE, FALSE}
    None = None

SPECIFICATION Spec

INVARIANTS
    TypeOK
    HistoryIsDense
    EveryAccountIsAnnounced

PROPERTIES
    HistoryKeepsTheReplaced
    NoLostUpdate
    ImplementsStatuses

SYMMETRY Symmetry

\* At MaxVersion nobody can edit the account any more.
CHECK_DEADLOCK FALSE
