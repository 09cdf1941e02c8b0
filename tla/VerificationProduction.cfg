CONSTANTS
    a1 = a1
    a2 = a2
    v1 = v1
    v2 = v2
    m1 = m1
    Accounts <- OneAccount
    Verifiers <- TwoVerifiers
    Admins <- OneAdmin
    Amounts <- MCAmounts
    MaxRows = 4
    MaxBalance = 3
    MaxTampers = 2
    AccountsPerRun = 1
    RowsPerAccount = 2
    OneSession = FALSE
    Nobody = Nobody

SPECIFICATION Spec

PROPERTIES
    ResolveLiftsQuarantine

\* When every row is verified and no bound is left, nothing has to happen.
CHECK_DEADLOCK FALSE
