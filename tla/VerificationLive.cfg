CONSTANTS
    a1 = a1
    a2 = a2
    v1 = v1
    v2 = v2
    m1 = m1
    Accounts <- TwoAccounts
    Verifiers <- OneVerifier
    Admins <- NoAdmin
    Amounts <- MCAmounts
    MaxRows = 2
    MaxBalance = 2
    MaxTampers = 1
    AccountsPerRun = 1
    RowsPerAccount = 2
    OneSession = TRUE
    Nobody = Nobody

SPECIFICATION FairSpec

PROPERTIES
    RowsGetVerified

\* When every row is verified and no bound is left, nothing has to happen.
CHECK_DEADLOCK FALSE
