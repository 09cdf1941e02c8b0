CONSTANTS
    a1 = a1
    a2 = a2
    v1 = v1
    v2 = v2
    m1 = m1
    Accounts <- TwoAccounts
    Verifiers <- TwoVerifiers
    Admins <- OneAdmin
    Amounts <- MCAmounts
    MaxRows = 4
    MaxBalance = 2
    MaxTampers = 2
    AccountsPerRun = 2
    RowsPerAccount = 2
    OneSession = TRUE
    Nobody = Nobody

SPECIFICATION Spec

INVARIANTS
    TypeOK
    HonestLedgerPasses

PROPERTIES
    IncidentsAreAhead
    QuarantineHolds
    AcceptanceMovesAnchor
    BreakIsNotPassed

SYMMETRY Symmetry

\* When every row is verified and no bound is left, nothing has to happen.
CHECK_DEADLOCK FALSE
