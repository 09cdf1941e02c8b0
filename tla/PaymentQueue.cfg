CONSTANTS
    account = account
    deposit = deposit
    withdrawal = withdrawal
    w1 = w1
    w2 = w2
    j1 = j1
    j2 = j2
    Accounts <- MCAccounts
    Payments <- MCPayments
    Workers <- MCTwoWorkers
    Jobs <- MCTwoJobs
    AccountOf <- MCAccountOf
    AmountOf <- MCAmountOf
    MaxBalance = 3
    MaxAttempts = 1
    MaxFaults = 1
    Nobody = Nobody
    Admin = Admin
    NoRow = NoRow
    NoJob = NoJob

SPECIFICATION QSpec

INVARIANTS
    QTypeOK
    DoneMeansApplied
    NoPaymentLost
    RetriesBounded

PROPERTIES
    FailureExhaustsAttempts

SYMMETRY Symmetry

CHECK_DEADLOCK FALSE
