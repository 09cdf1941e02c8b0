CONSTANTS
    account = account
    deposit = deposit
    withdrawal = withdrawal
    w1 = w1
    w2 = w2
    j1 = j1
    j2 = j2
    Accounts <- MCAccounts
    Payments <- MCDeposit
    Workers <- MCTwoWorkers
    Jobs <- MCOneJob
    AccountOf <- MCAccountOf
    AmountOf <- MCAmountOf
    MaxBalance = 3
    MaxAttempts = 1
    MaxFaults = 2
    Nobody = Nobody
    Admin = Admin
    NoRow = NoRow
    NoJob = NoJob

SPECIFICATION FairQSpec

PROPERTIES
    PaymentSettles

CHECK_DEADLOCK FALSE
