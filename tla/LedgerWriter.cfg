CONSTANTS
    a1 = a1
    a2 = a2
    deposit = deposit
    withdrawal = withdrawal
    bonus = bonus
    other = other
    w1 = w1
    w2 = w2
    Accounts <- MCAccounts
    Payments <- MCPayments
    Workers <- MCWorkers
    AccountOf <- MCAccountOf
    AmountOf <- MCAmountOf
    MaxBalance = 3
    Nobody = Nobody
    Admin = Admin
    NoRow = NoRow

SPECIFICATION Spec

INVARIANTS
    TypeOK
    LedgerChain
    AppliedOnce
    BalanceInRange
    InsertIsFresh

PROPERTIES
    AppendsWhileActive
    AppliedIsNotRefused
    ImplementsAtomicLedger
