CONSTANTS
    MaxNo = 3
    MaxMoney = 2

SPECIFICATION Spec

INVARIANTS
    LastGoodIsExact
    BreakIsExact
    AlwaysProgress

\* A state is one query: there is nothing to do after its answer.
CHECK_DEADLOCK FALSE
