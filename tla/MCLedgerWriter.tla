--------------------------- MODULE MCLedgerWriter ---------------------------
(***************************************************************************)
(* One account with a deposit, a withdrawal that only the deposit covers   *)
(* and a deposit that overflows the column after the first one, a second   *)
(* account with a deposit of its own, and two concurrent workers.          *)
(***************************************************************************)
EXTENDS LedgerWriter

CONSTANTS a1, a2, deposit, withdrawal, bonus, other, w1, w2

MCAccounts == {a1, a2}
MCPayments == {deposit, withdrawal, bonus, other}
MCWorkers == {w1, w2}

MCAccountOf == [p \in MCPayments |-> IF p = other THEN a2 ELSE a1]
MCAmountOf ==
    [p \in MCPayments |->
        CASE p = deposit -> 2 [] p = withdrawal -> -2 [] p = bonus -> 2 [] p = other -> 1]

=============================================================================
