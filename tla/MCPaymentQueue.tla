--------------------------- MODULE MCPaymentQueue ---------------------------
(***************************************************************************)
(* One account, a deposit and a withdrawal that only the deposit covers,   *)
(* and two job rows: one for each payment, or both for a payment whose     *)
(* message was redelivered.                                                *)
(***************************************************************************)
EXTENDS PaymentQueue, TLC

CONSTANTS account, deposit, withdrawal, w1, w2, j1, j2

MCAccounts == {account}
MCPayments == {deposit, withdrawal}
MCDeposit == {deposit}
MCTwoWorkers == {w1, w2}
MCOneJob == {j1}
MCTwoJobs == {j1, j2}

MCAccountOf == [p \in Payments |-> account]
MCAmountOf == [p \in Payments |-> IF p = deposit THEN 2 ELSE -1]

\* Workers and job rows are interchangeable.  (Not used for liveness.)
Symmetry == Permutations(Workers) \cup Permutations(Jobs)

=============================================================================
