--------------------------- MODULE MCVerification ---------------------------
(***************************************************************************)
(* Small instances of Verification: accounts whose rows are tampered with, *)
(* two schedulers and one administrator; and two accounts that compete for *)
(* the single place of a run.                                              *)
(***************************************************************************)
EXTENDS Verification, TLC

CONSTANTS a1, a2, v1, v2, m1

OneAccount == {a1}
TwoAccounts == {a1, a2}
OneVerifier == {v1}
TwoVerifiers == {v1, v2}
OneAdmin == {m1}
NoAdmin == {}

MCAmounts == {1}

Symmetry == Permutations(Verifiers)

=============================================================================
