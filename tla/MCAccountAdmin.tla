--------------------------- MODULE MCAccountAdmin ---------------------------
(***************************************************************************)
(* Two account ids that compete for one (customer, currency), two names,   *)
(* and three concurrent requests.                                          *)
(***************************************************************************)
EXTENDS AccountAdmin, TLC

CONSTANTS a1, a2, r1, r2, r3, n1, n2

MCAccounts == {a1, a2}
MCRequests == {r1, r2, r3}
MCTwoRequests == {r1, r2}
MCNames == {n1, n2}
MCKeyOf == [a \in Accounts |-> "eur"]

\* Requests, account ids and names are interchangeable.
Symmetry == Permutations(Requests) \cup Permutations(Accounts) \cup Permutations(Names)

=============================================================================
