----------------------------- MODULE LedgerRows -----------------------------
(***************************************************************************)
(* What a reader of customer_account_ledger may rely on: a ledger starts   *)
(* with its opening row, and then one row at a time becomes visible, the   *)
(* follower of the highest one.  Rows never change and never disappear.    *)
(*                                                                         *)
(* LedgerWriter is shown to implement this specification, and the payments *)
(* of Verification are its steps, so the verifier reads what the writer    *)
(* writes.                                                                 *)
(***************************************************************************)
EXTENDS Integers

CONSTANTS
    Accounts,      \* customer accounts
    Amounts,       \* amounts of payments
    MaxBalance     \* the largest value of a balance

VARIABLE
    rows           \* rows[a]: the visible rows of a, none before a is opened

Opening == [no |-> 1, amount |-> 0, balance |-> 0]

Follower(last, amount) ==
    [no |-> last.no + 1, amount |-> amount, balance |-> last.balance + amount]

Init == rows = [a \in Accounts |-> {}]

Open(a) ==
    /\ rows[a] = {}
    /\ rows' = [rows EXCEPT ![a] = {Opening}]

Extend(a, amount) ==
    \E last \in rows[a] :
        /\ \A r \in rows[a] : r.no <= last.no
        /\ Follower(last, amount).balance \in 0 .. MaxBalance
        /\ rows' = [rows EXCEPT ![a] = @ \cup {Follower(last, amount)}]

Next ==
    \E a \in Accounts :
        \/ Open(a)
        \/ \E amount \in Amounts : Extend(a, amount)

Spec == Init /\ [][Next]_rows

=============================================================================
