---------------------------- MODULE AtomicLedger ----------------------------
(***************************************************************************)
(* What the ledger of customer accounts promises, without rows, locks,     *)
(* transactions or workers: an account is opened empty, its status is      *)
(* changed, and a payment is applied in one step, at most once, only while *)
(* the account is active and only if the balance stays within its range.   *)
(* LedgerWriter is shown to implement this specification.                  *)
(***************************************************************************)
EXTENDS Integers

CONSTANTS
    Accounts,      \* customer accounts
    Payments,      \* payment commands, by operation id
    AccountOf,     \* the account a payment is for
    AmountOf,      \* its signed amount, in cents
    MaxBalance     \* the largest value a Numeric(16, 2) column holds

VARIABLES
    status,        \* status[a]: "absent" until the account is opened
    applied,       \* applied[a]: the payments applied to a
    balance        \* balance[a]: the current balance of a

vars == <<status, applied, balance>>

Init ==
    /\ status = [a \in Accounts |-> "absent"]
    /\ applied = [a \in Accounts |-> {}]
    /\ balance = [a \in Accounts |-> 0]

Open(a) ==
    /\ status[a] = "absent"
    /\ status' = [status EXCEPT ![a] = "active"]
    /\ UNCHANGED <<applied, balance>>

\* A deleted account stays deleted.
ChangeStatus(a, s) ==
    /\ status[a] \in {"active", "disabled"}
    /\ status' = [status EXCEPT ![a] = s]
    /\ UNCHANGED <<applied, balance>>

Apply(p) ==
    LET a == AccountOf[p]
        after == balance[a] + AmountOf[p]
    IN  /\ status[a] = "active"
        /\ p \notin applied[a]
        /\ 0 <= after
        /\ after <= MaxBalance
        /\ applied' = [applied EXCEPT ![a] = applied[a] \cup {p}]
        /\ balance' = [balance EXCEPT ![a] = after]
        /\ UNCHANGED status

Next ==
    \/ \E a \in Accounts : Open(a)
    \/ \E a \in Accounts, s \in {"active", "disabled", "deleted"} :
          ChangeStatus(a, s)
    \/ \E p \in Payments : Apply(p)

Spec == Init /\ [][Next]_vars

=============================================================================
