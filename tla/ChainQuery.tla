----------------------------- MODULE ChainQuery -----------------------------
(***************************************************************************)
(* ChainCheck against a reference that does not walk the rows: the chain   *)
(* holds up to n if the numbers from the anchor to n are all there and     *)
(* every running balance is the anchor's balance plus the amounts so far.  *)
(* Every ledger of up to MaxNo rows, every anchor and every window size is *)
(* tried; a state is one query.                                            *)
(***************************************************************************)
EXTENDS ChainCheck, FiniteSetsExt

CONSTANTS
    MaxNo,         \* highest row number
    MaxMoney       \* highest balance, and amount of a payment

ASSUME QueryAssumption == MaxNo \in Nat \ {0} /\ MaxMoney \in Nat

Money == 0 .. MaxMoney
Row == [amount : -MaxMoney .. MaxMoney, balance : Money]
NoRowHere == [amount |-> 0, balance |-> -1]

VARIABLES rows, anchor, limit, answers
vars == <<rows, anchor, limit, answers>>

\* A query is chosen, then answered.
Init ==
    /\ \E f \in [1 .. MaxNo -> Row \cup {NoRowHere}] :
          rows = {[no |-> n, amount |-> f[n].amount, balance |-> f[n].balance] :
                     n \in {m \in 1 .. MaxNo : f[m] # NoRowHere}}
    /\ anchor \in [no : 0 .. MaxNo, balance : Money]
    \* a first anchor is empty, and targets wants a row after the anchor
    /\ anchor.no = 0 => anchor.balance = 0
    /\ \E r \in rows : r.no > anchor.no
    /\ limit \in 2 .. MaxNo + 1
    /\ answers = {}

Next ==
    /\ answers = {}
    /\ answers' = {Verify(rows, anchor, limit)}
    /\ UNCHANGED <<rows, anchor, limit>>

Spec == Init /\ [][Next]_vars

-----------------------------------------------------------------------------
AnchorOK == \A r \in rows : r.no = anchor.no => r.balance = anchor.balance

\* The amount of the row with number n, and the balance the amounts of the
\* rows past the anchor add up to at n.
AmountAt(n) ==
    IF \E r \in rows : r.no = n THEN (CHOOSE r \in rows : r.no = n).amount ELSE 0

BalanceAt[n \in 0 .. MaxNo] ==
    IF n <= anchor.no THEN anchor.balance ELSE BalanceAt[n - 1] + AmountAt(n)

\* The chain holds from the anchor to n.
HoldsTo(n) ==
    /\ AnchorOK
    /\ \A m \in anchor.no + 1 .. n :
          \E r \in rows : r.no = m /\ r.balance = BalanceAt[m]

\* The rows the window reaches, and how far the chain holds among them.
InWindow == {r.no : r \in Window(rows, anchor, limit)}
ReferenceLastGood ==
    IF AnchorOK
    THEN Max({anchor.no} \cup {n \in InWindow : n > anchor.no /\ HoldsTo(n)})
    ELSE anchor.no

\* The checkpoint that next_batch proposes is exactly the last number up to
\* which the chain holds, with the balance the amounts add up to.
LastGoodIsExact ==
    \A answer \in answers :
        /\ answer.lastGood.no = ReferenceLastGood
        /\ answer.lastGood.balance = BalanceAt[ReferenceLastGood]

\* A break is reported if and only if the chain does not hold to the end of
\* the window, and it is the first row past the last good one.
BreakIsExact ==
    \A answer \in answers :
        LET broken == {n \in InWindow : ~HoldsTo(n)}
        IN  IF broken = {}
            THEN answer.break = NoBreak
            ELSE /\ answer.break.no = Min(broken)
                 /\ answer.break.kind = "anchor_balance" <=> ~AnchorOK
                 /\ answer.break.kind \in {"gap", "gap_balance"} <=>
                       AnchorOK /\ answer.break.no # ReferenceLastGood + 1

\* The verifier always gets somewhere: with a row past the anchor it finds a
\* break or moves the checkpoint, so no account is selected for ever.
AlwaysProgress ==
    \A answer \in answers : ShouldCheckpoint(answer) \/ answer.break # NoBreak

=============================================================================
