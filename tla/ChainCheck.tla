----------------------------- MODULE ChainCheck -----------------------------
(***************************************************************************)
(* What one verification reads from the ledger of an account: the query of *)
(* ledger_verification.py from "windowed" to "batch_tail", and the         *)
(* properties CustomerAccountVerification derives from its row.            *)
(*                                                                         *)
(* A ledger is the set of its rows [no, amount, balance], an anchor is the *)
(* latest checkpoint [no, balance], or number 0 and balance 0 if there is  *)
(* none.                                                                   *)
(***************************************************************************)
EXTENDS Integers, FiniteSets

NoBreak == [no |-> 0, kind |-> "none", prev |-> 0, prevBalance |-> 0]

Highest(rows) == CHOOSE r \in rows : \A s \in rows : s.no <= r.no
Lowest(rows) == CHOOSE r \in rows : \A s \in rows : r.no <= s.no

\* Faulty variant of Window: the anchor's own row is not counted in.
ShortWindow(rows, anchor, limit) ==
    {r \in rows :
        /\ r.no >= anchor.no
        /\ Cardinality({s \in rows : anchor.no <= s.no /\ s.no < r.no}) < limit - 1}

\* windowed: the first `limit` rows from the anchor on.
Window(rows, anchor, limit) ==
    {r \in rows :
        /\ r.no >= anchor.no
        /\ Cardinality({s \in rows : anchor.no <= s.no /\ s.no < r.no}) < limit}

\* Faulty variant of Predecessor: every row is compared with the anchor.
AnchorOnly(window, anchor, r) == [no |-> anchor.no, balance |-> anchor.balance]

\* chained: the row before r in the window, or the anchor.
Predecessor(window, anchor, r) ==
    LET before == {s \in window : s.no < r.no}
    IN  IF before = {}
        THEN [no |-> anchor.no, balance |-> anchor.balance]
        ELSE [no |-> Highest(before).no, balance |-> Highest(before).balance]

\* flagged: what is wrong with row r, whose predecessor is p.
Kind(anchor, r, p) ==
    LET gap == r.no # p.no + 1
        wrong == r.balance # p.balance + r.amount
    IN  CASE r.no = anchor.no /\ r.balance # anchor.balance -> "anchor_balance"
          [] r.no > anchor.no /\ gap /\ wrong -> "gap_balance"
          [] r.no > anchor.no /\ gap /\ ~wrong -> "gap"
          [] r.no > anchor.no /\ ~gap /\ wrong -> "balance"
          [] OTHER -> "none"

Flag(anchor, r, p) ==
    [no |-> r.no, kind |-> Kind(anchor, r, p), prev |-> p.no, prevBalance |-> p.balance]

Flagged(window, anchor) ==
    {Flag(anchor, r, Predecessor(window, anchor, r)) : r \in window}

\* Faulty variant of FirstBreak: the last break is taken.
LastBreak(window, anchor) ==
    LET breaks == {f \in Flagged(window, anchor) : f.kind # "none"}
    IN  IF breaks = {} THEN NoBreak ELSE Highest(breaks)

\* first_break
FirstBreak(window, anchor) ==
    LET breaks == {f \in Flagged(window, anchor) : f.kind # "none"}
    IN  IF breaks = {} THEN NoBreak ELSE Lowest(breaks)

\* Faulty variant of LastGood: the end of the batch, broken or not.
BatchTail(window, break) ==
    [no |-> Highest(window).no, balance |-> Highest(window).balance]

\* last_good_no and last_good_balance: the end of the batch (batch_tail), or
\* the predecessor of the first break.
LastGood(window, break) ==
    IF break = NoBreak
    THEN [no |-> Highest(window).no, balance |-> Highest(window).balance]
    ELSE [no |-> break.prev, balance |-> break.prevBalance]

Verify(rows, anchor, limit) ==
    LET window == Window(rows, anchor, limit)
        break == FirstBreak(window, anchor)
    IN  [anchor |-> anchor.no, break |-> break, lastGood |-> LastGood(window, break)]

\* Faulty variant of ShouldCheckpoint: >= for >.
ShouldAlwaysCheckpoint(verification) == verification.lastGood.no >= verification.anchor

\* should_checkpoint
ShouldCheckpoint(verification) == verification.lastGood.no > verification.anchor

=============================================================================
