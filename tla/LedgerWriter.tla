---------------------------- MODULE LedgerWriter ----------------------------
(***************************************************************************)
(* The transactions that write customer accounts and their ledgers: the    *)
(* handler of payment.create (on_create_payment), one action per SQL       *)
(* statement, and the administrative transactions that open an account or  *)
(* change its status.  Isolation is PostgreSQL's READ COMMITTED: every     *)
(* statement sees what was committed before it started, and               *)
(* SELECT ... FOR UPDATE waits for the row lock and then sees the row as   *)
(* last committed.                                                         *)
(*                                                                         *)
(* Which command a worker takes, and how often, is left open here (the     *)
(* job queue of PaymentQueue decides it), so a command may be delivered    *)
(* again at any time, to several workers at once, and after it was         *)
(* applied.                                                                *)
(***************************************************************************)
EXTENDS Integers, Sequences

CONSTANTS
    Accounts,      \* ids of customer accounts
    Payments,      \* ids of payment commands (the operation ids)
    Workers,       \* sessions that run on_create_payment concurrently
    AccountOf,     \* the account a payment is for
    AmountOf,      \* its signed amount, in cents
    MaxBalance,    \* the largest value a Numeric(16, 2) column holds
    Nobody,        \* the owner of a row lock nobody holds
    Admin,         \* its owner while a status change is uncommitted
    NoRow          \* "no ledger entry yet"

ASSUME PaymentAssumption ==
    /\ AccountOf \in [Payments -> Accounts]
    /\ AmountOf \in [Payments -> Int]
    /\ MaxBalance \in Nat
    \* ids are UUIDs: no payment carries the id of an account
    /\ Accounts \cap Payments = {}

ASSUME SentinelAssumption ==
    /\ Nobody \notin Workers
    /\ Admin \notin Workers
    /\ Nobody # Admin

VARIABLES
    status,        \* status[a]: the committed status, "absent" before creation
    ledger,        \* ledger[a]: the committed rows, in the order of their commits
    holder,        \* holder[a]: who holds the row lock of a
    change,        \* change[a]: the uncommitted status the Admin wrote
    pc,            \* pc[w]: the next statement of worker w
    payment,       \* payment[w]: the command w works on
    row            \* row[w]: the ledger entry w is about to write, or wrote

adminVars == <<status, change>>
workerVars == <<pc, payment, row>>
vars == <<status, ledger, holder, change, pc, payment, row>>

-----------------------------------------------------------------------------
Statuses == {"active", "disabled", "deleted"}

\* Statements that run with the row lock held, and what a handler ends with:
\* it returned, it raised TerminalJobError, or it raised something else.
Locked == {"dedupe", "previous", "insert", "commit"}
Outcomes == {"done", "rejected", "failed"}
Steps == {"idle", "lock"} \cup Locked \cup Outcomes

Rows == [no : Nat, amount : Int, balance : Int, op : Accounts \cup Payments]

\* CustomerAccountLedger.create: the row that opens a ledger.
OpeningRow(a) == [no |-> 1, amount |-> 0, balance |-> 0, op |-> a]

\* Faulty variant of Follow: the balance does not carry the previous one on.
FollowAfresh(previous, p) ==
    [no |-> previous.no + 1, amount |-> AmountOf[p], balance |-> AmountOf[p], op |-> p]

\* CustomerAccountLedger.follow: the row of payment p after `previous`.
Follow(previous, p) ==
    [no      |-> previous.no + 1,
     amount  |-> AmountOf[p],
     balance |-> previous.balance + AmountOf[p],
     op      |-> p]

\* find_last_ledger_entry: the committed row with the highest number.
LastEntry(rows) ==
    rows[CHOOSE i \in DOMAIN rows :
            \A j \in DOMAIN rows : rows[j].no <= rows[i].no]

\* Faulty variant of OperationRows: only the last row is compared.
LastOperationRow(rows, op) == {i \in DOMAIN rows : i = Len(rows) /\ rows[i].op = op}

\* The committed rows of an operation id, by position.
OperationRows(rows, op) == {i \in DOMAIN rows : rows[i].op = op}

\* has_ledger_operation
HasOperation(rows, op) == OperationRows(rows, op) # {}

\* The primary key (account_id, no) and the unique constraint
\* (account_id, operation_id), against the committed rows.
Conflicts(rows, r) ==
    \/ \E i \in DOMAIN rows : rows[i].no = r.no
    \/ OperationRows(rows, r.op) # {}

\* A column of the row does not fit Numeric(16, 2).  The balance is checked
\* against zero before, so the lower bound only concerns the amount.
Overflows(r) ==
    \/ r.balance > MaxBalance
    \/ r.amount > MaxBalance
    \/ r.amount < -MaxBalance

\* Faulty variant of CannotFollow: the funds are not checked.
NoPrevious(rows, p) == rows = <<>>

\* No previous entry, or not enough money for the payment.
CannotFollow(rows, p) ==
    \/ rows = <<>>
    \/ LastEntry(rows).balance + AmountOf[p] < 0

Target(w) == AccountOf[payment[w]]

\* Faulty variant of TakeLock: a SELECT without FOR UPDATE.
TakeNoLock(a, who) == UNCHANGED holder

LockFree(a) == holder[a] = Nobody
TakeLock(a, who) == holder' = [holder EXCEPT ![a] = who]
\* COMMIT and ROLLBACK release every lock of the transaction.
Release(who) == holder' = [a \in Accounts |->
                              IF holder[a] = who THEN Nobody ELSE holder[a]]

GoTo(w, step) == pc' = [pc EXCEPT ![w] = step]

\* The transaction of w ends without a change to the ledger.
End(w, outcome) ==
    /\ GoTo(w, outcome)
    /\ Release(w)
    /\ row' = [row EXCEPT ![w] = NoRow]
    /\ UNCHANGED <<status, ledger, change, payment>>

-----------------------------------------------------------------------------
Init ==
    /\ status = [a \in Accounts |-> "absent"]
    /\ ledger = [a \in Accounts |-> <<>>]
    /\ holder = [a \in Accounts |-> Nobody]
    /\ change = [a \in Accounts |-> "none"]
    /\ pc = [w \in Workers |-> "idle"]
    /\ payment \in [Workers -> Payments]
    /\ row = [w \in Workers |-> NoRow]

\* create_customer_account commits the account and its opening row together.
OpenAccount(a) ==
    /\ status[a] = "absent"
    /\ status' = [status EXCEPT ![a] = "active"]
    /\ ledger' = [ledger EXCEPT ![a] = <<OpeningRow(a)>>]
    /\ UNCHANGED <<holder, change, workerVars>>

\* Faulty variant of WriteStatus: the status is written and committed without
\* the row lock.
WriteStatusAtOnce(a, s) ==
    /\ status[a] \in {"active", "disabled"}
    /\ status' = [status EXCEPT ![a] = s]
    /\ UNCHANGED <<ledger, holder, change, workerVars>>

\* updated_customer_account and delete_customer_account: the UPDATE of the
\* flush waits for the row lock and holds it to the end of the transaction.
\* Its WHERE version = ... makes the status it was based on the current one.
WriteStatus(a, s) ==
    /\ status[a] \in {"active", "disabled"}
    /\ LockFree(a)
    /\ TakeLock(a, Admin)
    /\ change' = [change EXCEPT ![a] = s]
    /\ UNCHANGED <<status, ledger, workerVars>>

\* Faulty variant of CommitStatus: it commits what was not flushed.
CommitAnyStatus(a) ==
    /\ status[a] # "absent"
    /\ status' = [status EXCEPT ![a] = change[a]]
    /\ change' = [change EXCEPT ![a] = "none"]
    /\ TakeLock(a, Nobody)
    /\ UNCHANGED <<ledger, workerVars>>

CommitStatus(a) ==
    /\ holder[a] = Admin
    /\ status' = [status EXCEPT ![a] = change[a]]
    /\ change' = [change EXCEPT ![a] = "none"]
    /\ TakeLock(a, Nobody)
    /\ UNCHANGED <<ledger, workerVars>>

RollbackStatus(a) ==
    /\ holder[a] = Admin
    /\ change' = [change EXCEPT ![a] = "none"]
    /\ TakeLock(a, Nobody)
    /\ UNCHANGED <<status, ledger, workerVars>>

-----------------------------------------------------------------------------
\* A worker is given a command.
Begin(w, p) ==
    /\ pc[w] = "idle"
    /\ payment' = [payment EXCEPT ![w] = p]
    /\ GoTo(w, "lock")
    /\ UNCHANGED <<adminVars, ledger, holder, row>>

\* lock_by_id found no account: RetryRequested.
UnknownAccount(w) ==
    /\ pc[w] = "lock"
    /\ status[Target(w)] = "absent"
    /\ End(w, "failed")

\* lock_by_id returned an account that takes no payments: TerminalJobError.
RejectInactive(w) ==
    /\ pc[w] = "lock"
    /\ status[Target(w)] \in {"disabled", "deleted"}
    /\ LockFree(Target(w))
    /\ End(w, "rejected")

\* Faulty variant of LockAccount: only deleted accounts are turned away.
LockUndeleted(w) ==
    /\ pc[w] = "lock"
    /\ status[Target(w)] \in {"active", "disabled"}
    /\ LockFree(Target(w))
    /\ TakeLock(Target(w), w)
    /\ GoTo(w, "dedupe")
    /\ UNCHANGED <<adminVars, ledger, payment, row>>

\* lock_by_id returned an active account.
LockAccount(w) ==
    /\ pc[w] = "lock"
    /\ status[Target(w)] = "active"
    /\ LockFree(Target(w))
    /\ TakeLock(Target(w), w)
    /\ GoTo(w, "dedupe")
    /\ UNCHANGED <<adminVars, ledger, payment, row>>

\* The operation is in the ledger already: the handler returns.
SkipDuplicate(w) ==
    /\ pc[w] = "dedupe"
    /\ HasOperation(ledger[Target(w)], payment[w])
    /\ End(w, "done")

\* Faulty variant of CheckDuplicate: the operation is left to the constraints.
CheckNothing(w) ==
    /\ pc[w] = "dedupe"
    /\ GoTo(w, "previous")
    /\ UNCHANGED <<adminVars, ledger, holder, payment, row>>

CheckDuplicate(w) ==
    /\ pc[w] = "dedupe"
    /\ ~HasOperation(ledger[Target(w)], payment[w])
    /\ GoTo(w, "previous")
    /\ UNCHANGED <<adminVars, ledger, holder, payment, row>>

\* No previous entry, or insufficient funds: TerminalJobError.
RejectPayment(w) ==
    /\ pc[w] = "previous"
    /\ CannotFollow(ledger[Target(w)], payment[w])
    /\ End(w, "rejected")

ReadPrevious(w) ==
    /\ pc[w] = "previous"
    /\ ~CannotFollow(ledger[Target(w)], payment[w])
    /\ row' = [row EXCEPT ![w] = Follow(LastEntry(ledger[Target(w)]), payment[w])]
    /\ GoTo(w, "insert")
    /\ UNCHANGED <<adminVars, ledger, holder, payment>>

\* An INSERT waits for an uncommitted row with the same key.
AwaitsInsert(w) ==
    \E v \in Workers \ {w} :
        /\ pc[v] = "commit"
        /\ Target(v) = Target(w)
        /\ row[v].no = row[w].no \/ row[v].op = row[w].op

Insert(w) ==
    /\ pc[w] = "insert"
    /\ ~AwaitsInsert(w)
    /\ ~Conflicts(ledger[Target(w)], row[w])
    /\ ~Overflows(row[w])
    /\ GoTo(w, "commit")
    /\ UNCHANGED <<adminVars, ledger, holder, payment, row>>

\* IntegrityError or a numeric overflow leaves the handler and rolls back.
FailInsert(w) ==
    /\ pc[w] = "insert"
    /\ ~AwaitsInsert(w)
    /\ Conflicts(ledger[Target(w)], row[w]) \/ Overflows(row[w])
    /\ End(w, "failed")

\* The end of session.begin().  The commit may succeed and its reply be lost:
\* then the row is visible and the handler ends with an exception.
Commit(w, outcome) ==
    /\ pc[w] = "commit"
    /\ ledger' = [ledger EXCEPT ![Target(w)] = Append(@, row[w])]
    /\ GoTo(w, outcome)
    /\ Release(w)
    /\ row' = [row EXCEPT ![w] = NoRow]
    /\ UNCHANGED <<adminVars, payment>>

\* The connection is lost, or a statement fails: the server rolls back.
Abort(w) ==
    /\ pc[w] \in {"lock"} \cup Locked
    /\ End(w, "failed")

\* The executor has dealt with the outcome and the worker is free again.
Finish(w) ==
    /\ pc[w] \in Outcomes
    /\ GoTo(w, "idle")
    /\ UNCHANGED <<adminVars, ledger, holder, payment, row>>

-----------------------------------------------------------------------------
AdminNext ==
    \E a \in Accounts :
        \/ OpenAccount(a)
        \/ \E s \in Statuses : WriteStatus(a, s)
        \/ CommitStatus(a)
        \/ RollbackStatus(a)

\* The statements of the handler, up to its outcome.
Handle(w) ==
    \/ UnknownAccount(w)
    \/ RejectInactive(w)
    \/ LockAccount(w)
    \/ SkipDuplicate(w)
    \/ CheckDuplicate(w)
    \/ RejectPayment(w)
    \/ ReadPrevious(w)
    \/ Insert(w)
    \/ FailInsert(w)
    \/ Commit(w, "done")

\* What the handler meets without asking for it.
Disturb(w) ==
    \/ Commit(w, "failed")
    \/ Abort(w)

WorkerNext ==
    \E w \in Workers :
        \/ \E p \in Payments : Begin(w, p)
        \/ Handle(w)
        \/ Disturb(w)
        \/ Finish(w)

Next == AdminNext \/ WorkerNext

Spec == Init /\ [][Next]_vars

-----------------------------------------------------------------------------
TypeOK ==
    /\ status \in [Accounts -> Statuses \cup {"absent"}]
    /\ ledger \in [Accounts -> Seq(Rows)]
    /\ holder \in [Accounts -> Workers \cup {Nobody, Admin}]
    /\ change \in [Accounts -> Statuses \cup {"none"}]
    /\ pc \in [Workers -> Steps]
    /\ payment \in [Workers -> Payments]
    /\ row \in [Workers -> Rows \cup {NoRow}]

\* The ledger invariant of ledger_verification.py: rows become visible in the
\* order of their numbers, dense from 1, and each balance is the one before it
\* plus the amount.
ChainHolds(rows) ==
    \A i \in DOMAIN rows :
        /\ rows[i].no = i
        /\ i = 1 => rows[i].balance = 0 /\ rows[i].amount = 0
        /\ i > 1 => rows[i].balance = rows[i - 1].balance + rows[i].amount

LedgerChain ==
    \A a \in Accounts :
        /\ ChainHolds(ledger[a])
        /\ status[a] = "absent" <=> ledger[a] = <<>>

\* Commands are delivered more than once, to several workers and after a lost
\* reply to COMMIT: no operation id has two rows, and a row of a payment is in
\* the ledger of its own account, with its own amount.
AppliedOnce ==
    \A a \in Accounts :
        /\ \A i, j \in DOMAIN ledger[a] :
              ledger[a][i].op = ledger[a][j].op => i = j
        /\ \A i \in DOMAIN ledger[a] :
              i > 1 => /\ ledger[a][i].op \in Payments
                       /\ AccountOf[ledger[a][i].op] = a
                       /\ AmountOf[ledger[a][i].op] = ledger[a][i].amount

\* No committed balance is negative or larger than the column holds, though
\* the check is made on a balance read two statements before the insert.
BalanceInRange ==
    \A a \in Accounts : \A i \in DOMAIN ledger[a] :
        0 <= ledger[a][i].balance /\ ledger[a][i].balance <= MaxBalance

\* The row lock serialises the writers of a ledger: what has_ledger_operation
\* and find_last_ledger_entry returned still holds when the row is inserted,
\* so the unique constraints are never hit and nobody waits for them.
InsertIsFresh ==
    \A w \in Workers :
        pc[w] = "insert" => /\ ~Conflicts(ledger[Target(w)], row[w])
                            /\ ~AwaitsInsert(w)

\* A payment becomes visible only while its account is active: a change of
\* status that was committed after the check cannot be overtaken.
AppendsWhileActive ==
    [][\A a \in Accounts :
          Len(ledger[a]) > 0 /\ ledger'[a] # ledger[a]
              => status[a] = "active" /\ change[a] = "none"]_vars

\* A redelivered payment that is in the ledger already is held as rejected
\* only because its account takes no payments any more (the status is looked
\* at first), never for the money that it spent itself.
AppliedIsNotRefused ==
    [][\A w \in Workers :
          /\ pc[w] # "rejected" /\ pc'[w] = "rejected"
          /\ HasOperation(ledger[Target(w)], payment[w])
          => status[Target(w)] # "active"]_vars

\* The writer applies payments as AtomicLedger does, in one step.
Applied(rows) == {rows[i].op : i \in DOMAIN rows} \cap Payments
Balance(rows) == IF rows = <<>> THEN 0 ELSE LastEntry(rows).balance

Atomic == INSTANCE AtomicLedger WITH
              applied <- [a \in Accounts |-> Applied(ledger[a])],
              balance <- [a \in Accounts |-> Balance(ledger[a])]

ImplementsAtomicLedger == Atomic!Spec

\* Its readers see the follower of the highest row appear, one row at a time.
Entry(r) == [no |-> r.no, amount |-> r.amount, balance |-> r.balance]
Visible(rows) == {Entry(rows[i]) : i \in DOMAIN rows}

Readers == INSTANCE LedgerRows WITH
               Amounts <- {AmountOf[p] : p \in Payments},
               rows <- [a \in Accounts |-> Visible(ledger[a])]

ImplementsLedgerRows == Readers!Spec

=============================================================================
