------------------------ MODULE LedgerWriterProofs ------------------------
(***************************************************************************)
(* Proofs about LedgerWriter, for every set of accounts, payments and      *)
(* workers, every amount and every column width.                           *)
(*                                                                         *)
(* The invariants are not inductive as they stand: that a worker which is  *)
(* about to insert a row still holds the latest entry is true only because *)
(* it holds the row lock, so the strengthening says who holds which lock   *)
(* (LockInv) and what each worker knows about the ledger of the account it *)
(* has locked (WorkerInv).                                                 *)
(***************************************************************************)
EXTENDS LedgerWriter, FiniteSetTheorems, SequenceTheorems, TLAPS

-----------------------------------------------------------------------------
(* The strengthening.                                                      *)

\* A worker that is about to insert, or has inserted, has built a row.
InsertHasRow ==
    \A w \in Workers : pc[w] \in {"insert", "commit"} => row[w] \in Rows

\* A status change is pending exactly while an administrator holds the row, and
\* only on an account that is not deleted.
ChangeInv ==
    \A a \in Accounts :
        /\ change[a] # "none" <=> holder[a] = Admin
        /\ change[a] # "none" => status[a] \in {"active", "disabled"}

\* An account and its opening row are committed together.
NonEmptyWhenOpen ==
    \A a \in Accounts : status[a] = "absent" <=> ledger[a] = <<>>

\* Who holds a lock: the worker between its SELECT ... FOR UPDATE and the end
\* of its transaction, and nobody else; the account is active meanwhile.
LockInv ==
    /\ \A w \in Workers :
          pc[w] \in Locked => holder[Target(w)] = w /\ status[Target(w)] = "active"
    /\ \A a \in Accounts : \A w \in Workers :
          holder[a] = w => pc[w] \in Locked /\ Target(w) = a

TypeInv == TypeOK /\ InsertHasRow /\ ChangeInv /\ NonEmptyWhenOpen /\ LockInv

\* A ledger as the writers leave it.
GoodLedger(a, rows) ==
    /\ ChainHolds(rows)
    /\ \A i \in DOMAIN rows :
          /\ 0 <= rows[i].balance
          /\ rows[i].balance <= MaxBalance
          /\ i = 1 => rows[i].op = a
          /\ i > 1 => /\ rows[i].op \in Payments
                      /\ AccountOf[rows[i].op] = a
                      /\ AmountOf[rows[i].op] = rows[i].amount
    /\ \A i, j \in DOMAIN rows : rows[i].op = rows[j].op => i = j

LedgerInv == \A a \in Accounts : GoodLedger(a, ledger[a])

\* What a worker knows about the ledger it has locked.
WorkerInv ==
    \A w \in Workers :
        LET rows == ledger[Target(w)]
        IN  /\ pc[w] \in {"previous", "insert", "commit"} =>
                  OperationRows(rows, payment[w]) = {}
            /\ pc[w] \in {"insert", "commit"} =>
                  /\ row[w] = Follow(rows[Len(rows)], payment[w])
                  /\ row[w].balance >= 0
            /\ pc[w] = "commit" => row[w].balance <= MaxBalance

IInv == TypeInv /\ LedgerInv /\ WorkerInv

-----------------------------------------------------------------------------
(* The helpers on rows.                                                    *)

\* In a chained ledger the entry with the highest number, which
\* find_last_ledger_entry returns, is the one that was committed last.
LEMMA LastEntryIsLast ==
    ASSUME NEW rows \in Seq(Rows), rows # <<>>, ChainHolds(rows)
    PROVE  /\ LastEntry(rows) = rows[Len(rows)]
           /\ LastEntry(rows) \in Rows
<1> DEFINE P(i) == \A j \in DOMAIN rows : rows[j].no <= rows[i].no
             last == CHOOSE i \in DOMAIN rows : P(i)
<1>1. /\ Len(rows) \in Nat \ {0}
      /\ DOMAIN rows = 1 .. Len(rows)
      /\ \A i \in DOMAIN rows : rows[i] \in Rows
    BY EmptySeq, LenProperties, ElementOfSeq
<1>2. \A i \in DOMAIN rows : rows[i].no = i
    BY DEF ChainHolds
<1>3. P(Len(rows))
    BY <1>1, <1>2
<1>4. \A i \in DOMAIN rows : P(i) => i = Len(rows)
    BY <1>1, <1>2
<1>5. last \in DOMAIN rows /\ P(last)
    <2>1. \E i \in DOMAIN rows : P(i)
        BY <1>1, <1>3
    <2> HIDE DEF P
    <2> QED
        BY <2>1
<1>6. last = Len(rows)
    BY <1>4, <1>5
<1>7. LastEntry(rows) = rows[last]
    BY DEF LastEntry
<1> QED
    <2>1. Len(rows) \in DOMAIN rows
        BY <1>1
    <2> HIDE DEF last, P
    <2> QED
        BY <1>1, <1>6, <1>7, <2>1

\* CustomerAccountLedger.follow builds a row of the table.
LEMMA FollowType ==
    ASSUME NEW r \in Rows, NEW p \in Payments
    PROVE  Follow(r, p) \in Rows
BY PaymentAssumption DEF Follow, Rows

-----------------------------------------------------------------------------
(* The invariant holds initially and every step preserves it.              *)

\* No account is open, no row is written and no lock is held at the start.
LEMMA IInvInit == Init => IInv
<1> SUFFICES ASSUME Init PROVE IInv
    OBVIOUS
<1>1. TypeOK
    <2>1. ledger \in [Accounts -> Seq(Rows)]
        BY EmptySeq DEF Init
    <2> QED
        BY <2>1 DEF Init, TypeOK, Steps
<1>2. InsertHasRow /\ ChangeInv /\ NonEmptyWhenOpen
    BY SentinelAssumption DEF Init, InsertHasRow, ChangeInv, NonEmptyWhenOpen
<1>3. LockInv
    BY SentinelAssumption DEF Init, LockInv, Locked
<1>4. LedgerInv
    <2>1. DOMAIN <<>> = {}
        OBVIOUS
    <2> QED
        BY <2>1 DEF Init, LedgerInv, GoodLedger, ChainHolds
<1>5. WorkerInv
    BY DEF Init, WorkerInv
<1> QED
    BY <1>1, <1>2, <1>3, <1>4, <1>5 DEF IInv, TypeInv

\* A transaction that ends without writing leaves the ledgers as they are and
\* gives up the locks of its worker only.
LEMMA EndStep ==
    ASSUME IInv, NEW w \in Workers, NEW o \in Outcomes, End(w, o)
    PROVE  IInv'
<1> USE DEF IInv, TypeInv, End, GoTo, Release
<1>1. TypeOK'
    BY DEF TypeOK, Outcomes, Steps
<1>2. InsertHasRow'
    BY DEF InsertHasRow, TypeOK, Outcomes
<1>3. ChangeInv'
    BY SentinelAssumption DEF ChangeInv, TypeOK
<1>4. NonEmptyWhenOpen'
    BY DEF NonEmptyWhenOpen
<1>5. LockInv'
    <2>1. ASSUME NEW v \in Workers, pc'[v] \in Locked
          PROVE  holder'[Target(v)'] = v /\ status'[Target(v)'] = "active"
        <3>1. v # w /\ pc[v] \in Locked
            BY <2>1 DEF TypeOK, Outcomes, Locked
        <3>2. Target(v) \in Accounts /\ Target(v)' = Target(v)
            BY PaymentAssumption DEF TypeOK, Target
        <3> QED
            BY <3>1, <3>2 DEF LockInv
    <2>2. ASSUME NEW a \in Accounts, NEW v \in Workers, holder'[a] = v
          PROVE  pc'[v] \in Locked /\ Target(v)' = a
        <3>1. v # w /\ holder[a] = v
            BY <2>2, SentinelAssumption DEF TypeOK
        <3> QED
            BY <3>1 DEF LockInv, Target, TypeOK
    <2> QED
        BY <2>1, <2>2 DEF LockInv
<1>6. LedgerInv'
    BY DEF LedgerInv
<1>7. WorkerInv'
    BY DEF WorkerInv, Target, TypeOK, Outcomes
<1> QED
    BY <1>1, <1>2, <1>3, <1>4, <1>5, <1>6, <1>7

\* The statements that only move a worker forward.
LEMMA MoveStep ==
    ASSUME IInv, NEW w \in Workers,
           \/ \E p \in Payments : Begin(w, p)
           \/ CheckDuplicate(w)
           \/ Insert(w)
           \/ Finish(w)
    PROVE  IInv'
<1> USE DEF IInv, TypeInv, Begin, CheckDuplicate, Insert, Finish, GoTo, adminVars
<1>0. /\ pc[w] \in Locked <=> pc'[w] \in Locked
      /\ pc[w] \in Locked => Target(w)' = Target(w)
      /\ \A v \in Workers \ {w} : pc'[v] = pc[v] /\ Target(v)' = Target(v)
      /\ \A v \in Workers : pc[v] \in Locked => payment'[v] = payment[v]
    BY DEF TypeOK, Locked, Outcomes, Target
<1>1. TypeOK'
    BY DEF TypeOK, Outcomes, Steps, Locked
<1>2. InsertHasRow'
    BY DEF InsertHasRow, TypeOK, Outcomes
<1>3. ChangeInv' /\ NonEmptyWhenOpen' /\ LedgerInv'
    BY DEF ChangeInv, NonEmptyWhenOpen, LedgerInv
<1>4. LockInv'
    BY <1>0 DEF LockInv
<1>5. WorkerInv'
    <2> SUFFICES ASSUME NEW v \in Workers
                 PROVE  LET rows == ledger[Target(v)]
                        IN  (/\ pc[v] \in {"previous", "insert", "commit"} =>
                                  OperationRows(rows, payment[v]) = {}
                             /\ pc[v] \in {"insert", "commit"} =>
                                  /\ row[v] = Follow(rows[Len(rows)], payment[v])
                                  /\ row[v].balance >= 0
                             /\ pc[v] = "commit" => row[v].balance <= MaxBalance)'
        BY DEF WorkerInv
    <2>1. CASE v # w
        BY <2>1, <1>0 DEF WorkerInv, Locked
    <2>2. CASE v = w /\ \E p \in Payments : Begin(w, p)
        BY <2>2 DEF TypeOK
    <2>3. CASE v = w /\ CheckDuplicate(w)
        BY <2>3 DEF TypeOK, HasOperation, Target
    <2>4. CASE v = w /\ Insert(w)
        <3>1. row[w].balance <= MaxBalance
            BY <2>4, PaymentAssumption DEF InsertHasRow, Rows, Overflows
        <3> QED
            BY <2>4, <3>1 DEF TypeOK, Target, WorkerInv
    <2>5. CASE v = w /\ Finish(w)
        BY <2>5 DEF TypeOK
    <2> QED
        BY <2>1, <2>2, <2>3, <2>4, <2>5
<1> QED
    BY <1>1, <1>2, <1>3, <1>4, <1>5

\* SELECT ... FOR UPDATE returned an active account.
LEMMA LockStep ==
    ASSUME IInv, NEW w \in Workers, LockAccount(w)
    PROVE  IInv'
<1> USE DEF IInv, TypeInv, LockAccount, GoTo, TakeLock, LockFree, adminVars
<1>1. TypeOK'
    BY DEF TypeOK, Steps, Locked
<1>2. InsertHasRow' /\ NonEmptyWhenOpen' /\ LedgerInv'
    BY DEF InsertHasRow, NonEmptyWhenOpen, LedgerInv, TypeOK
<1>3. ChangeInv'
    BY SentinelAssumption DEF ChangeInv, TypeOK
<1>4. LockInv'
    BY SentinelAssumption, PaymentAssumption DEF LockInv, TypeOK, Locked, Target
<1>5. WorkerInv'
    BY DEF WorkerInv, Target, TypeOK
<1> QED
    BY <1>1, <1>2, <1>3, <1>4, <1>5

\* The entry the worker builds follows the last one of the locked ledger.
LEMMA ReadStep ==
    ASSUME IInv, NEW w \in Workers, ReadPrevious(w)
    PROVE  IInv'
<1> DEFINE rows == ledger[Target(w)]
           new == Follow(LastEntry(rows), payment[w])
<1> USE DEF IInv, TypeInv, GoTo, adminVars
<1>0. /\ pc[w] = "previous"
      /\ ~CannotFollow(rows, payment[w])
      /\ row' = [row EXCEPT ![w] = new]
      /\ pc' = [pc EXCEPT ![w] = "insert"]
      /\ UNCHANGED <<status, ledger, holder, change, payment>>
    BY DEF ReadPrevious
<1>1. /\ payment[w] \in Payments
      /\ Target(w) \in Accounts
      /\ rows \in Seq(Rows)
      /\ rows # <<>>
      /\ ChainHolds(rows)
    BY <1>0, PaymentAssumption
       DEF TypeOK, Target, CannotFollow, LedgerInv, GoodLedger
<1>2. /\ LastEntry(rows) = rows[Len(rows)]
      /\ LastEntry(rows) \in Rows
      /\ new \in Rows
    BY <1>1, LastEntryIsLast, FollowType
<1>3. new.balance >= 0
    BY <1>0, <1>1, <1>2, PaymentAssumption DEF CannotFollow, Follow, Rows
<1> HIDE DEF new, rows
<1>4. TypeOK'
    BY <1>0, <1>2 DEF TypeOK, Steps, Locked
<1>5. InsertHasRow'
    BY <1>0, <1>2 DEF InsertHasRow, TypeOK
<1>6. ChangeInv' /\ NonEmptyWhenOpen' /\ LedgerInv'
    BY <1>0 DEF ChangeInv, NonEmptyWhenOpen, LedgerInv
<1>7. LockInv'
    BY <1>0 DEF LockInv, Locked, Target, TypeOK
<1>8. WorkerInv'
    <2>1. new = Follow(rows[Len(rows)], payment[w])
        BY <1>2 DEF new
    <2> QED
        BY <1>0, <1>3, <2>1 DEF WorkerInv, Target, TypeOK, rows
<1> QED
    BY <1>4, <1>5, <1>6, <1>7, <1>8

\* Appending the follower of the last entry keeps a ledger good.
LEMMA AppendGood ==
    ASSUME NEW a \in Accounts, NEW rows \in Seq(Rows), rows # <<>>,
           GoodLedger(a, rows), NEW p \in Payments, AccountOf[p] = a,
           OperationRows(rows, p) = {},
           NEW r, r = Follow(rows[Len(rows)], p),
           r.balance >= 0, r.balance <= MaxBalance
    PROVE  /\ Append(rows, r) \in Seq(Rows)
           /\ Append(rows, r) # <<>>
           /\ GoodLedger(a, Append(rows, r))
<1> DEFINE new == Append(rows, r)
<1>1. /\ Len(rows) \in Nat \ {0}
      /\ DOMAIN rows = 1 .. Len(rows)
      /\ rows[Len(rows)] \in Rows
      /\ r \in Rows
    BY EmptySeq, LenProperties, ElementOfSeq, FollowType
<1>2. /\ new \in Seq(Rows)
      /\ Len(new) = Len(rows) + 1
      /\ DOMAIN new = 1 .. Len(rows) + 1
      /\ \A i \in 1 .. Len(rows) : new[i] = rows[i]
      /\ new[Len(rows) + 1] = r
    BY <1>1
<1>3. /\ r.no = rows[Len(rows)].no + 1
      /\ r.amount = AmountOf[p]
      /\ r.balance = rows[Len(rows)].balance + AmountOf[p]
      /\ r.op = p
    BY DEF Follow
<1> HIDE DEF new
<1>4. ChainHolds(new)
    <2> SUFFICES ASSUME NEW i \in DOMAIN new
                 PROVE  /\ new[i].no = i
                        /\ i = 1 => new[i].balance = 0 /\ new[i].amount = 0
                        /\ i > 1 => new[i].balance = new[i - 1].balance + new[i].amount
        BY DEF ChainHolds
    <2>1. CASE i \in 1 .. Len(rows)
        <3>1. i > 1 => i - 1 \in 1 .. Len(rows)
            BY <1>1, <2>1
        <3> QED
            BY <1>1, <1>2, <2>1, <3>1 DEF GoodLedger, ChainHolds
    <2>2. CASE i = Len(rows) + 1
        <3>1. rows[Len(rows)].no = Len(rows)
            BY <1>1 DEF GoodLedger, ChainHolds
        <3>2. i > 1 /\ i - 1 = Len(rows) /\ new[i - 1] = rows[Len(rows)]
            BY <1>1, <1>2, <2>2
        <3> QED
            BY <1>2, <1>3, <2>2, <3>1, <3>2
    <2> QED
        BY <1>1, <1>2, <2>1, <2>2
<1>5. \A i \in DOMAIN new :
          /\ 0 <= new[i].balance
          /\ new[i].balance <= MaxBalance
          /\ i = 1 => new[i].op = a
          /\ i > 1 => /\ new[i].op \in Payments
                      /\ AccountOf[new[i].op] = a
                      /\ AmountOf[new[i].op] = new[i].amount
    <2> TAKE i \in DOMAIN new
    <2>1. CASE i \in 1 .. Len(rows)
        BY <1>1, <1>2, <2>1 DEF GoodLedger
    <2>2. CASE i = Len(rows) + 1
        BY <1>1, <1>2, <1>3, <2>2
    <2> QED
        BY <1>1, <1>2, <2>1, <2>2
<1>6. \A i, j \in DOMAIN new : new[i].op = new[j].op => i = j
    BY <1>1, <1>2, <1>3 DEF GoodLedger, OperationRows
<1>7. new # <<>>
    BY <1>1, <1>2, EmptySeq
<1> QED
    BY <1>2, <1>4, <1>5, <1>6, <1>7 DEF GoodLedger, new

\* What a worker that commits knows, restated for the proofs below.
LEMMA CommitFacts ==
    ASSUME IInv, NEW w \in Workers, pc[w] = "commit"
    PROVE  LET a == Target(w)
               rows == ledger[a]
           IN  /\ payment[w] \in Payments /\ a \in Accounts
               /\ a = AccountOf[payment[w]]
               /\ holder[a] = w /\ status[a] = "active" /\ change[a] = "none"
               /\ rows \in Seq(Rows) /\ rows # <<>> /\ GoodLedger(a, rows)
               /\ OperationRows(rows, payment[w]) = {}
               /\ row[w] = Follow(rows[Len(rows)], payment[w])
               /\ row[w].balance >= 0 /\ row[w].balance <= MaxBalance
<1> USE DEF IInv, TypeInv
<1>1. /\ payment[w] \in Payments
      /\ Target(w) \in Accounts
      /\ Target(w) = AccountOf[payment[w]]
    BY PaymentAssumption DEF TypeOK, Target
<1>2. holder[Target(w)] = w /\ status[Target(w)] = "active"
    BY DEF LockInv, Locked
<1>3. change[Target(w)] = "none"
    BY <1>1, <1>2, SentinelAssumption DEF ChangeInv
<1>4. /\ ledger[Target(w)] \in Seq(Rows)
      /\ ledger[Target(w)] # <<>>
      /\ GoodLedger(Target(w), ledger[Target(w)])
    BY <1>1, <1>2 DEF TypeOK, NonEmptyWhenOpen, LedgerInv
<1>5. /\ OperationRows(ledger[Target(w)], payment[w]) = {}
      /\ row[w] = Follow(ledger[Target(w)][Len(ledger[Target(w)])], payment[w])
      /\ row[w].balance >= 0
      /\ row[w].balance <= MaxBalance
    BY DEF WorkerInv
<1> QED
    BY <1>1, <1>2, <1>3, <1>4, <1>5

\* COMMIT makes the row visible: no other worker knows anything about this
\* ledger, because the committing worker holds its lock.
LEMMA CommitStep ==
    ASSUME IInv, NEW w \in Workers, NEW o \in Outcomes, Commit(w, o)
    PROVE  IInv'
<1> DEFINE a == Target(w)
           new == Append(ledger[a], row[w])
<1>0. /\ pc[w] = "commit"
      /\ ledger' = [ledger EXCEPT ![a] = new]
      /\ pc' = [pc EXCEPT ![w] = o]
      /\ holder' = [b \in Accounts |-> IF holder[b] = w THEN Nobody ELSE holder[b]]
      /\ row' = [row EXCEPT ![w] = NoRow]
      /\ UNCHANGED <<status, change, payment>>
    <2>1. a \in Accounts /\ ledger \in [Accounts -> Seq(Rows)]
        BY PaymentAssumption DEF IInv, TypeInv, TypeOK, Target
    <2> QED
        BY <2>1 DEF Commit, GoTo, Release, adminVars
<1>1. /\ a \in Accounts
      /\ holder[a] = w /\ status[a] = "active" /\ change[a] = "none"
      /\ new \in Seq(Rows) /\ new # <<>> /\ GoodLedger(a, new)
    <2>1. /\ payment[w] \in Payments /\ a \in Accounts
          /\ a = AccountOf[payment[w]]
          /\ holder[a] = w /\ status[a] = "active" /\ change[a] = "none"
          /\ ledger[a] \in Seq(Rows) /\ ledger[a] # <<>> /\ GoodLedger(a, ledger[a])
          /\ OperationRows(ledger[a], payment[w]) = {}
          /\ row[w] = Follow(ledger[a][Len(ledger[a])], payment[w])
          /\ row[w].balance >= 0 /\ row[w].balance <= MaxBalance
        BY <1>0, CommitFacts
    <2> HIDE DEF a
    <2> QED
        BY <2>1, AppendGood
<1>2. \A v \in Workers \ {w} : pc[v] \in Locked => Target(v) # a
    BY <1>1 DEF IInv, TypeInv, LockInv
<1> HIDE DEF a, new
<1> USE DEF IInv, TypeInv
<1>3. TypeOK'
    BY <1>0, <1>1 DEF TypeOK, Outcomes, Steps
<1>4. InsertHasRow'
    BY <1>0 DEF InsertHasRow, TypeOK, Outcomes
<1>5. ChangeInv'
    BY <1>0, SentinelAssumption DEF ChangeInv, TypeOK
<1>6. NonEmptyWhenOpen' /\ LedgerInv'
    BY <1>0, <1>1 DEF NonEmptyWhenOpen, LedgerInv, TypeOK
<1>7. LockInv'
    <2>1. ASSUME NEW v \in Workers, pc'[v] \in Locked
          PROVE  holder'[Target(v)'] = v /\ status'[Target(v)'] = "active"
        <3>1. v # w /\ pc[v] \in Locked
            BY <1>0, <2>1 DEF TypeOK, Outcomes, Locked
        <3>2. Target(v) \in Accounts /\ Target(v)' = Target(v)
            BY <1>0, PaymentAssumption DEF TypeOK, Target
        <3> QED
            BY <1>0, <3>1, <3>2 DEF LockInv
    <2>2. ASSUME NEW b \in Accounts, NEW v \in Workers, holder'[b] = v
          PROVE  pc'[v] \in Locked /\ Target(v)' = b
        <3>1. v # w /\ holder[b] = v
            BY <1>0, <2>2, SentinelAssumption DEF TypeOK
        <3> QED
            BY <1>0, <3>1 DEF LockInv, Target, TypeOK
    <2> QED
        BY <2>1, <2>2 DEF LockInv
<1>8. WorkerInv'
    <2>1. ASSUME NEW v \in Workers, pc'[v] \in Locked
          PROVE  /\ pc'[v] = pc[v] /\ payment'[v] = payment[v] /\ row'[v] = row[v]
                 /\ ledger'[Target(v)'] = ledger[Target(v)]
        <3>1. v # w /\ pc[v] \in Locked /\ pc'[v] = pc[v]
            BY <1>0, <2>1 DEF TypeOK, Outcomes, Locked
        <3>2. Target(v) \in Accounts /\ Target(v) # a
            BY <1>2, <3>1, PaymentAssumption DEF TypeOK, Target
        <3> QED
            BY <1>0, <1>1, <3>1, <3>2 DEF TypeOK, Target
    <2> QED
        BY <2>1 DEF WorkerInv, Locked
<1> QED
    BY <1>3, <1>4, <1>5, <1>6, <1>7, <1>8

\* A ledger as create_customer_account opens it.
LEMMA OpeningGood ==
    ASSUME NEW a \in Accounts
    PROVE  /\ <<OpeningRow(a)>> \in Seq(Rows)
           /\ <<OpeningRow(a)>> # <<>>
           /\ GoodLedger(a, <<OpeningRow(a)>>)
<1>1. OpeningRow(a) \in Rows
    BY DEF OpeningRow, Rows
<1>2. DOMAIN <<OpeningRow(a)>> = {1}
    OBVIOUS
<1>3. <<OpeningRow(a)>>[1] = OpeningRow(a)
    OBVIOUS
<1>4. GoodLedger(a, <<OpeningRow(a)>>)
    BY <1>2, <1>3, PaymentAssumption DEF GoodLedger, ChainHolds, OpeningRow
<1> QED
    BY <1>1, <1>4

\* The administrative transactions.
LEMMA AdminStep ==
    ASSUME IInv, AdminNext
    PROVE  IInv'
<1> USE DEF IInv, TypeInv
<1> PICK a \in Accounts : \/ OpenAccount(a)
                          \/ \E s \in Statuses : WriteStatus(a, s)
                          \/ CommitStatus(a)
                          \/ RollbackStatus(a)
    BY DEF AdminNext
<1>1. UNCHANGED workerVars
    BY DEF OpenAccount, WriteStatus, CommitStatus, RollbackStatus
<1>2. \A v \in Workers : Target(v) \in Accounts /\ Target(v)' = Target(v)
    BY <1>1, PaymentAssumption DEF TypeOK, Target, workerVars
<1>3. CASE OpenAccount(a)
    <2> DEFINE new == <<OpeningRow(a)>>
    <2>1. /\ status[a] = "absent"
          /\ status' = [status EXCEPT ![a] = "active"]
          /\ ledger' = [ledger EXCEPT ![a] = new]
          /\ UNCHANGED <<holder, change, pc, payment, row>>
        BY <1>3 DEF OpenAccount, workerVars
    <2>2. new \in Seq(Rows) /\ new # <<>> /\ GoodLedger(a, new)
        BY OpeningGood
    <2> HIDE DEF new
    <2>3. \A v \in Workers : pc[v] \in Locked => Target(v) # a
        BY <2>1 DEF LockInv
    <2>4. TypeOK'
        BY <2>1, <2>2 DEF TypeOK, Statuses
    <2>5. InsertHasRow' /\ ChangeInv' /\ NonEmptyWhenOpen' /\ LedgerInv'
        BY <2>1, <2>2 DEF InsertHasRow, ChangeInv, NonEmptyWhenOpen, LedgerInv, TypeOK
    <2>6. LockInv'
        BY <1>2, <2>1, <2>3 DEF LockInv, TypeOK
    <2>7. WorkerInv'
        BY <1>2, <2>1, <2>3 DEF WorkerInv, TypeOK, Locked
    <2> QED
        BY <2>4, <2>5, <2>6, <2>7
<1>4. CASE \/ \E s \in Statuses : WriteStatus(a, s)
           \/ CommitStatus(a)
           \/ RollbackStatus(a)
    <2> USE <1>4 DEF WriteStatus, CommitStatus, RollbackStatus, TakeLock, LockFree,
                     workerVars
    <2>1. TypeOK'
        BY DEF TypeOK, ChangeInv
    <2>2. ChangeInv'
        BY SentinelAssumption DEF ChangeInv, TypeOK, Statuses
    <2>3. NonEmptyWhenOpen'
        BY DEF NonEmptyWhenOpen, ChangeInv, TypeOK, Statuses
    <2>4. InsertHasRow' /\ LedgerInv'
        BY DEF InsertHasRow, LedgerInv
    <2>5. LockInv'
        <3>1. \A v \in Workers : pc[v] \in Locked => Target(v) # a
            BY SentinelAssumption DEF LockInv
        <3>2. \A v \in Workers : holder'[a] # v
            BY SentinelAssumption DEF TypeOK
        <3>3. \A b \in Accounts \ {a} : holder'[b] = holder[b] /\ status'[b] = status[b]
            BY DEF TypeOK
        <3> QED
            BY <1>1, <1>2, <3>1, <3>2, <3>3 DEF LockInv
    <2>6. WorkerInv'
        BY <1>1, <1>2 DEF WorkerInv, TypeOK
    <2> QED
        BY <2>1, <2>2, <2>3, <2>4, <2>5, <2>6
<1> QED
    BY <1>3, <1>4

\* Every statement of the handler and every administrative step preserves the
\* strengthening.
LEMMA IInvStep == IInv /\ [Next]_vars => IInv'
<1> SUFFICES ASSUME IInv, [Next]_vars PROVE IInv'
    OBVIOUS
<1>1. CASE AdminNext
    BY <1>1, AdminStep
<1>2. ASSUME NEW w \in Workers, \E p \in Payments : Begin(w, p) PROVE IInv'
    BY <1>2, MoveStep
<1>3. ASSUME NEW w \in Workers, Handle(w) PROVE IInv'
    <2>1. CASE \/ UnknownAccount(w) \/ RejectInactive(w) \/ SkipDuplicate(w)
               \/ RejectPayment(w) \/ FailInsert(w)
        <3>1. \E o \in Outcomes : End(w, o)
            BY <2>1 DEF UnknownAccount, RejectInactive, SkipDuplicate,
                        RejectPayment, FailInsert, Outcomes
        <3> QED
            BY <3>1, EndStep
    <2>2. CASE CheckDuplicate(w) \/ Insert(w)
        BY <2>2, MoveStep
    <2>3. CASE LockAccount(w)
        BY <2>3, LockStep
    <2>4. CASE ReadPrevious(w)
        BY <2>4, ReadStep
    <2>5. CASE Commit(w, "done")
        BY <2>5, CommitStep DEF Outcomes
    <2> QED
        BY <1>3, <2>1, <2>2, <2>3, <2>4, <2>5 DEF Handle
<1>4. ASSUME NEW w \in Workers, Disturb(w) PROVE IInv'
    <2>1. CASE Commit(w, "failed")
        BY <2>1, CommitStep DEF Outcomes
    <2>2. CASE Abort(w)
        BY <2>2, EndStep DEF Abort, Outcomes
    <2> QED
        BY <1>4, <2>1, <2>2 DEF Disturb
<1>5. ASSUME NEW w \in Workers, Finish(w) PROVE IInv'
    BY <1>5, MoveStep
<1>6. CASE UNCHANGED vars
    BY <1>6 DEF vars, IInv, TypeInv, TypeOK, InsertHasRow, ChangeInv,
                NonEmptyWhenOpen, LockInv, LedgerInv, WorkerInv, Target
<1> QED
    BY <1>1, <1>2, <1>3, <1>4, <1>5, <1>6 DEF Next, WorkerNext

\* The strengthening is an invariant of every behaviour.
THEOREM Invariance == Spec => []IInv
BY IInvInit, IInvStep, PTL DEF Spec

-----------------------------------------------------------------------------
(* The properties that the model checker checks on one instance.           *)

\* Every variable of the writers keeps its type.
THEOREM TypeCorrect == Spec => []TypeOK
<1>1. IInv => TypeOK
    BY DEF IInv, TypeInv
<1> QED
    BY <1>1, Invariance, PTL

\* The chain of on_create_payment: rows become visible in the order of their
\* numbers, dense from 1, and every balance follows from the one before.
THEOREM ChainCorrect == Spec => []LedgerChain
<1>1. IInv => LedgerChain
    BY DEF IInv, TypeInv, NonEmptyWhenOpen, LedgerInv, GoodLedger, LedgerChain
<1> QED
    BY <1>1, Invariance, PTL

\* A redelivered payment has one row at most, in the ledger of its account.
THEOREM AppliedOnceCorrect == Spec => []AppliedOnce
<1>1. IInv => AppliedOnce
    BY DEF IInv, LedgerInv, GoodLedger, AppliedOnce
<1> QED
    BY <1>1, Invariance, PTL

\* No committed balance is negative or wider than its column.
THEOREM BalanceCorrect == Spec => []BalanceInRange
<1>1. IInv => BalanceInRange
    BY DEF IInv, LedgerInv, GoodLedger, BalanceInRange
<1> QED
    BY <1>1, Invariance, PTL

\* What a worker read under the row lock still holds when it inserts: neither
\* the primary key nor the unique constraint is ever hit.
THEOREM InsertCorrect == Spec => []InsertIsFresh
<1>1. IInv => InsertIsFresh
    <2> SUFFICES ASSUME IInv, NEW w \in Workers, pc[w] = "insert"
                 PROVE  ~Conflicts(ledger[Target(w)], row[w]) /\ ~AwaitsInsert(w)
        BY DEF InsertIsFresh
    <2> DEFINE a == Target(w)
               rows == ledger[a]
    <2>1. a \in Accounts /\ holder[a] = w /\ status[a] = "active"
        BY PaymentAssumption DEF IInv, TypeInv, TypeOK, LockInv, Locked, Target
    <2>2. rows \in Seq(Rows) /\ rows # <<>> /\ ChainHolds(rows)
        BY <2>1 DEF IInv, TypeInv, TypeOK, NonEmptyWhenOpen, LedgerInv, GoodLedger
    <2>3. /\ OperationRows(rows, payment[w]) = {}
          /\ row[w] = Follow(rows[Len(rows)], payment[w])
        BY DEF IInv, WorkerInv
    <2>4. row[w].no = Len(rows) + 1 /\ row[w].op = payment[w]
        <3>1. rows[Len(rows)].no = Len(rows)
            BY <2>2, EmptySeq, LenProperties DEF ChainHolds
        <3> QED
            BY <2>3, <3>1 DEF Follow
    <2>5. \A i \in DOMAIN rows : rows[i].no # row[w].no
        BY <2>2, <2>4, LenProperties DEF ChainHolds
    <2>6. ~Conflicts(rows, row[w])
        BY <2>3, <2>4, <2>5 DEF Conflicts
    <2>7. ~AwaitsInsert(w)
        BY <2>1 DEF AwaitsInsert, IInv, TypeInv, LockInv, Locked
    <2> QED
        BY <2>6, <2>7
<1> QED
    BY <1>1, Invariance, PTL

\* No payment becomes visible once a change of status is committed, and none
\* while one is under way: the check of the status is never overtaken.
THEOREM AppendsWhileActiveCorrect == Spec => AppendsWhileActive
<1> DEFINE Quiet == \A a \in Accounts :
                       Len(ledger[a]) > 0 /\ ledger'[a] # ledger[a]
                           => status[a] = "active" /\ change[a] = "none"
<1>1. IInv /\ [Next]_vars => [Quiet]_vars
    <2> SUFFICES ASSUME IInv, Next, NEW a \in Accounts,
                        Len(ledger[a]) > 0, ledger'[a] # ledger[a]
                 PROVE  status[a] = "active" /\ change[a] = "none"
        BY DEF vars
    <2>1. CASE AdminNext
        <3>1. PICK b \in Accounts : OpenAccount(b)
            BY <2>1 DEF AdminNext, WriteStatus, CommitStatus, RollbackStatus
        <3>2. b = a /\ status[a] = "absent"
            BY <3>1 DEF OpenAccount, IInv, TypeInv, TypeOK
        <3>3. Len(ledger[a]) = 0
            BY <3>2, EmptySeq DEF IInv, TypeInv, NonEmptyWhenOpen
        <3> QED
            BY <3>3
    <2>2. CASE WorkerNext
        <3>1. PICK w \in Workers : Commit(w, "done") \/ Commit(w, "failed")
            BY <2>2 DEF WorkerNext, Begin, Handle, Disturb, Finish, UnknownAccount,
                        RejectInactive, LockAccount, SkipDuplicate, CheckDuplicate,
                        RejectPayment, ReadPrevious, Insert, FailInsert, Abort, End
        <3>2. pc[w] = "commit" /\ Target(w) = a
            BY <3>1 DEF Commit, IInv, TypeInv, TypeOK
        <3> QED
            BY <3>2, CommitFacts
    <2> QED
        BY <2>1, <2>2 DEF Next
<1> QED
    BY <1>1, Invariance, PTL DEF Spec, AppendsWhileActive

\* A payment that is in the ledger is rejected for the status of its account
\* only: a worker that gets as far as the funds check has seen, and still
\* sees, no row of its payment.
THEOREM AppliedIsNotRefusedCorrect == Spec => AppliedIsNotRefused
<1> DEFINE Fair == \A w \in Workers :
                      /\ pc[w] # "rejected" /\ pc'[w] = "rejected"
                      /\ HasOperation(ledger[Target(w)], payment[w])
                      => status[Target(w)] # "active"
<1>1. IInv /\ [Next]_vars => [Fair]_vars
    <2> SUFFICES ASSUME IInv, Next, NEW w \in Workers,
                        pc[w] # "rejected", pc'[w] = "rejected",
                        HasOperation(ledger[Target(w)], payment[w])
                 PROVE  status[Target(w)] # "active"
        BY DEF vars
    <2>1. RejectInactive(w) \/ RejectPayment(w)
        <3>1. PICK v \in Workers : \/ \E p \in Payments : Begin(v, p)
                                  \/ Handle(v)
                                  \/ Disturb(v)
                                  \/ Finish(v)
            BY DEF Next, AdminNext, OpenAccount, WriteStatus, CommitStatus,
                   RollbackStatus, workerVars, WorkerNext
        <3>2. \E step \in Steps : pc' = [pc EXCEPT ![v] = step]
            BY <3>1 DEF Begin, Handle, Disturb, Finish, UnknownAccount, RejectInactive,
                        LockAccount, SkipDuplicate, CheckDuplicate, RejectPayment,
                        ReadPrevious, Insert, FailInsert, Commit, Abort, End, GoTo,
                        Steps, Locked, Outcomes
        <3>3. v = w
            BY <3>2 DEF IInv, TypeInv, TypeOK
        <3>4. ~RejectInactive(v) /\ ~RejectPayment(v) => pc'[v] # "rejected"
            BY <3>1 DEF IInv, TypeInv, TypeOK, Begin, Handle, Disturb, Finish,
                        UnknownAccount, LockAccount, SkipDuplicate, CheckDuplicate,
                        ReadPrevious, Insert, FailInsert, Commit, Abort, End, GoTo
        <3> QED
            BY <3>3, <3>4
    <2>2. CASE RejectInactive(w)
        BY <2>2 DEF RejectInactive
    <2>3. CASE RejectPayment(w)
        BY <2>3 DEF RejectPayment, HasOperation, IInv, WorkerInv
    <2> QED
        BY <2>1, <2>2, <2>3
<1> QED
    BY <1>1, Invariance, PTL DEF Spec, AppliedIsNotRefused

-----------------------------------------------------------------------------
(* The writers implement AtomicLedger.                                     *)

\* What appending a row means to the abstract account.
LEMMA AppendApplies ==
    ASSUME NEW a \in Accounts, NEW rows \in Seq(Rows), rows # <<>>,
           GoodLedger(a, rows), NEW p \in Payments, AccountOf[p] = a,
           OperationRows(rows, p) = {},
           NEW r, r = Follow(rows[Len(rows)], p),
           r.balance >= 0, r.balance <= MaxBalance
    PROVE  /\ Applied(Append(rows, r)) = Applied(rows) \cup {p}
           /\ p \notin Applied(rows)
           /\ Balance(Append(rows, r)) = Balance(rows) + AmountOf[p]
           /\ Balance(Append(rows, r)) = r.balance
<1> DEFINE new == Append(rows, r)
<1>1. /\ Len(rows) \in Nat \ {0}
      /\ DOMAIN rows = 1 .. Len(rows)
      /\ rows[Len(rows)] \in Rows
      /\ r \in Rows
    BY EmptySeq, LenProperties, ElementOfSeq, FollowType
<1>2. /\ new \in Seq(Rows) /\ new # <<>> /\ GoodLedger(a, new)
      /\ Len(new) = Len(rows) + 1
      /\ DOMAIN new = 1 .. Len(rows) + 1
      /\ \A i \in 1 .. Len(rows) : new[i] = rows[i]
      /\ new[Len(new)] = r
    BY <1>1, AppendGood
<1> HIDE DEF new
<1>3. r.op = p /\ r.balance = rows[Len(rows)].balance + AmountOf[p]
    BY DEF Follow
<1>4. Applied(new) = Applied(rows) \cup {p}
    <2>1. \A i \in DOMAIN new : i \in DOMAIN rows \/ i = Len(new)
        BY <1>1, <1>2
    <2>2. \A i \in DOMAIN rows : i \in DOMAIN new /\ new[i] = rows[i]
        BY <1>1, <1>2
    <2>3. Len(new) \in DOMAIN new /\ new[Len(new)].op = p
        BY <1>1, <1>2, <1>3
    <2> QED
        BY <2>1, <2>2, <2>3 DEF Applied
<1>5. p \notin Applied(rows)
    BY DEF Applied, OperationRows
<1>6. Balance(rows) = rows[Len(rows)].balance
    BY LastEntryIsLast DEF Balance, GoodLedger
<1>7. Balance(new) = r.balance
    BY <1>2, LastEntryIsLast DEF Balance, GoodLedger
<1> QED
    BY <1>3, <1>4, <1>5, <1>6, <1>7 DEF new

\* A ledger that was just opened has no payment and no money.
LEMMA OpeningIsEmpty ==
    ASSUME NEW a \in Accounts
    PROVE  /\ Applied(<<OpeningRow(a)>>) = {}
           /\ Balance(<<OpeningRow(a)>>) = 0
<1> DEFINE rows == <<OpeningRow(a)>>
<1>1. DOMAIN rows = {1} /\ rows[1] = OpeningRow(a) /\ Len(rows) = 1
    OBVIOUS
<1>2. rows \in Seq(Rows) /\ rows # <<>> /\ ChainHolds(rows)
    BY OpeningGood DEF GoodLedger
<1> HIDE DEF rows
<1>3. Applied(rows) = {}
    BY <1>1, PaymentAssumption DEF Applied, OpeningRow
<1>4. Balance(rows) = 0
    BY <1>1, <1>2, LastEntryIsLast DEF Balance, OpeningRow
<1> QED
    BY <1>3, <1>4 DEF rows

\* Accounts that are absent are empty accounts of AtomicLedger.
LEMMA AtomicInit == Init => Atomic!Init
<1> SUFFICES ASSUME Init PROVE Atomic!Init
    OBVIOUS
<1>1. Applied(<<>>) = {} /\ Balance(<<>>) = 0
    BY DEF Applied, Balance
<1> QED
    BY <1>1 DEF Init, Atomic!Init

\* Only OpenAccount, CommitStatus and Commit are visible to AtomicLedger: they
\* are its Open, ChangeStatus and Apply; every other step stutters.
LEMMA AtomicStep == IInv /\ [Next]_vars => [Atomic!Next]_(Atomic!vars)
<1> SUFFICES ASSUME IInv, [Next]_vars PROVE [Atomic!Next]_(Atomic!vars)
    OBVIOUS
<1>0. status \in [Accounts -> Statuses \cup {"absent"}]
      /\ ledger \in [Accounts -> Seq(Rows)]
    BY DEF IInv, TypeInv, TypeOK
<1>1. ASSUME UNCHANGED <<status, ledger>> PROVE UNCHANGED Atomic!vars
    BY <1>1 DEF Atomic!vars
<1>2. ASSUME NEW a \in Accounts, OpenAccount(a) PROVE Atomic!Open(a)
    <2> DEFINE new == <<OpeningRow(a)>>
    <2>1. ledger' = [ledger EXCEPT ![a] = new]
        BY <1>2 DEF OpenAccount
    <2>2. Applied(ledger[a]) = {} /\ Balance(ledger[a]) = 0
        <3>1. ledger[a] = <<>>
            BY <1>2 DEF OpenAccount, IInv, TypeInv, NonEmptyWhenOpen
        <3> QED
            BY <3>1 DEF Applied, Balance
    <2>3. Applied(new) = {} /\ Balance(new) = 0
        BY OpeningIsEmpty
    <2> HIDE DEF new
    <2>4. \A b \in Accounts : /\ Applied(ledger'[b]) = Applied(ledger[b])
                              /\ Balance(ledger'[b]) = Balance(ledger[b])
        BY <1>0, <2>1, <2>2, <2>3
    <2>5. /\ [b \in Accounts |-> Applied(ledger'[b])] = [b \in Accounts |-> Applied(ledger[b])]
          /\ [b \in Accounts |-> Balance(ledger'[b])] = [b \in Accounts |-> Balance(ledger[b])]
        BY <2>4
    <2> QED
        BY <1>2, <2>5 DEF OpenAccount, Atomic!Open
<1>3. ASSUME NEW a \in Accounts, CommitStatus(a)
      PROVE  \E s \in Statuses : Atomic!ChangeStatus(a, s)
    <2>1. change[a] \in Statuses /\ status[a] \in {"active", "disabled"}
        BY <1>3, SentinelAssumption
           DEF CommitStatus, IInv, TypeInv, TypeOK, ChangeInv
    <2>2. Atomic!ChangeStatus(a, change[a])
        BY <1>3, <2>1 DEF CommitStatus, Atomic!ChangeStatus
    <2> QED
        BY <2>1, <2>2
<1>4. ASSUME NEW w \in Workers, NEW o \in Outcomes, Commit(w, o)
      PROVE  Atomic!Apply(payment[w])
    <2> DEFINE p == payment[w]
               a == AccountOf[p]
               new == Append(ledger[a], row[w])
    <2>1. /\ p \in Payments /\ a \in Accounts /\ a = Target(w)
          /\ status[a] = "active"
          /\ ledger[a] \in Seq(Rows) /\ ledger[a] # <<>> /\ GoodLedger(a, ledger[a])
          /\ OperationRows(ledger[a], p) = {}
          /\ row[w] = Follow(ledger[a][Len(ledger[a])], p)
          /\ row[w].balance >= 0 /\ row[w].balance <= MaxBalance
        BY <1>4, CommitFacts DEF Commit
    <2>2. ledger' = [ledger EXCEPT ![a] = new] /\ status' = status
        BY <1>0, <1>4, <2>1 DEF Commit, adminVars
    <2> HIDE DEF a, p
    <2>3. /\ Applied(new) = Applied(ledger[a]) \cup {p}
          /\ p \notin Applied(ledger[a])
          /\ Balance(new) = Balance(ledger[a]) + AmountOf[p]
          /\ Balance(new) = row[w].balance
        BY <2>1, AppendApplies DEF a
    <2> HIDE DEF new
    <2>4. \A b \in Accounts :
             /\ Applied(ledger'[b]) =
                   IF b = a THEN Applied(ledger[a]) \cup {p} ELSE Applied(ledger[b])
             /\ Balance(ledger'[b]) =
                   IF b = a THEN Balance(ledger[a]) + AmountOf[p] ELSE Balance(ledger[b])
        BY <1>0, <2>1, <2>2, <2>3
    <2> DEFINE app == [b \in Accounts |-> Applied(ledger[b])]
               bal == [b \in Accounts |-> Balance(ledger[b])]
    <2>5. /\ [b \in Accounts |-> Applied(ledger'[b])] = [app EXCEPT ![a] = app[a] \cup {p}]
          /\ [b \in Accounts |-> Balance(ledger'[b])] = [bal EXCEPT ![a] = bal[a] + AmountOf[p]]
          /\ app[a] = Applied(ledger[a]) /\ bal[a] = Balance(ledger[a])
        BY <2>1, <2>4
    <2>6. 0 <= bal[a] + AmountOf[p] /\ bal[a] + AmountOf[p] <= MaxBalance
        BY <2>1, <2>3, <2>5
    <2> QED
        BY <2>1, <2>2, <2>3, <2>5, <2>6 DEF Atomic!Apply, a, p
<1>5. CASE AdminNext
    <2> PICK a \in Accounts : \/ OpenAccount(a)
                              \/ \E s \in Statuses : WriteStatus(a, s)
                              \/ CommitStatus(a)
                              \/ RollbackStatus(a)
        BY <1>5 DEF AdminNext
    <2>1. CASE OpenAccount(a)
        BY <1>2, <2>1 DEF Atomic!Next
    <2>2. CASE CommitStatus(a)
        BY <1>3, <2>2 DEF Atomic!Next, Statuses
    <2>3. CASE RollbackStatus(a) \/ \E s \in Statuses : WriteStatus(a, s)
        BY <1>1, <2>3 DEF RollbackStatus, WriteStatus
    <2> QED
        BY <2>1, <2>2, <2>3
<1>6. CASE WorkerNext
    <2>1. CASE \E w \in Workers : Commit(w, "done") \/ Commit(w, "failed")
        <3>1. PICK w \in Workers : Commit(w, "done") \/ Commit(w, "failed")
            BY <2>1
        <3>2. payment[w] \in Payments
            BY DEF IInv, TypeInv, TypeOK
        <3> QED
            BY <1>4, <3>1, <3>2 DEF Atomic!Next, Outcomes
    <2>2. CASE ~ \E w \in Workers : Commit(w, "done") \/ Commit(w, "failed")
        <3>1. UNCHANGED <<status, ledger>>
            BY <1>6, <2>2
               DEF WorkerNext, Begin, Handle, Disturb, Finish, UnknownAccount,
                   RejectInactive, LockAccount, SkipDuplicate, CheckDuplicate,
                   RejectPayment, ReadPrevious, Insert, FailInsert, Abort, End,
                   adminVars
        <3> QED
            BY <1>1, <3>1
    <2> QED
        BY <2>1, <2>2
<1>7. CASE UNCHANGED vars
    BY <1>1, <1>7 DEF vars
<1> QED
    BY <1>5, <1>6, <1>7 DEF Next

\* Every behaviour of the concurrent writers is one of AtomicLedger: locks,
\* statements, redeliveries and lost replies are invisible to a reader of the
\* committed balances.
THEOREM Refinement == Spec => ImplementsAtomicLedger
BY Invariance, AtomicInit, AtomicStep, PTL DEF Spec, ImplementsAtomicLedger, Atomic!Spec

-----------------------------------------------------------------------------
(* Their readers see LedgerRows.                                           *)

\* The row of a payment that is appended is seen as the follower of the
\* highest row that was visible before.
LEMMA AppendIsSeen ==
    ASSUME NEW a \in Accounts, NEW rows \in Seq(Rows), rows # <<>>,
           GoodLedger(a, rows), NEW p \in Payments,
           NEW r, r = Follow(rows[Len(rows)], p)
    PROVE  \E last \in Visible(rows) :
              /\ \A s \in Visible(rows) : s.no <= last.no
              /\ Readers!Follower(last, AmountOf[p]).balance = r.balance
              /\ Visible(Append(rows, r)) =
                    Visible(rows) \cup {Readers!Follower(last, AmountOf[p])}
<1>1. /\ Len(rows) \in Nat \ {0}
      /\ DOMAIN rows = 1 .. Len(rows)
      /\ rows[Len(rows)] \in Rows
      /\ r \in Rows
    BY EmptySeq, LenProperties, ElementOfSeq, FollowType
<1>2. PICK last : last = Entry(rows[Len(rows)])
    OBVIOUS
<1>3. PICK next : next = Readers!Follower(last, AmountOf[p])
    OBVIOUS
<1>4. next = Entry(r) /\ next.balance = r.balance
    <2>1. /\ last.no = rows[Len(rows)].no
          /\ last.balance = rows[Len(rows)].balance
        BY <1>2 DEF Entry
    <2>2. /\ r.no = rows[Len(rows)].no + 1
          /\ r.amount = AmountOf[p]
          /\ r.balance = rows[Len(rows)].balance + AmountOf[p]
        BY DEF Follow
    <2> QED
        BY <1>3, <2>1, <2>2 DEF Readers!Follower, Entry
<1>5. last \in Visible(rows)
    BY <1>1, <1>2 DEF Visible
<1>6. \A s \in Visible(rows) : s.no <= last.no
    <2>1. \A i \in 1 .. Len(rows) : rows[i].no = i
        BY <1>1 DEF GoodLedger, ChainHolds
    <2>2. \A i \in 1 .. Len(rows) : Entry(rows[i]).no = i
        BY <2>1 DEF Entry
    <2>3. last.no = Len(rows)
        BY <1>1, <1>2, <2>2
    <2> QED
        BY <1>1, <2>2, <2>3 DEF Visible
<1>7. Visible(Append(rows, r)) = Visible(rows) \cup {next}
    <2>1. PICK new : new = Append(rows, r)
        OBVIOUS
    <2>2. /\ DOMAIN new = 1 .. Len(rows) + 1
          /\ \A i \in 1 .. Len(rows) : new[i] = rows[i]
          /\ new[Len(rows) + 1] = r
        BY <1>1, <2>1, AppendProperties
    <2>3. \A i \in DOMAIN new : i \in DOMAIN rows \/ i = Len(rows) + 1
        BY <1>1, <2>2
    <2>4. \A i \in DOMAIN rows : i \in DOMAIN new
        BY <1>1, <2>2
    <2>5. Len(rows) + 1 \in DOMAIN new
        BY <1>1, <2>2
    <2>6. Visible(new) = Visible(rows) \cup {next}
        BY <1>1, <1>4, <2>2, <2>3, <2>4, <2>5 DEF Visible
    <2> QED
        BY <2>1, <2>6
<1> QED
    BY <1>3, <1>4, <1>5, <1>6, <1>7

\* Only OpenAccount and Commit are visible to readers: they are Open and
\* Extend of LedgerRows; every other step stutters.
LEMMA ReadersStep == IInv /\ [Next]_vars => [Readers!Next]_([a \in Accounts |-> Visible(ledger[a])])
<1> SUFFICES ASSUME IInv, [Next]_vars
             PROVE  [Readers!Next]_([a \in Accounts |-> Visible(ledger[a])])
    OBVIOUS
<1> DEFINE seen == [b \in Accounts |-> Visible(ledger[b])]
<1>0. ledger \in [Accounts -> Seq(Rows)]
    BY DEF IInv, TypeInv, TypeOK
<1>1. ASSUME ledger' = ledger PROVE seen' = seen
    BY <1>1
<1>2. ASSUME NEW a \in Accounts, NEW new, ledger' = [ledger EXCEPT ![a] = new]
      PROVE  [b \in Accounts |-> Visible(ledger'[b])] = [seen EXCEPT ![a] = Visible(new)]
    <2>1. \A b \in Accounts :
             Visible(ledger'[b]) = IF b = a THEN Visible(new) ELSE Visible(ledger[b])
        BY <1>0, <1>2
    <2> QED
        BY <2>1
<1>3. ASSUME NEW a \in Accounts, OpenAccount(a) PROVE Readers!Open(a)
    <2>1. PICK new : new = <<OpeningRow(a)>>
        OBVIOUS
    <2>2. ledger' = [ledger EXCEPT ![a] = new] /\ ledger[a] = <<>>
        BY <1>3, <2>1 DEF OpenAccount, IInv, TypeInv, NonEmptyWhenOpen
    <2>3. Visible(ledger[a]) = {}
        BY <2>2 DEF Visible
    <2>4. Visible(new) = {Readers!Opening}
        <3>1. DOMAIN new = {1} /\ new[1] = OpeningRow(a)
            BY <2>1
        <3>2. Entry(OpeningRow(a)) = Readers!Opening
            BY DEF Entry, OpeningRow, Readers!Opening
        <3> QED
            BY <3>1, <3>2 DEF Visible
    <2> QED
        BY <1>2, <2>2, <2>3, <2>4 DEF Readers!Open
<1>4. ASSUME NEW w \in Workers, NEW o, Commit(w, o)
      PROVE  \E a \in Accounts : \E p \in Payments : Readers!Extend(a, AmountOf[p])
    <2>1. PICK p, a : p = payment[w] /\ a = Target(w)
        OBVIOUS
    <2>2. /\ p \in Payments /\ a \in Accounts
          /\ ledger[a] \in Seq(Rows) /\ ledger[a] # <<>> /\ GoodLedger(a, ledger[a])
          /\ row[w] = Follow(ledger[a][Len(ledger[a])], p)
          /\ row[w].balance >= 0 /\ row[w].balance <= MaxBalance
        BY <1>4, <2>1, CommitFacts DEF Commit
    <2>3. PICK new : new = Append(ledger[a], row[w])
        OBVIOUS
    <2>4. ledger' = [ledger EXCEPT ![a] = new]
        BY <1>4, <2>1, <2>3 DEF Commit
    <2>5. PICK last \in Visible(ledger[a]) :
             /\ \A s \in Visible(ledger[a]) : s.no <= last.no
             /\ Readers!Follower(last, AmountOf[p]).balance = row[w].balance
             /\ Visible(new) =
                   Visible(ledger[a]) \cup {Readers!Follower(last, AmountOf[p])}
        BY <2>2, <2>3, AppendIsSeen
    <2>6. row[w].balance \in 0 .. MaxBalance
        <3>1. row[w] \in Rows
            BY <1>4 DEF Commit, IInv, TypeInv, InsertHasRow
        <3> QED
            BY <2>2, <3>1, PaymentAssumption DEF Rows
    <2>7. Readers!Extend(a, AmountOf[p])
        BY <1>2, <2>2, <2>4, <2>5, <2>6 DEF Readers!Extend
    <2> QED
        BY <2>2, <2>7
<1>5. CASE AdminNext
    BY <1>1, <1>3, <1>5
       DEF AdminNext, WriteStatus, CommitStatus, RollbackStatus, Readers!Next
<1>6. CASE WorkerNext
    <2>1. CASE \E w \in Workers : Commit(w, "done") \/ Commit(w, "failed")
        BY <1>4, <2>1 DEF Readers!Next
    <2>2. CASE ~ \E w \in Workers : Commit(w, "done") \/ Commit(w, "failed")
        <3>1. ledger' = ledger
            BY <1>6, <2>2
               DEF WorkerNext, Begin, Handle, Disturb, Finish, UnknownAccount,
                   RejectInactive, LockAccount, SkipDuplicate, CheckDuplicate,
                   RejectPayment, ReadPrevious, Insert, FailInsert, Abort, End
        <3> QED
            BY <1>1, <3>1
    <2> QED
        BY <2>1, <2>2
<1>7. CASE UNCHANGED vars
    BY <1>1, <1>7 DEF vars
<1> QED
    BY <1>5, <1>6, <1>7 DEF Next

\* Whoever reads a ledger while any number of workers write to it sees rows
\* appear one at a time, each the follower of the highest one.
THEOREM RowsRefinement == Spec => ImplementsLedgerRows
<1>1. Init => Readers!Init
    <2>1. Visible(<<>>) = {}
        BY DEF Visible
    <2> QED
        BY <2>1 DEF Init, Readers!Init
<1> QED
    BY Invariance, <1>1, ReadersStep, PTL DEF Spec, ImplementsLedgerRows, Readers!Spec

-----------------------------------------------------------------------------
(* Money is neither made nor lost.                                         *)

\* sum[T] is the sum of the amounts of the payments in T, a finite set.
IsSum(sum) ==
    /\ sum[{}] = 0
    /\ \A T \in SUBSET Payments : \A p \in Payments \ T :
          IsFiniteSet(T) => sum[T \cup {p}] = sum[T] + AmountOf[p]

\* An account has what its payments have brought and taken, in whatever order.
BalanceIs(sum) ==
    \A a \in Accounts :
        /\ IsFiniteSet(Applied(ledger[a]))
        /\ Balance(ledger[a]) = sum[Applied(ledger[a])]

\* A step of the atomic ledger adds one payment and its amount, or neither.
LEMMA AtomicKeepsSum ==
    ASSUME NEW sum, IsSum(sum), BalanceIs(sum), [Atomic!Next]_(Atomic!vars)
    PROVE  BalanceIs(sum)'
<1> DEFINE applied == [a \in Accounts |-> Applied(ledger[a])]
           balance == [a \in Accounts |-> Balance(ledger[a])]
<1>1. BalanceIs(sum) <=> \A a \in Accounts :
          IsFiniteSet(applied[a]) /\ balance[a] = sum[applied[a]]
    BY DEF BalanceIs
<1>2. BalanceIs(sum)' <=> \A a \in Accounts :
          IsFiniteSet(applied'[a]) /\ balance'[a] = sum[applied'[a]]
    BY DEF BalanceIs
<1>3. ASSUME NEW p \in Payments, Atomic!Apply(p) PROVE BalanceIs(sum)'
    <2> DEFINE a == AccountOf[p]
    <2>1. /\ p \notin applied[a]
          /\ applied' = [applied EXCEPT ![a] = applied[a] \cup {p}]
          /\ balance' = [balance EXCEPT ![a] = balance[a] + AmountOf[p]]
        BY <1>3 DEF Atomic!Apply
    <2>2. DOMAIN applied = Accounts /\ DOMAIN balance = Accounts
        OBVIOUS
    <2>3. \A b \in Accounts : applied[b] \in SUBSET Payments
        BY DEF Applied
    <2>4. a \in Accounts
        BY PaymentAssumption
    <2> HIDE DEF applied, balance, a
    <2>5. /\ applied'[a] = applied[a] \cup {p}
          /\ balance'[a] = balance[a] + AmountOf[p]
          /\ \A b \in Accounts \ {a} : applied'[b] = applied[b] /\ balance'[b] = balance[b]
        BY <2>1, <2>2, <2>4
    <2>6. IsFiniteSet(applied[a]) /\ balance[a] = sum[applied[a]]
        BY <1>1, <2>4
    <2>7. sum[applied[a] \cup {p}] = sum[applied[a]] + AmountOf[p]
        BY <2>1, <2>3, <2>4, <2>6 DEF IsSum
    <2>8. IsFiniteSet(applied[a] \cup {p})
        BY <2>6, FS_AddElement
    <2> QED
        BY <1>1, <1>2, <2>5, <2>6, <2>7, <2>8
<1>4. CASE UNCHANGED <<applied, balance>>
    BY <1>1, <1>2, <1>4
<1> QED
    BY <1>3, <1>4 DEF Atomic!Next, Atomic!Open, Atomic!ChangeStatus, Atomic!vars

\* Whatever implements the atomic ledger makes no money and loses none.
LEMMA AtomicConserves ==
    ASSUME NEW CONSTANT sum, IsSum(sum)
    PROVE  ImplementsAtomicLedger => []BalanceIs(sum)
<1>1. Atomic!Init => BalanceIs(sum)
    <2> SUFFICES ASSUME Atomic!Init, NEW a \in Accounts
                 PROVE  IsFiniteSet(Applied(ledger[a])) /\ Balance(ledger[a]) = sum[Applied(ledger[a])]
        BY DEF BalanceIs
    <2>1. [b \in Accounts |-> Applied(ledger[b])][a] = {}
        BY DEF Atomic!Init
    <2>2. [b \in Accounts |-> Balance(ledger[b])][a] = 0
        BY DEF Atomic!Init
    <2> QED
        BY <2>1, <2>2, FS_EmptySet DEF IsSum
<1>2. BalanceIs(sum) /\ [Atomic!Next]_(Atomic!vars) => BalanceIs(sum)'
    BY AtomicKeepsSum
<1> QED
    BY <1>1, <1>2, PTL DEF ImplementsAtomicLedger, Atomic!Spec

\* The balance of the last row, which find_last_ledger_entry returns, is the sum
\* of the amounts of the payments that were applied, each counted once.
THEOREM MoneyConserved ==
    ASSUME NEW CONSTANT sum, IsSum(sum)
    PROVE  Spec => []BalanceIs(sum)
BY Refinement, AtomicConserves, PTL

=============================================================================
