------------------------- MODULE PaymentQueueProofs -------------------------
(***************************************************************************)
(* Proofs about PaymentQueue, for any number of payments, job rows,        *)
(* workers, attempts, crashes and stalled processes.                       *)
(*                                                                         *)
(* The transactions the queue runs are those of LedgerWriter, so every     *)
(* theorem of LedgerWriterProofs carries over.  What is proved on top of   *)
(* it rests on the strengthening QueueInv: a process runs its job with the *)
(* payment of it, though other processes may run the same job or have      *)
(* settled it; a handler that returned has its payment in the ledger; and  *)
(* a job cannot have more retries than there are processes left that were  *)
(* handed it early enough.                                                 *)
(***************************************************************************)
EXTENDS PaymentQueue, LedgerWriterProofs, FiniteSetTheorems

-----------------------------------------------------------------------------
(* The strengthening.                                                      *)

JobRows == [status : JobStatuses, payment : Payments, attempts : Nat]

QueueTypeOK ==
    /\ message \in [Payments -> Messages]
    /\ job \in [Jobs -> JobRows]
    /\ taken \in [Workers -> Jobs \cup {NoJob}]
    /\ handed \in [Workers -> Nat]
    /\ faults \in 0 .. MaxFaults
    /\ failures \in [Jobs -> Nat]

\* The job of a living process.
TakenInv ==
    \A w \in Workers :
        taken[w] # NoJob => /\ job[taken[w]].status # "none"
                            /\ payment[w] = job[taken[w]].payment

\* A message that was handled left a job behind.
MessageInv ==
    \A p \in Payments :
        message[p] \in {"handled", "acked"} =>
            \E j \in Jobs : job[j].payment = p /\ job[j].status # "none"

\* The processes that may yet put j back for another attempt.
Retriers(j) == {w \in Workers : taken[w] = j /\ handed[w] < MaxAttempts}

\* The attempts of j are failed executions; no process was handed more of them
\* than there are; and past the limit each one uses up one of the Retriers.
RetryOK(j) ==
    /\ \A w \in Workers : taken[w] = j => handed[w] <= job[j].attempts
    /\ job[j].attempts <= failures[j]
    /\ job[j].attempts >= MaxAttempts =>
          job[j].attempts + Cardinality(Retriers(j)) <= MaxAttempts + (Cardinality(Workers) - 1)

RetryInv == \A j \in Jobs : RetryOK(j)

\* A handler that returned has found or written the row of its payment.
ReturnedInv ==
    \A w \in Workers :
        pc[w] = "done" => payment[w] \in Applied(ledger[Target(w)])

QueueInv ==
    /\ IInv
    /\ QueueTypeOK
    /\ TakenInv
    /\ MessageInv
    /\ RetryInv
    /\ ReturnedInv
    /\ DoneMeansApplied

-----------------------------------------------------------------------------
(* The writers under the queue.                                            *)

\* Every step of the queue is a step of the writers or invisible to them.
LEMMA QueueStepsWrite ==
    ASSUME QueueTypeOK, QNext
    PROVE  [Next]_vars
<1>1. CASE Subscribers
    BY <1>1 DEF Subscribers, Publish, Enqueue, DeadLetter, Acknowledge, Redeliver
<1>2. CASE Consumers
    <2>1. PICK w \in Workers : \/ \E j \in Jobs : Pick(w, j) \/ PickStalled(w, j)
                               \/ Run(w)
                               \/ Settle(w)
                               \/ Crash(w)
                               \/ DropSession(w)
        BY <1>2 DEF Consumers
    <2>2. ASSUME NEW j \in Jobs, Pick(w, j) \/ PickStalled(w, j) PROVE Next
        <3>1. job[j].payment \in Payments
            BY DEF QueueTypeOK, JobRows
        <3> QED
            BY <2>2, <3>1 DEF Pick, PickStalled, HandOut, Next, WorkerNext
    <2>3. CASE Run(w)
        BY <2>3 DEF Run, Next, WorkerNext
    <2>4. CASE Settle(w)
        BY <2>4 DEF Settle, Next, WorkerNext
    <2>5. CASE Crash(w)
        BY <2>5 DEF Crash
    <2>6. CASE DropSession(w)
        BY <2>6 DEF DropSession, Next, WorkerNext, Handle, Disturb
    <2> QED
        BY <2>1, <2>2, <2>3, <2>4, <2>5, <2>6
<1>3. CASE Administer
    BY <1>3 DEF Administer, Next
<1> QED
    BY <1>1, <1>2, <1>3 DEF QNext

\* No row ever disappears from a ledger.
LEMMA AppliedGrows ==
    ASSUME IInv, [Next]_vars, NEW a \in Accounts
    PROVE  Applied(ledger[a]) \subseteq Applied(ledger'[a])
<1>0. ledger \in [Accounts -> Seq(Rows)]
    BY DEF IInv, TypeInv, TypeOK
<1>1. CASE ledger'[a] = ledger[a]
    BY <1>1
<1>2. ASSUME NEW b \in Accounts, OpenAccount(b), ledger'[a] # ledger[a]
      PROVE  Applied(ledger[a]) = {}
    <2>1. b = a /\ ledger[a] = <<>>
        BY <1>0, <1>2 DEF OpenAccount, IInv, TypeInv, NonEmptyWhenOpen
    <2> QED
        BY <2>1 DEF Applied
<1>3. ASSUME NEW w \in Workers, NEW o \in Outcomes, Commit(w, o), ledger'[a] # ledger[a]
      PROVE  Applied(ledger[a]) \subseteq Applied(ledger'[a])
    <2>1. a = Target(w) /\ ledger'[a] = Append(ledger[a], row[w])
        BY <1>0, <1>3 DEF Commit
    <2>2. ledger[a] \in Seq(Rows)
        BY <1>0
    <2>3. \A i \in DOMAIN ledger[a] :
             i \in DOMAIN ledger'[a] /\ ledger'[a][i] = ledger[a][i]
        BY <2>1, <2>2
    <2> QED
        BY <2>3 DEF Applied
<1>4. CASE Next /\ ledger'[a] # ledger[a]
    <2>1. \/ \E b \in Accounts : OpenAccount(b)
          \/ \E w \in Workers, o \in Outcomes : Commit(w, o)
        BY <1>4 DEF Next, AdminNext, WorkerNext, WriteStatus, CommitStatus,
                    RollbackStatus, Begin, Handle, Disturb, Finish, UnknownAccount,
                    RejectInactive, LockAccount, SkipDuplicate, CheckDuplicate,
                    RejectPayment, ReadPrevious, Insert, FailInsert, Abort, End,
                    Outcomes
    <2> QED
        BY <1>2, <1>3, <1>4, <2>1
<1> QED
    BY <1>1, <1>4 DEF vars

\* A handler returns when it has found its payment in the ledger or when it
\* has committed it.
LEMMA ReturnedStep ==
    ASSUME IInv, ReturnedInv, [Next]_vars
    PROVE  ReturnedInv'
<1> SUFFICES ASSUME NEW w \in Workers, pc'[w] = "done"
             PROVE  payment'[w] \in Applied(ledger'[Target(w)'])
    BY DEF ReturnedInv
<1>0. /\ pc \in [Workers -> Steps] /\ payment \in [Workers -> Payments]
      /\ ledger \in [Accounts -> Seq(Rows)]
      /\ Target(w) \in Accounts /\ payment[w] \in Payments
    BY PaymentAssumption DEF IInv, TypeInv, TypeOK, Target
<1>1. Applied(ledger[Target(w)]) \subseteq Applied(ledger'[Target(w)])
    BY <1>0, AppliedGrows
<1>2. CASE pc[w] = "done" /\ payment'[w] = payment[w]
    <2>1. Target(w)' = Target(w)
        BY <1>2 DEF Target
    <2> QED
        BY <1>1, <1>2, <2>1 DEF ReturnedInv
<1>3. CASE SkipDuplicate(w)
    <2>1. payment'[w] = payment[w] /\ Target(w)' = Target(w)
        BY <1>3 DEF SkipDuplicate, End, Target
    <2>2. payment[w] \in Applied(ledger[Target(w)])
        BY <1>0, <1>3 DEF SkipDuplicate, HasOperation, OperationRows, Applied
    <2> QED
        BY <1>1, <2>1, <2>2
<1>4. CASE Commit(w, "done")
    <2>1. payment'[w] = payment[w] /\ Target(w)' = Target(w)
        BY <1>4 DEF Commit, Target
    <2>2. ledger'[Target(w)] = Append(ledger[Target(w)], row[w])
        BY <1>0, <1>4 DEF Commit
    <2>3. row[w].op = payment[w]
        <3>1. pc[w] = "commit"
            BY <1>4 DEF Commit
        <3>2. row[w] = Follow(ledger[Target(w)][Len(ledger[Target(w)])], payment[w])
            BY <3>1, CommitFacts
        <3> QED
            BY <3>2 DEF Follow
    <2>4. payment[w] \in Applied(Append(ledger[Target(w)], row[w]))
        <3> DEFINE rows == ledger[Target(w)]
        <3>1. rows \in Seq(Rows) /\ row[w] \in Rows
            BY <1>0, <1>4 DEF Commit, IInv, TypeInv, InsertHasRow
        <3> HIDE DEF rows
        <3>2. /\ Len(rows) + 1 \in DOMAIN Append(rows, row[w])
              /\ Append(rows, row[w])[Len(rows) + 1] = row[w]
            BY <3>1
        <3>3. payment[w] \in Applied(Append(rows, row[w]))
            BY <1>0, <2>3, <3>2 DEF Applied
        <3> QED
            BY <3>3 DEF rows
    <2> QED
        BY <2>1, <2>2, <2>4
<1>5. \/ pc[w] = "done" /\ payment'[w] = payment[w]
      \/ SkipDuplicate(w)
      \/ Commit(w, "done")
    <2>1. CASE UNCHANGED vars \/ AdminNext
        BY <2>1 DEF vars, AdminNext, OpenAccount, WriteStatus, CommitStatus,
                    RollbackStatus, workerVars
    <2>2. CASE WorkerNext
        <3>1. PICK v \in Workers : \/ \E p \in Payments : Begin(v, p)
                                   \/ Handle(v)
                                   \/ Disturb(v)
                                   \/ Finish(v)
            BY <2>2 DEF WorkerNext
        <3>2. /\ \E step \in Steps : pc' = [pc EXCEPT ![v] = step]
              /\ payment' = payment \/ \E p \in Payments : payment' = [payment EXCEPT ![v] = p]
            BY <3>1 DEF Begin, Handle, Disturb, Finish, UnknownAccount, RejectInactive,
                        LockAccount, SkipDuplicate, CheckDuplicate, RejectPayment,
                        ReadPrevious, Insert, FailInsert, Commit, Abort, End, GoTo,
                        Steps, Locked, Outcomes
        <3>3. CASE v # w
            BY <1>0, <3>2, <3>3
        <3>4. CASE v = w
            BY <1>0, <3>1, <3>4
               DEF Begin, Handle, Disturb, Finish, UnknownAccount, RejectInactive,
                   LockAccount, CheckDuplicate, RejectPayment, ReadPrevious, Insert,
                   FailInsert, Commit, SkipDuplicate, Abort, End, GoTo
        <3> QED
            BY <3>3, <3>4
    <2> QED
        BY <2>1, <2>2 DEF Next
<1> QED
    BY <1>2, <1>3, <1>4, <1>5

-----------------------------------------------------------------------------
(* The queue.                                                              *)

\* The set of the Retriers is finite, and a smaller one counts less.
LEMMA RetriersFinite ==
    ASSUME NEW S, S \subseteq Workers, NEW R, R \subseteq S
    PROVE  /\ Cardinality(S) \in Nat /\ Cardinality(R) \in Nat
           /\ Cardinality(R) <= Cardinality(S)
<1>1. IsFiniteSet(Workers)
    BY QueueAssumption
<1>2. IsFiniteSet(S)
    BY <1>1, FS_Subset
<1>3. IsFiniteSet(R) /\ Cardinality(R) <= Cardinality(S)
    BY <1>2, FS_Subset
<1> QED
    BY <1>2, <1>3, FS_CardinalityType

\* Without one of its workers a set of them counts one less.
LEMMA WithoutOne ==
    ASSUME NEW S, S \subseteq Workers, NEW w \in S
    PROVE  Cardinality(S \ {w}) = Cardinality(S) - 1
<1>1. IsFiniteSet(S)
    BY QueueAssumption, FS_Subset
<1> QED
    BY <1>1, FS_RemoveElement

\* Nothing is sent, queued or run at the start.
LEMMA QueueInit == QInit => QueueInv
<1> SUFFICES ASSUME QInit PROVE QueueInv
    OBVIOUS
<1>1. IInv
    BY IInvInit DEF QInit
<1>2. QueueTypeOK
    <2>1. (CHOOSE p \in Payments : TRUE) \in Payments
        BY QueueAssumption
    <2> QED
        BY <2>1, QueueAssumption DEF QInit, QueueTypeOK, JobRows, Messages, JobStatuses
<1>3. TakenInv /\ MessageInv /\ ReturnedInv /\ DoneMeansApplied
    BY DEF QInit, Init, TakenInv, MessageInv, ReturnedInv, DoneMeansApplied
<1>4. RetryInv
    <2> SUFFICES ASSUME NEW j \in Jobs PROVE RetryOK(j)
        BY DEF RetryInv
    <2>1. /\ \A w \in Workers : taken[w] = NoJob
          /\ job[j].attempts = 0 /\ failures[j] = 0
        BY DEF QInit
    <2>2. Retriers(j) = {}
        BY <2>1, QueueAssumption DEF Retriers
    <2>3. Cardinality(Retriers(j)) = 0
        BY <2>2, FS_EmptySet
    <2>4. PICK w \in Workers : TRUE
        BY QueueAssumption
    <2>5. Cardinality(Workers) - 1 \in Nat
        BY <2>4, WithoutOne, RetriersFinite
    <2> QED
        BY <2>1, <2>3, <2>5, QueueAssumption DEF RetryOK
<1> QED
    BY <1>1, <1>2, <1>3, <1>4 DEF QueueInv

\* The attempts of a job that no process is newly handed, and no process puts
\* back, are no more than before.
LEMMA RetryKept ==
    ASSUME QueueInv, NEW j \in Jobs,
           job'[j].attempts = job[j].attempts,
           failures'[j] \in Nat, failures'[j] >= failures[j],
           \A w \in Workers : taken'[w] = j =>
               \/ taken[w] = j /\ handed'[w] = handed[w]
               \/ handed'[w] = job[j].attempts
    PROVE  RetryOK(j)'
<1> DEFINE n == job[j].attempts
           m == Cardinality(Retriers(j))
           k == Cardinality(Workers) - 1
           m2 == Cardinality(Retriers(j)')
<1>0. RetryOK(j) /\ n \in Nat /\ failures[j] \in Nat /\ MaxAttempts \in Nat
      /\ \A w \in Workers : handed[w] \in Nat
    BY QueueAssumption DEF QueueInv, RetryInv, QueueTypeOK, JobRows
<1>1. (\A w \in Workers : taken[w] = j => handed[w] <= job[j].attempts)'
    BY <1>0 DEF RetryOK
<1>2. (job[j].attempts <= failures[j])'
    BY <1>0 DEF RetryOK
<1>3. ASSUME n >= MaxAttempts PROVE n + m2 <= MaxAttempts + k
    <2>1. Retriers(j)' \subseteq Retriers(j)
        BY <1>0, <1>3 DEF Retriers
    <2>2. Retriers(j) \subseteq Workers
        BY DEF Retriers
    <2>3. m \in Nat /\ m2 \in Nat /\ m2 <= m
        BY <2>1, <2>2, RetriersFinite
    <2>4. Cardinality(Workers) \in Nat
        BY RetriersFinite
    <2>5. n + m <= MaxAttempts + k
        BY <1>0, <1>3 DEF RetryOK
    <2> HIDE DEF n, m, m2
    <2> QED
        BY <1>0, <2>3, <2>4, <2>5
<1> QED
    BY <1>1, <1>2, <1>3 DEF RetryOK

\* A step that touches neither the jobs nor what the processes run, and whose
\* workers keep their payments.
LEMMA JobsStay ==
    ASSUME QueueInv, [Next]_vars,
           UNCHANGED <<job, workVars>>,
           message' \in [Payments -> Messages],
           \A w \in Workers : taken[w] # NoJob => payment'[w] = payment[w],
           \A p \in Payments : message'[p] \in {"handled", "acked"} =>
               message[p] \in {"handled", "acked"}
    PROVE  QueueInv'
<1> USE DEF QueueInv, workVars
<1>1. IInv' /\ ReturnedInv'
    BY IInvStep, ReturnedStep
<1>2. QueueTypeOK' /\ TakenInv'
    BY DEF QueueTypeOK, TakenInv
<1>3. MessageInv'
    BY DEF MessageInv
<1>4. DoneMeansApplied'
    <2> SUFFICES ASSUME NEW j \in Jobs, job[j].status = "done"
                 PROVE  job[j].payment \in Applied(ledger'[AccountOf[job[j].payment]])
        BY DEF DoneMeansApplied
    <2>1. AccountOf[job[j].payment] \in Accounts
        BY PaymentAssumption DEF QueueTypeOK, JobRows
    <2> QED
        BY <2>1, AppliedGrows DEF DoneMeansApplied
<1>5. RetryInv'
    BY DEF RetryInv, RetryOK, Retriers
<1> QED
    BY <1>1, <1>2, <1>3, <1>4, <1>5

\* A step that rewrites one job keeps the payment of it, unless it was free,
\* and may only call it done if that payment is applied.
LEMMA JobChanges ==
    ASSUME QueueInv, [Next]_vars, NEW j \in Jobs, NEW new \in JobRows,
           job' = [job EXCEPT ![j] = new],
           new.status # "none",
           job[j].status # "none" => new.payment = job[j].payment,
           new.status = "done" => new.payment \in Applied(ledger[AccountOf[new.payment]])
    PROVE  /\ IInv' /\ ReturnedInv' /\ DoneMeansApplied'
           /\ job' \in [Jobs -> JobRows]
           /\ \A i \in Jobs : job[i].status # "none" =>
                 job'[i].status # "none" /\ job'[i].payment = job[i].payment
<1> USE DEF QueueInv
<1>1. IInv' /\ ReturnedInv'
    BY IInvStep, ReturnedStep
<1>2. job' \in [Jobs -> JobRows]
    BY DEF QueueTypeOK
<1>3. ASSUME NEW i \in Jobs, job[i].status # "none"
      PROVE  job'[i].status # "none" /\ job'[i].payment = job[i].payment
    BY <1>3 DEF QueueTypeOK
<1>4. DoneMeansApplied'
    <2> SUFFICES ASSUME NEW i \in Jobs, job'[i].status = "done"
                 PROVE  job'[i].payment \in Applied(ledger'[AccountOf[job'[i].payment]])
        BY DEF DoneMeansApplied
    <2>1. job'[i].payment \in Applied(ledger[AccountOf[job'[i].payment]])
        BY DEF DoneMeansApplied, QueueTypeOK
    <2>2. AccountOf[job'[i].payment] \in Accounts
        BY <1>2, PaymentAssumption DEF JobRows
    <2> QED
        BY <2>1, <2>2, AppliedGrows
<1> QED
    BY <1>1, <1>2, <1>3, <1>4

\* Messages that were handled have their jobs still, if no job is forgotten.
LEMMA MessagesKept ==
    ASSUME QueueInv, message' = message,
           \A i \in Jobs : job[i].status # "none" =>
               job'[i].status # "none" /\ job'[i].payment = job[i].payment
    PROVE  MessageInv'
BY DEF QueueInv, MessageInv

\* The subscribers: a message leaves "ready" for "handled" only when its
\* payment is in the job table.
LEMMA SubscriberStep ==
    ASSUME QueueInv, Subscribers
    PROVE  QueueInv'
<1>0. [Next]_vars
    <2>1. QueueTypeOK /\ QNext
        BY DEF QueueInv, QNext
    <2> QED
        BY <2>1, QueueStepsWrite
<1>1. PICK p \in Payments : \/ Publish(p)
                            \/ \E j \in Jobs : Enqueue(p, j)
                            \/ DeadLetter(p)
                            \/ Acknowledge(p)
                            \/ Redeliver(p)
    BY DEF Subscribers
<1>2. CASE Publish(p) \/ DeadLetter(p) \/ Acknowledge(p) \/ Redeliver(p)
    <2>1. UNCHANGED <<vars, job, workVars>>
        BY <1>2 DEF Publish, DeadLetter, Acknowledge, Redeliver
    <2>2. message' \in [Payments -> Messages]
        BY <1>2 DEF Publish, DeadLetter, Acknowledge, Redeliver, QueueInv,
                    QueueTypeOK, Messages
    <2>3. \A q \in Payments : message'[q] \in {"handled", "acked"} =>
             message[q] \in {"handled", "acked"}
        BY <1>2 DEF Publish, DeadLetter, Acknowledge, Redeliver, QueueInv, QueueTypeOK
    <2> QED
        BY <1>0, <2>1, <2>2, <2>3, JobsStay DEF vars
<1>3. ASSUME NEW j \in Jobs, Enqueue(p, j) PROVE QueueInv'
    <2> DEFINE new == [status |-> "queued", payment |-> p, attempts |-> 0]
    <2>1. /\ job[j].status = "none"
          /\ job' = [job EXCEPT ![j] = new]
          /\ message' = [message EXCEPT ![p] = "handled"]
          /\ UNCHANGED <<vars, workVars>>
        BY <1>3 DEF Enqueue
    <2>2. new \in JobRows
        BY DEF JobRows, JobStatuses
    <2>3. new.status = "queued" /\ new.payment = p /\ new.attempts = 0
        OBVIOUS
    <2> HIDE DEF new
    <2>4. /\ IInv' /\ ReturnedInv' /\ DoneMeansApplied'
          /\ job' \in [Jobs -> JobRows]
          /\ \A i \in Jobs : job[i].status # "none" =>
                job'[i].status # "none" /\ job'[i].payment = job[i].payment
        BY <1>0, <2>1, <2>2, <2>3, JobChanges
    <2>5. QueueTypeOK'
        BY <2>1, <2>4 DEF QueueInv, QueueTypeOK, Messages, workVars
    <2>6. TakenInv'
        <3>1. \A w \in Workers : taken[w] # NoJob => taken[w] \in Jobs
            BY DEF QueueInv, QueueTypeOK
        <3> QED
            BY <2>1, <2>4, <3>1 DEF QueueInv, TakenInv, vars, workVars
    <2>7. MessageInv'
        <3>1. job'[j].payment = p /\ job'[j].status # "none"
            BY <2>1, <2>3 DEF QueueInv, QueueTypeOK
        <3>2. \A q \in Payments \ {p} : message'[q] = message[q]
            BY <2>1 DEF QueueInv, QueueTypeOK
        <3> QED
            BY <2>4, <3>1, <3>2 DEF QueueInv, MessageInv
    <2>8. RetryInv'
        <3> SUFFICES ASSUME NEW i \in Jobs PROVE RetryOK(i)'
            BY DEF RetryInv
        <3>1. UNCHANGED <<taken, handed, failures>> /\ failures[i] \in Nat
            BY <2>1 DEF QueueInv, QueueTypeOK, workVars
        <3>2. CASE i # j
            <4>1. job'[i] = job[i]
                BY <2>1, <3>2 DEF QueueInv, QueueTypeOK
            <4> QED
                BY <3>1, <4>1, RetryKept
        <3>3. CASE i = j
            <4>1. job'[j].attempts = 0
                BY <2>1, <2>3 DEF QueueInv, QueueTypeOK
            <4>2. \A w \in Workers : taken'[w] # j
                BY <2>1, <3>1, QueueAssumption DEF QueueInv, TakenInv
            <4>3. Retriers(j)' = {}
                BY <4>2 DEF Retriers
            <4>4. Cardinality(Retriers(j)') = 0
                BY <4>3, FS_EmptySet
            <4>5. PICK w \in Workers : TRUE
                BY QueueAssumption
            <4>6. Cardinality(Workers) - 1 \in Nat
                BY <4>5, WithoutOne, RetriersFinite
            <4> QED
                BY <3>1, <3>3, <4>1, <4>2, <4>4, <4>6, QueueAssumption DEF RetryOK
        <3> QED
            BY <3>2, <3>3
    <2> QED
        BY <2>4, <2>5, <2>6, <2>7, <2>8 DEF QueueInv
<1> QED
    BY <1>1, <1>2, <1>3

\* What the executor makes of a job whose handler ended.
LEMMA SettledFacts ==
    ASSUME QueueInv, NEW w \in Workers, taken[w] # NoJob, pc[w] \in Outcomes
    PROVE  LET j == taken[w]
               new == Settled(w)
           IN  /\ j \in Jobs /\ job[j].status # "none" /\ payment[w] = job[j].payment
               /\ new \in JobRows
               /\ new.payment = job[j].payment
               /\ new.status \in {"done", "held", "queued"}
               /\ new.status = "done" => pc[w] = "done"
               /\ new.status = "held" =>
                     pc[w] = "rejected" \/ (pc[w] = "failed" /\ handed[w] >= MaxAttempts)
               /\ \/ new.attempts = job[j].attempts
                  \/ /\ new.attempts = job[j].attempts + 1
                     /\ pc[w] = "failed" /\ w \in Retriers(j)
<1> DEFINE j == taken[w]
           new == Settled(w)
<1>1. /\ j \in Jobs /\ job[j].status # "none" /\ payment[w] = job[j].payment
      /\ job[j] \in JobRows
    BY DEF QueueInv, QueueTypeOK, TakenInv
<1>2. CASE pc[w] = "done"
    <2>1. new = [job[j] EXCEPT !.status = "done"]
        BY <1>2 DEF Settled
    <2> HIDE DEF new, j
    <2> QED
        BY <1>1, <1>2, <2>1 DEF JobRows, JobStatuses, new, j
<1>3. CASE pc[w] = "rejected"
    <2>1. new = [job[j] EXCEPT !.status = "held"]
        BY <1>3 DEF Settled
    <2> HIDE DEF new, j
    <2> QED
        BY <1>1, <1>3, <2>1 DEF JobRows, JobStatuses, new, j
<1>4. CASE pc[w] = "failed" /\ LastAttempt(w)
    <2>1. new = [job[j] EXCEPT !.status = "held"]
        BY <1>4 DEF Settled
    <2>2. handed[w] >= MaxAttempts
        BY <1>4 DEF LastAttempt
    <2> HIDE DEF new, j
    <2> QED
        BY <1>1, <1>4, <2>1, <2>2 DEF JobRows, JobStatuses, new, j
<1>5. CASE pc[w] = "failed" /\ ~LastAttempt(w)
    <2>1. new = [job[j] EXCEPT !.status = "queued", !.attempts = @ + 1]
        BY <1>5 DEF Settled
    <2>2. w \in Retriers(j)
        <3>1. handed[w] \in Nat /\ MaxAttempts \in Nat
            BY QueueAssumption DEF QueueInv, QueueTypeOK
        <3> QED
            BY <1>5, <3>1 DEF LastAttempt, Retriers
    <2>3. /\ new \in JobRows /\ new.payment = job[j].payment
          /\ new.status = "queued" /\ new.attempts = job[j].attempts + 1
        <3> DEFINE old == job[j]
        <3>1. old \in JobRows /\ new = [old EXCEPT !.status = "queued", !.attempts = @ + 1]
            BY <1>1, <2>1
        <3> HIDE DEF new, old
        <3>2. old.attempts + 1 \in Nat
            BY <3>1 DEF JobRows
        <3>3. new \in JobRows
            BY <3>1, <3>2 DEF JobRows, JobStatuses
        <3>4. /\ new.payment = old.payment /\ new.status = "queued"
              /\ new.attempts = old.attempts + 1
            BY <3>1 DEF JobRows
        <3> QED
            BY <3>3, <3>4 DEF old
    <2> QED
        BY <1>1, <1>5, <2>2, <2>3
<1> QED
    BY <1>2, <1>3, <1>4, <1>5 DEF Outcomes

\* A worker is handed a job, which other processes may be running.
LEMMA PickStep ==
    ASSUME QueueInv, NEW w \in Workers, NEW j \in Jobs, Pick(w, j) \/ PickStalled(w, j)
    PROVE  QueueInv'
<1> DEFINE new == [job[j] EXCEPT !.status = "picked"]
<1>0. [Next]_vars
    <2>1. QueueTypeOK /\ QNext
        BY DEF QueueInv, QNext, Consumers
    <2> QED
        BY <2>1, QueueStepsWrite
<1>1. /\ job[j].status \in {"queued", "picked"}
      /\ job' = [job EXCEPT ![j] = new]
      /\ taken' = [taken EXCEPT ![w] = j]
      /\ handed' = [handed EXCEPT ![w] = job[j].attempts]
      /\ payment' = [payment EXCEPT ![w] = job[j].payment]
      /\ UNCHANGED <<message, failures>>
    BY DEF Pick, PickStalled, HandOut, Begin, Abandoned, Stalled
<1>2. faults' \in 0 .. MaxFaults
    BY QueueAssumption DEF Pick, PickStalled, QueueInv, QueueTypeOK
<1>3. /\ new \in JobRows /\ new.attempts = job[j].attempts
      /\ new.status = "picked" /\ new.payment = job[j].payment
    BY DEF JobRows, JobStatuses, QueueInv, QueueTypeOK
<1> HIDE DEF new
<1>4. /\ IInv' /\ ReturnedInv' /\ DoneMeansApplied'
      /\ job' \in [Jobs -> JobRows]
      /\ \A i \in Jobs : job[i].status # "none" =>
            job'[i].status # "none" /\ job'[i].payment = job[i].payment
    BY <1>0, <1>1, <1>3, JobChanges
<1>5. QueueTypeOK' /\ MessageInv'
    <2>1. job[j].attempts \in Nat
        BY DEF QueueInv, QueueTypeOK, JobRows
    <2> QED
        BY <1>1, <1>2, <1>4, <2>1, MessagesKept DEF QueueInv, QueueTypeOK
<1>6. TakenInv'
    <2>1. taken'[w] = j /\ job'[j] = new /\ payment'[w] = new.payment
        BY <1>1, <1>3 DEF QueueInv, IInv, TypeInv, TypeOK, QueueTypeOK
    <2>2. \A v \in Workers \ {w} : taken'[v] = taken[v] /\ payment'[v] = payment[v]
        BY <1>1 DEF QueueInv, IInv, TypeInv, TypeOK, QueueTypeOK
    <2>3. \A v \in Workers : taken[v] # NoJob => taken[v] \in Jobs
        BY DEF QueueInv, QueueTypeOK
    <2> QED
        BY <1>3, <1>4, <2>1, <2>2, <2>3 DEF QueueInv, TakenInv
<1>7. RetryInv'
    <2> SUFFICES ASSUME NEW i \in Jobs PROVE RetryOK(i)'
        BY DEF RetryInv
    <2>1. job'[i].attempts = job[i].attempts
        BY <1>1, <1>3 DEF QueueInv, QueueTypeOK
    <2>2. \A v \in Workers : taken'[v] = i =>
             (taken[v] = i /\ handed'[v] = handed[v]) \/ handed'[v] = job[i].attempts
        BY <1>1 DEF QueueInv, QueueTypeOK
    <2>3. failures' = failures /\ failures[i] \in Nat
        BY <1>1 DEF QueueInv, QueueTypeOK
    <2> QED
        BY <2>1, <2>2, <2>3, RetryKept
<1> QED
    BY <1>4, <1>5, <1>6, <1>7 DEF QueueInv

\* A process that put the job back is no longer one of those that may.
LEMMA RetryCounts ==
    ASSUME QueueInv, NEW w \in Workers, NEW j \in Jobs,
           w \in Retriers(j),
           job'[j].attempts = job[j].attempts + 1,
           failures'[j] = failures[j] + 1,
           taken' = [taken EXCEPT ![w] = NoJob],
           handed' = [handed EXCEPT ![w] = 0]
    PROVE  RetryOK(j)'
<1> DEFINE n == job[j].attempts
           R == Retriers(j)
           m == Cardinality(R)
           k == Cardinality(Workers) - 1
           m2 == Cardinality(R \ {w})
<1>0. RetryOK(j) /\ n \in Nat /\ failures[j] \in Nat /\ MaxAttempts \in Nat
      /\ \A v \in Workers : handed[v] \in Nat
    BY QueueAssumption DEF QueueInv, RetryInv, QueueTypeOK, JobRows
<1>1. \A v \in Workers : /\ v # w => taken'[v] = taken[v] /\ handed'[v] = handed[v]
                         /\ taken'[w] # j
    BY QueueAssumption DEF QueueInv, QueueTypeOK
<1>2. (\A v \in Workers : taken[v] = j => handed[v] <= job[j].attempts)'
    BY <1>0, <1>1 DEF RetryOK
<1>3. (job[j].attempts <= failures[j])'
    BY <1>0 DEF RetryOK
<1>4. R' = R \ {w}
    BY <1>1 DEF Retriers
<1>5. R \subseteq Workers
    BY DEF Retriers
<1>6. m \in Nat /\ m2 = m - 1 /\ m2 \in Nat
    <2>1. m2 = m - 1
        BY <1>5, WithoutOne
    <2>2. m \in Nat /\ m2 \in Nat
        BY <1>5, RetriersFinite
    <2> QED
        BY <2>1, <2>2
<1>7. m2 <= k /\ k \in Nat
    <2>1. R \ {w} \subseteq Workers \ {w}
        BY <1>5
    <2>2. Cardinality(Workers \ {w}) = k
        BY WithoutOne
    <2>3. m2 <= Cardinality(Workers \ {w}) /\ Cardinality(Workers \ {w}) \in Nat
        BY <2>1, RetriersFinite
    <2> QED
        BY <2>2, <2>3
<1>8. n >= MaxAttempts => n + m <= MaxAttempts + k
    BY <1>0 DEF RetryOK
<1>9. n + 1 >= MaxAttempts => n + 1 + m2 <= MaxAttempts + k
    <2> HIDE DEF n, m, k, m2
    <2>1. CASE n >= MaxAttempts
        BY <1>0, <1>6, <1>7, <1>8, <2>1
    <2>2. CASE n < MaxAttempts
        BY <1>0, <1>6, <1>7, <2>2
    <2> QED
        BY <1>0, <2>1, <2>2
<1> QED
    BY <1>2, <1>3, <1>4, <1>9 DEF RetryOK

\* The executor deletes, requeues or holds the job of its own worker, or finds
\* that the job went to another process.
LEMMA SettleStep ==
    ASSUME QueueInv, NEW w \in Workers, Settle(w)
    PROVE  QueueInv'
<1> DEFINE j == taken[w]
           new == Settled(w)
<1>0. [Next]_vars
    <2>1. QueueTypeOK /\ QNext
        BY DEF QueueInv, QNext, Consumers
    <2> QED
        BY <2>1, QueueStepsWrite
<1>1. /\ j # NoJob /\ pc[w] \in Outcomes
      /\ job' = [job EXCEPT ![j] = new] \/ job' = job
      /\ taken' = [taken EXCEPT ![w] = NoJob]
      /\ handed' = [handed EXCEPT ![w] = 0]
      /\ failures' = [failures EXCEPT ![j] = IF pc[w] = "failed" THEN @ + 1 ELSE @]
      /\ UNCHANGED <<message, faults, payment>>
    BY DEF Settle, Finish
<1>2. /\ j \in Jobs /\ job[j].status # "none" /\ payment[w] = job[j].payment
      /\ new \in JobRows
      /\ new.payment = job[j].payment
      /\ new.status \in {"done", "held", "queued"}
      /\ new.status = "done" => pc[w] = "done"
      /\ \/ new.attempts = job[j].attempts
         \/ /\ new.attempts = job[j].attempts + 1
            /\ pc[w] = "failed" /\ w \in Retriers(j)
    BY <1>1, SettledFacts
<1>3. new.status = "done" => new.payment \in Applied(ledger[AccountOf[new.payment]])
    BY <1>2 DEF QueueInv, ReturnedInv, Target
<1> HIDE DEF new, j
<1>4. /\ IInv' /\ ReturnedInv' /\ DoneMeansApplied'
      /\ job' \in [Jobs -> JobRows]
      /\ \A i \in Jobs : job[i].status # "none" =>
            job'[i].status # "none" /\ job'[i].payment = job[i].payment
    <2>1. CASE job' = [job EXCEPT ![j] = new]
        BY <1>0, <1>2, <1>3, <2>1, JobChanges
    <2>2. CASE job' = job
        <3>1. job[j] \in JobRows /\ job' = [job EXCEPT ![j] = job[j]]
            BY <1>2, <2>2 DEF QueueInv, QueueTypeOK
        <3>2. job[j].status = "done" =>
                 job[j].payment \in Applied(ledger[AccountOf[job[j].payment]])
            BY <1>2 DEF QueueInv, DoneMeansApplied
        <3> QED
            BY <1>0, <1>2, <3>1, <3>2, JobChanges
    <2> QED
        BY <1>1, <2>1, <2>2
<1>5. QueueTypeOK' /\ MessageInv'
    <2>1. /\ taken' \in [Workers -> Jobs \cup {NoJob}]
          /\ handed' \in [Workers -> Nat]
        BY <1>1 DEF QueueInv, QueueTypeOK
    <2>2. failures' \in [Jobs -> Nat]
        <3>1. (IF pc[w] = "failed" THEN failures[j] + 1 ELSE failures[j]) \in Nat
            BY <1>2 DEF QueueInv, QueueTypeOK
        <3> QED
            BY <1>1, <1>2, <3>1 DEF QueueInv, QueueTypeOK
    <2>3. QueueTypeOK'
        BY <1>1, <1>4, <2>1, <2>2 DEF QueueInv, QueueTypeOK
    <2> QED
        BY <1>1, <1>4, <2>3, MessagesKept
<1>6. TakenInv'
    <2>1. \A v \in Workers : taken'[v] # NoJob => taken'[v] = taken[v] /\ taken[v] \in Jobs
        BY <1>1 DEF QueueInv, QueueTypeOK
    <2> QED
        BY <1>1, <1>4, <2>1 DEF QueueInv, TakenInv
<1>7. RetryInv'
    <2> SUFFICES ASSUME NEW i \in Jobs PROVE RetryOK(i)'
        BY DEF RetryInv
    <2>1. \A v \in Workers : taken'[v] = i => taken[v] = i /\ handed'[v] = handed[v]
        BY <1>1, QueueAssumption DEF QueueInv, QueueTypeOK
    <2>2. failures'[i] \in Nat /\ failures'[i] >= failures[i]
        BY <1>1, <1>2 DEF QueueInv, QueueTypeOK
    <2>3. CASE job'[i].attempts = job[i].attempts
        BY <2>1, <2>2, <2>3, RetryKept
    <2>4. CASE job'[i].attempts # job[i].attempts
        <3>1. i = j /\ job' = [job EXCEPT ![j] = new]
            BY <1>1, <1>2, <2>4 DEF QueueInv, QueueTypeOK
        <3>2. job'[j] = new
            BY <1>2, <3>1 DEF QueueInv, QueueTypeOK
        <3>3. /\ job'[j].attempts = job[j].attempts + 1
              /\ pc[w] = "failed" /\ w \in Retriers(j)
            BY <1>2, <2>4, <3>1, <3>2
        <3>4. failures'[j] = failures[j] + 1
            BY <1>1, <1>2, <3>3 DEF QueueInv, QueueTypeOK
        <3> QED
            BY <1>1, <1>2, <3>1, <3>3, <3>4, RetryCounts
    <2> QED
        BY <2>3, <2>4
<1> QED
    BY <1>4, <1>5, <1>6, <1>7 DEF QueueInv

\* Every step of the composed system preserves the strengthening.
LEMMA QueueStep == QueueInv /\ [QNext]_allVars => QueueInv'
<1> SUFFICES ASSUME QueueInv, [QNext]_allVars PROVE QueueInv'
    OBVIOUS
<1>0. QNext => [Next]_vars
    BY QueueStepsWrite DEF QueueInv
<1>1. CASE Subscribers
    BY <1>1, SubscriberStep
<1>2. ASSUME QNext \/ UNCHANGED allVars, UNCHANGED queueVars,
             \A w \in Workers : taken[w] # NoJob => payment'[w] = payment[w]
      PROVE  QueueInv'
    <2>1. [Next]_vars
        BY <1>0, <1>2 DEF allVars, vars
    <2>2. UNCHANGED <<message, job, workVars>>
        BY <1>2 DEF queueVars
    <2>3. message' \in [Payments -> Messages]
        BY <2>2 DEF QueueInv, QueueTypeOK
    <2> QED
        BY <1>2, <2>1, <2>2, <2>3, JobsStay
<1>3. ASSUME NEW w \in Workers, Run(w) PROVE QueueInv'
    <2>1. payment' = payment /\ UNCHANGED queueVars
        BY <1>3 DEF Run, Handle, Disturb, UnknownAccount, RejectInactive, LockAccount,
                    SkipDuplicate, CheckDuplicate, RejectPayment, ReadPrevious, Insert,
                    FailInsert, Commit, Abort, End
    <2>2. QNext
        BY <1>3 DEF QNext, Consumers
    <2> QED
        BY <1>2, <2>1, <2>2
<1>4. ASSUME NEW w \in Workers, DropSession(w) PROVE QueueInv'
    <2>1. payment' = payment /\ UNCHANGED queueVars
        BY <1>4 DEF DropSession, Commit, Abort, End, Finish
    <2>2. QNext
        BY <1>4 DEF QNext, Consumers
    <2> QED
        BY <1>2, <2>1, <2>2
<1>5. ASSUME NEW w \in Workers, Crash(w) PROVE QueueInv'
    <2>1. /\ taken' = [taken EXCEPT ![w] = NoJob]
          /\ handed' = [handed EXCEPT ![w] = 0]
          /\ faults < MaxFaults /\ faults' = faults + 1
          /\ UNCHANGED <<vars, message, job, failures>>
        BY <1>5 DEF Crash
    <2>2. IInv' /\ ReturnedInv'
        BY <2>1, IInvStep, ReturnedStep DEF QueueInv
    <2>3. QueueTypeOK'
        BY <2>1, QueueAssumption DEF QueueInv, QueueTypeOK
    <2>4. TakenInv'
        BY <2>1 DEF QueueInv, QueueTypeOK, TakenInv, vars
    <2>5. MessageInv' /\ DoneMeansApplied'
        BY <2>1 DEF QueueInv, MessageInv, DoneMeansApplied, vars
    <2>6. RetryInv'
        <3> SUFFICES ASSUME NEW i \in Jobs PROVE RetryOK(i)'
            BY DEF RetryInv
        <3>1. \A v \in Workers : taken'[v] = i => taken[v] = i /\ handed'[v] = handed[v]
            BY <2>1, QueueAssumption DEF QueueInv, QueueTypeOK
        <3>2. failures'[i] \in Nat /\ failures'[i] >= failures[i]
            BY <2>1 DEF QueueInv, QueueTypeOK
        <3> QED
            BY <2>1, <3>1, <3>2, RetryKept
    <2> QED
        BY <2>2, <2>3, <2>4, <2>5, <2>6 DEF QueueInv
<1>6. CASE Consumers
    BY <1>3, <1>4, <1>5, <1>6, PickStep, SettleStep DEF Consumers
<1>7. CASE Administer
    <2>1. payment' = payment /\ UNCHANGED queueVars
        BY <1>7 DEF Administer, AdminNext, OpenAccount, WriteStatus, CommitStatus,
                    RollbackStatus, workerVars
    <2>2. QNext
        BY <1>7 DEF QNext
    <2> QED
        BY <1>2, <2>1, <2>2
<1>8. CASE UNCHANGED allVars
    <2>1. payment' = payment /\ UNCHANGED queueVars
        BY <1>8 DEF allVars, vars
    <2> QED
        BY <1>2, <1>8, <2>1
<1> QED
    BY <1>1, <1>6, <1>7, <1>8 DEF QNext

\* The strengthening is an invariant of the composed system.
THEOREM QueueInvariance == QSpec => []QueueInv
BY QueueInit, QueueStep, PTL DEF QSpec

-----------------------------------------------------------------------------
(* The properties that the model checker checks on one instance.           *)

\* The queue runs nothing but the transactions of LedgerWriter, so what is
\* proved of these holds with redeliveries, retries and crashes.
THEOREM QueueImplementsWriter == QSpec => Spec
<1>1. QInit => Init
    BY DEF QInit
<1>2. QueueInv /\ [QNext]_allVars => [Next]_vars
    <2>1. QueueInv /\ QNext => [Next]_vars
        BY QueueStepsWrite DEF QueueInv
    <2>2. UNCHANGED allVars => UNCHANGED vars
        BY DEF allVars
    <2> QED
        BY <2>1, <2>2
<1> QED
    BY <1>1, <1>2, QueueInvariance, PTL DEF QSpec, Spec

\* Every variable of the composed system keeps its type.
THEOREM QTypeCorrect == QSpec => []QTypeOK
<1>1. QueueInv => QTypeOK
    BY DEF QueueInv, QueueTypeOK, JobRows, IInv, TypeInv, QTypeOK
<1> QED
    BY <1>1, QueueInvariance, PTL

\* The executor deletes a job only when the payment of it is in the ledger.
THEOREM DoneCorrect == QSpec => []DoneMeansApplied
<1>1. QueueInv => DoneMeansApplied
    BY DEF QueueInv
<1> QED
    BY <1>1, QueueInvariance, PTL

\* What is acknowledged is applied, or in a row of pgqueuer's table that is not
\* deleted before it is applied.
THEOREM NoPaymentLostCorrect == QSpec => []NoPaymentLost
<1>1. QueueInv => NoPaymentLost
    <2> SUFFICES ASSUME QueueInv, NEW p \in Payments, message[p] = "acked"
                 PROVE  \/ p \in Applied(ledger[AccountOf[p]])
                        \/ \E j \in Jobs : /\ job[j].payment = p
                                          /\ job[j].status \in {"queued", "picked", "held"}
        BY DEF NoPaymentLost
    <2>1. PICK j \in Jobs : job[j].payment = p /\ job[j].status # "none"
        BY DEF QueueInv, MessageInv
    <2>2. job[j].status \in {"queued", "picked", "held", "done"}
        BY <2>1 DEF QueueInv, QueueTypeOK, JobRows, JobStatuses
    <2>3. job[j].status = "done" => p \in Applied(ledger[AccountOf[p]])
        BY <2>1 DEF QueueInv, DoneMeansApplied
    <2> QED
        BY <2>1, <2>2, <2>3
<1> QED
    BY <1>1, QueueInvariance, PTL

\* Past max_attempts a job is put back at most once by each of the processes
\* that were handed it before, all of them but the one that reached the limit.
THEOREM RetriesBoundedCorrect == QSpec => []RetriesBounded
<1>1. QueueInv => RetriesBounded
    <2> SUFFICES ASSUME QueueInv, NEW j \in Jobs
                 PROVE  job[j].attempts <= MaxAttempts + (Cardinality(Workers) - 1)
        BY DEF RetriesBounded
    <2> DEFINE n == job[j].attempts
               m == Cardinality(Retriers(j))
               k == Cardinality(Workers)
    <2>1. n \in Nat /\ MaxAttempts \in Nat
        BY QueueAssumption DEF QueueInv, QueueTypeOK, JobRows
    <2>2. n >= MaxAttempts => n + m <= MaxAttempts + (k - 1)
        BY DEF QueueInv, RetryInv, RetryOK
    <2>3. m \in Nat
        BY RetriersFinite DEF Retriers
    <2>4. PICK w \in Workers : TRUE
        BY QueueAssumption
    <2>5. k \in Nat /\ k - 1 \in Nat
        BY <2>4, WithoutOne, RetriersFinite
    <2> HIDE DEF n, m, k
    <2>6. n <= MaxAttempts + (k - 1)
        BY <2>1, <2>2, <2>3, <2>5
    <2> QED
        BY <2>6 DEF n, k
<1> QED
    BY <1>1, QueueInvariance, PTL

\* A failing handler has all its attempts before its job is held: the number
\* in the Job that a process was handed never exceeds the executions that
\* have failed.
THEOREM FailureCorrect == QSpec => FailureExhaustsAttempts
<1> DEFINE Exhausted ==
        \A j \in Jobs :
            job[j].status # "held" /\ job'[j].status = "held" =>
                \E w \in Workers :
                    /\ taken[w] = j
                    /\ pc[w] = "rejected" \/ failures'[j] > MaxAttempts
<1>1. QueueInv /\ [QNext]_allVars => [Exhausted]_allVars
    <2> SUFFICES ASSUME QueueInv, QNext, NEW j \in Jobs,
                        job[j].status # "held", job'[j].status = "held"
                 PROVE  \E w \in Workers :
                            /\ taken[w] = j
                            /\ pc[w] = "rejected" \/ failures'[j] > MaxAttempts
        OBVIOUS
    <2>1. \E w \in Workers : Settle(w)
        <3>1. job \in [Jobs -> JobRows] /\ job' # job
            BY DEF QueueInv, QueueTypeOK
        <3>2. \A q \in Payments, i \in Jobs : ~Enqueue(q, i)
            BY <3>1 DEF Enqueue
        <3>3. \A v \in Workers, i \in Jobs : ~HandOut(v, i)
            BY <3>1 DEF HandOut, JobRows
        <3> QED
            BY <3>1, <3>2, <3>3
               DEF QNext, Subscribers, Publish, DeadLetter, Acknowledge, Redeliver,
                   Consumers, Pick, PickStalled, Run, Crash, DropSession, Administer,
                   queueVars
    <2>2. PICK w \in Workers : Settle(w)
        BY <2>1
    <2>3. /\ taken[w] # NoJob /\ pc[w] \in Outcomes
          /\ job' = [job EXCEPT ![taken[w]] = Settled(w)] \/ job' = job
          /\ failures' = [failures EXCEPT ![taken[w]] = IF pc[w] = "failed" THEN @ + 1 ELSE @]
        BY <2>2 DEF Settle, Finish
    <2>4. taken[w] = j /\ Settled(w).status = "held"
        BY <2>3 DEF QueueInv, QueueTypeOK
    <2>5. pc[w] = "rejected" \/ (pc[w] = "failed" /\ handed[w] >= MaxAttempts)
        BY <2>3, <2>4, SettledFacts
    <2>6. CASE pc[w] = "failed" /\ handed[w] >= MaxAttempts
        <3>1. failures'[j] = failures[j] + 1
            BY <2>3, <2>4, <2>6 DEF QueueInv, QueueTypeOK
        <3>2. handed[w] <= job[j].attempts /\ job[j].attempts <= failures[j]
            BY <2>4 DEF QueueInv, RetryInv, RetryOK
        <3>3. /\ handed[w] \in Nat /\ job[j].attempts \in Nat /\ failures[j] \in Nat
              /\ MaxAttempts \in Nat
            BY QueueAssumption DEF QueueInv, QueueTypeOK, JobRows
        <3> QED
            BY <2>4, <2>6, <3>1, <3>2, <3>3
    <2> QED
        BY <2>4, <2>5, <2>6
<1> QED
    BY <1>1, QueueInvariance, PTL DEF QSpec, FailureExhaustsAttempts

-----------------------------------------------------------------------------
(* From end to end.                                                        *)

\* What readers of accounts see of the whole pipeline is the atomic ledger:
\* redelivered messages, retried and abandoned jobs and dead sessions included.
THEOREM QueueRefinesAtomicLedger == QSpec => ImplementsAtomicLedger
BY QueueImplementsWriter, Refinement

\* And to readers of the rows, the verifier among them, it is a ledger that
\* grows by followers of its last row.
THEOREM QueueRefinesLedgerRows == QSpec => ImplementsLedgerRows
BY QueueImplementsWriter, RowsRefinement

\* An account has what the payments that went through have brought and taken.
THEOREM QueueConservesMoney ==
    ASSUME NEW CONSTANT sum, IsSum(sum)
    PROVE  QSpec => []BalanceIs(sum)
BY QueueRefinesAtomicLedger, AtomicConserves, PTL

\* The payment of a deleted job has one row, in the ledger of its own account
\* and with its own amount, and none anywhere else.
PaidOnce ==
    \A j \in Jobs :
        job[j].status = "done" =>
            LET p == job[j].payment
            IN  \E i \in DOMAIN ledger[AccountOf[p]] :
                   /\ ledger[AccountOf[p]][i].op = p
                   /\ ledger[AccountOf[p]][i].amount = AmountOf[p]
                   /\ \A a \in Accounts : \A k \in DOMAIN ledger[a] :
                         ledger[a][k].op = p => a = AccountOf[p] /\ k = i

\* A job that is gone moved the money once, however often it ran, and whatever
\* other jobs and messages there were of its payment.
THEOREM PaidOnceCorrect == QSpec => []PaidOnce
<1>1. QueueInv => PaidOnce
    <2> SUFFICES ASSUME QueueInv, NEW j \in Jobs, job[j].status = "done",
                        NEW p, p = job[j].payment
                 PROVE  \E i \in DOMAIN ledger[AccountOf[p]] :
                           /\ ledger[AccountOf[p]][i].op = p
                           /\ ledger[AccountOf[p]][i].amount = AmountOf[p]
                           /\ \A a \in Accounts : \A k \in DOMAIN ledger[a] :
                                 ledger[a][k].op = p => a = AccountOf[p] /\ k = i
        BY DEF PaidOnce
    <2>1. p \in Payments /\ AccountOf[p] \in Accounts
        BY PaymentAssumption DEF QueueInv, QueueTypeOK, JobRows
    <2>2. p \in Applied(ledger[AccountOf[p]])
        BY DEF QueueInv, DoneMeansApplied
    <2>3. PICK i \in DOMAIN ledger[AccountOf[p]] : ledger[AccountOf[p]][i].op = p
        BY <2>2 DEF Applied
    <2>4. \A a \in Accounts : ledger[a] \in Seq(Rows) /\ GoodLedger(a, ledger[a])
        BY DEF QueueInv, IInv, TypeInv, TypeOK, LedgerInv
    <2>5. ASSUME NEW a \in Accounts, NEW k \in DOMAIN ledger[a], ledger[a][k].op = p
          PROVE  k > 1 /\ AccountOf[p] = a /\ AmountOf[p] = ledger[a][k].amount
        <3>1. k \in Nat \ {0}
            BY <2>4
        <3>2. k # 1
            BY <2>1, <2>4, <2>5, PaymentAssumption DEF GoodLedger
        <3> QED
            BY <2>4, <2>5, <3>1, <3>2 DEF GoodLedger
    <2>6. \A k \in DOMAIN ledger[AccountOf[p]] :
             ledger[AccountOf[p]][k].op = p => k = i
        BY <2>1, <2>3, <2>4 DEF GoodLedger
    <2> QED
        BY <2>3, <2>1, <2>5, <2>6
<1> QED
    BY <1>1, QueueInvariance, PTL

-----------------------------------------------------------------------------
(* No payment without a message.                                           *)

\* Nobody in the system works on p, and no ledger has it.
Untouched(p) ==
    /\ \A j \in Jobs : job[j].payment = p => job[j].status = "none"
    /\ \A w \in Workers : payment[w] = p => pc[w] = "idle"
    /\ \A a \in Accounts : p \notin Applied(ledger[a])

\* Money moves only after another service has asked for it.
NothingUnasked == \A p \in Payments : message[p] = "unsent" => Untouched(p)

\* A transaction adds the payment of its own worker to a ledger, or none.
LEMMA AppliedByWorker ==
    ASSUME IInv, [Next]_vars, NEW p \in Payments, NEW a \in Accounts,
           p \notin Applied(ledger[a]), p \in Applied(ledger'[a])
    PROVE  \E w \in Workers : payment[w] = p /\ pc[w] = "commit"
<1>0. ledger \in [Accounts -> Seq(Rows)]
    BY DEF IInv, TypeInv, TypeOK
<1>1. ledger'[a] # ledger[a]
    OBVIOUS
<1>2. \/ \E b \in Accounts : OpenAccount(b)
      \/ \E w \in Workers, o \in Outcomes : Commit(w, o)
    BY <1>1 DEF vars, Next, AdminNext, WorkerNext, WriteStatus, CommitStatus,
                RollbackStatus, Begin, Handle, Disturb, Finish, UnknownAccount,
                RejectInactive, LockAccount, SkipDuplicate, CheckDuplicate,
                RejectPayment, ReadPrevious, Insert, FailInsert, Abort, End,
                Outcomes
<1>3. ASSUME NEW b \in Accounts, OpenAccount(b) PROVE FALSE
    <2>1. ledger'[a] = <<OpeningRow(a)>>
        BY <1>0, <1>1, <1>3 DEF OpenAccount
    <2>2. p = a
        BY <2>1 DEF Applied, OpeningRow
    <2> QED
        BY <2>2, PaymentAssumption
<1>4. ASSUME NEW w \in Workers, NEW o \in Outcomes, Commit(w, o)
      PROVE  payment[w] = p /\ pc[w] = "commit"
    <2>1. pc[w] = "commit"
        BY <1>4 DEF Commit
    <2>2. row[w].op = payment[w] /\ row[w] \in Rows
        <3>1. row[w] = Follow(ledger[Target(w)][Len(ledger[Target(w)])], payment[w])
            BY <2>1, CommitFacts
        <3>2. row[w] \in Rows
            BY <2>1 DEF IInv, TypeInv, InsertHasRow
        <3> QED
            BY <3>1, <3>2 DEF Follow
    <2>3. ledger'[a] = Append(ledger[a], row[w])
        BY <1>0, <1>1, <1>4 DEF Commit
    <2>4. PICK i \in DOMAIN ledger'[a] : ledger'[a][i].op = p
        BY DEF Applied
    <2>5. ledger[a] \in Seq(Rows)
        BY <1>0
    <2>6. i \notin DOMAIN ledger[a]
        <3>1. CASE i \in DOMAIN ledger[a]
            <4>1. ledger[a][i].op = p
                BY <2>3, <2>4, <2>5, <3>1
            <4> QED
                BY <3>1, <4>1 DEF Applied
        <3> QED
            BY <3>1
    <2>7. ledger'[a][i] = row[w]
        <3> DEFINE rows == ledger[a]
                   new == row[w]
        <3>1. rows \in Seq(Rows) /\ new \in Rows /\ i \in DOMAIN Append(rows, new)
              /\ i \notin DOMAIN rows
            BY <2>2, <2>3, <2>4, <2>5, <2>6
        <3> HIDE DEF rows, new
        <3>2. Append(rows, new)[i] = new
            BY <3>1
        <3> QED
            BY <2>3, <3>2 DEF rows, new
    <2> QED
        BY <2>1, <2>2, <2>4, <2>7
<1> QED
    BY <1>2, <1>3, <1>4

\* Before its message is there, no step touches a payment.
LEMMA UnaskedStep ==
    ASSUME QueueInv, NothingUnasked, QNext
    PROVE  NothingUnasked'
<1> SUFFICES ASSUME NEW p \in Payments, message'[p] = "unsent"
             PROVE  Untouched(p)'
    BY DEF NothingUnasked
<1> USE DEF QueueInv, QueueTypeOK
<1>0. /\ IInv /\ [Next]_vars
      /\ pc \in [Workers -> Steps] /\ payment \in [Workers -> Payments]
    BY QueueStepsWrite DEF IInv, TypeInv, TypeOK
<1>1. message[p] = "unsent"
    BY DEF QNext, Subscribers, Publish, Enqueue, DeadLetter, Acknowledge, Redeliver,
           Consumers, Pick, PickStalled, HandOut, Run, Settle, Crash, DropSession,
           Administer, queueVars
<1>2. Untouched(p)
    BY <1>1 DEF NothingUnasked
<1>3. \A a \in Accounts : p \notin Applied(ledger'[a])
    BY <1>0, <1>2, AppliedByWorker DEF Untouched
<1>4. ASSUME NEW j \in Jobs, job'[j].payment = p PROVE job'[j].status = "none"
    <2>1. CASE job' = job
        BY <1>2, <1>4, <2>1 DEF Untouched
    <2>2. ASSUME NEW q \in Payments, NEW i \in Jobs, Enqueue(q, i) PROVE job'[j].status = "none"
        <3>1. q # p
            BY <1>1, <2>2 DEF Enqueue
        <3> QED
            BY <1>2, <1>4, <2>2, <3>1 DEF Enqueue, Untouched
    <2>3. ASSUME NEW w \in Workers, NEW i \in Jobs, Pick(w, i) \/ PickStalled(w, i)
          PROVE  job'[j].status = "none"
        <3>1. job[i].status # "none"
            BY <2>3 DEF Pick, PickStalled, Abandoned, Stalled
        <3>2. job' = [job EXCEPT ![i].status = "picked"]
            BY <2>3 DEF Pick, PickStalled, HandOut
        <3>3. job'[j].payment = job[j].payment
            BY <3>2 DEF JobRows
        <3>4. job[j].status = "none"
            BY <1>2, <1>4, <3>3 DEF Untouched
        <3>5. job'[j] = job[j]
            BY <3>1, <3>2, <3>4
        <3> QED
            BY <3>4, <3>5
    <2>4. ASSUME NEW w \in Workers, Settle(w) PROVE job'[j].status = "none"
        <3>1. /\ taken[w] \in Jobs /\ job[taken[w]].status # "none"
              /\ Settled(w).payment = job[taken[w]].payment
              /\ job' = [job EXCEPT ![taken[w]] = Settled(w)] \/ job' = job
            BY <2>4, SettledFacts DEF Settle, Finish
        <3>2. job[taken[w]].payment # p
            BY <1>2, <3>1 DEF Untouched
        <3>3. j # taken[w]
            BY <1>4, <3>1, <3>2
        <3> QED
            BY <1>2, <1>4, <3>1, <3>3 DEF Untouched
    <2> QED
        BY <2>1, <2>2, <2>3, <2>4 DEF QNext, Subscribers, Publish, DeadLetter, Acknowledge,
           Redeliver, Consumers, Run, Crash, DropSession, Administer, queueVars
<1>5. ASSUME NEW w \in Workers, payment'[w] = p PROVE pc'[w] = "idle"
    <2>1. CASE payment' = payment /\ pc' = pc
        BY <1>2, <1>5, <2>1 DEF Untouched
    <2>2. ASSUME NEW v \in Workers, NEW i \in Jobs, Pick(v, i) \/ PickStalled(v, i)
          PROVE  pc'[w] = "idle"
        <3>1. job[i].payment # p
            BY <1>2, <2>2 DEF Pick, PickStalled, Abandoned, Stalled, Untouched
        <3>2. Begin(v, job[i].payment)
            BY <2>2 DEF Pick, PickStalled, HandOut
        <3>3. v # w
            BY <1>0, <1>5, <3>1, <3>2 DEF Begin
        <3> QED
            BY <1>0, <1>2, <1>5, <3>2, <3>3 DEF Begin, GoTo, Untouched
    <2>3. ASSUME NEW v \in Workers, Handle(v) \/ Disturb(v) \/ Commit(v, "done") \/ Finish(v)
          PROVE  pc'[w] = "idle"
        <3>1. /\ pc[v] # "idle"
              /\ payment' = payment
              /\ \A u \in Workers \ {v} : pc'[u] = pc[u]
            BY <1>0, <2>3 DEF Handle, Disturb, Finish, UnknownAccount, RejectInactive,
                        LockAccount, SkipDuplicate, CheckDuplicate, RejectPayment,
                        ReadPrevious, Insert, FailInsert, Commit, Abort, End, GoTo,
                        Locked, Outcomes
        <3> QED
            BY <1>2, <1>5, <3>1 DEF Untouched
    <2> QED
        BY <2>1, <2>2, <2>3 DEF QNext, Subscribers, Publish, Enqueue, DeadLetter,
           Acknowledge, Redeliver, Consumers, Run, Settle, Crash, DropSession, Disturb,
           Administer, AdminNext, OpenAccount, WriteStatus, CommitStatus, RollbackStatus,
           vars, workerVars
<1> QED
    BY <1>3, <1>4, <1>5 DEF Untouched

\* No redelivery, retry or crash makes the system apply a payment that nobody
\* has sent: what is in a ledger, in a job or in a worker has come as a message.
THEOREM NothingUnaskedCorrect == QSpec => []NothingUnasked
<1>1. QInit => NothingUnasked
    BY DEF QInit, Init, NothingUnasked, Untouched, Applied
<1>2. QueueInv /\ NothingUnasked /\ [QNext]_allVars => NothingUnasked'
    <2>1. QueueInv /\ NothingUnasked /\ UNCHANGED allVars => NothingUnasked'
        BY DEF NothingUnasked, Untouched, allVars, vars, queueVars, workVars
    <2> QED
        BY <2>1, UnaskedStep
<1> QED
    BY <1>1, <1>2, QueueInvariance, PTL DEF QSpec

=============================================================================
