---------------------------- MODULE PaymentQueue ----------------------------
(***************************************************************************)
(* A payment on its way from the broker to the ledger.  The subscribers    *)
(* (on_payment_deposited, on_payment_withdrawn) turn a message into a      *)
(* payment.create job and acknowledge it; pgqueuer hands the job to a      *)
(* worker; the worker runs the transaction of LedgerWriter; and            *)
(* DlqRetryEntrypointExecutor decides from its outcome whether the job is  *)
(* deleted, retried or held.                                               *)
(*                                                                         *)
(* A subscriber may fail before, at and after its insert: FastStream then  *)
(* rejects the message, and the dead-letter queue keeps it.  Between any   *)
(* two steps a process may die: a message that was not acknowledged is     *)
(* delivered again, a job whose heartbeat is old is picked again, though   *)
(* its process may only have stalled and goes on, and the database session *)
(* of a dead worker lingers until the server drops it, or carries out the  *)
(* COMMIT it had been sent.                                                *)
(***************************************************************************)
EXTENDS LedgerWriter, FiniteSets

CONSTANTS
    Jobs,          \* rows of pgqueuer's table, one per enqueue
    MaxAttempts,   \* max_attempts of the executor
    MaxFaults,     \* bound: how often a worker process dies or stalls
    NoJob          \* "the worker has no job"

ASSUME QueueAssumption ==
    /\ MaxAttempts \in Nat
    /\ MaxFaults \in Nat
    /\ Workers # {} /\ IsFiniteSet(Workers)
    /\ NoJob \notin Jobs
    /\ Payments # {}

VARIABLES
    message,       \* message[p]: where the broker's message of p is
    job,           \* job[j]: pgqueuer's row
    taken,         \* taken[w]: the job the process of worker w runs
    handed,        \* handed[w]: the attempts in the Job it was handed
    faults,        \* how many processes died, or stalled until their job was
                   \* picked again
    failures       \* failures[j]: executions of j that ended with an error
                   \* that may be retried (history, read by no action)

workVars == <<taken, handed, faults, failures>>
queueVars == <<message, job, workVars>>
allVars == <<vars, queueVars>>

-----------------------------------------------------------------------------
(* Subscribers.                                                            *)

Messages == {"unsent", "ready", "handled", "acked", "dead"}
JobStatuses == {"none", "queued", "picked", "done", "held"}

\* dedupe_key() is payment.create.<id>; pgqueuer's unique index on it covers
\* the jobs that are queued or picked.
DedupeKeyInUse(p) ==
    \E j \in Jobs : job[j].payment = p /\ job[j].status \in {"queued", "picked"}

\* Another service publishes the payment.
Publish(p) ==
    /\ message[p] = "unsent"
    /\ message' = [message EXCEPT ![p] = "ready"]
    /\ UNCHANGED <<vars, job, workVars>>

\* The handler enqueues the job on a connection that commits at once.  (The
\* job rows bound how often a redelivered message can be enqueued again.)
Enqueue(p, j) ==
    /\ message[p] = "ready"
    /\ job[j].status = "none"
    /\ ~DedupeKeyInUse(p)
    /\ job' = [job EXCEPT ![j] = [status |-> "queued", payment |-> p, attempts |-> 0]]
    /\ message' = [message EXCEPT ![p] = "handled"]
    /\ UNCHANGED <<vars, workVars>>

\* An exception leaves the handler or one of its dependencies: the message
\* cannot be decoded, the database of the queue is out of reach, the insert
\* raises DuplicateJobError; or, with the job inserted already, the reply to
\* the insert or the session is lost.  FastStream rejects the message by
\* default, and the queue's x-dead-letter-exchange takes it.
DeadLetter(p) ==
    /\ message[p] \in {"ready", "handled"}
    /\ message' = [message EXCEPT ![p] = "dead"]
    /\ UNCHANGED <<vars, job, workVars>>

\* Faulty variant of Acknowledge: the message is acknowledged on receipt.
AcknowledgeOnReceipt(p) ==
    /\ message[p] \in {"ready", "handled"}
    /\ message' = [message EXCEPT ![p] = "acked"]
    /\ UNCHANGED <<vars, job, workVars>>

Acknowledge(p) ==
    /\ message[p] = "handled"
    /\ message' = [message EXCEPT ![p] = "acked"]
    /\ UNCHANGED <<vars, job, workVars>>

\* The subscriber is gone before it acknowledged or rejected.
Redeliver(p) ==
    /\ message[p] = "handled"
    /\ message' = [message EXCEPT ![p] = "ready"]
    /\ UNCHANGED <<vars, job, workVars>>

-----------------------------------------------------------------------------
(* Consumers.                                                              *)

\* Faulty variant of Abandoned: no picked job is handed out again.
NeverAbandoned(j) == FALSE

\* The process that ran the job is gone, and its heartbeat with it.
Abandoned(j) == job[j].status = "picked" /\ \A w \in Workers : taken[w] # j

\* It lives, but its heartbeat is late; it does not learn of what follows.
Stalled(j) == job[j].status = "picked" /\ \E w \in Workers : taken[w] = j

HandOut(w, j) ==
    /\ Begin(w, job[j].payment)
    /\ job' = [job EXCEPT ![j].status = "picked"]
    /\ taken' = [taken EXCEPT ![w] = j]
    /\ handed' = [handed EXCEPT ![w] = job[j].attempts]
    /\ UNCHANGED <<message, failures>>

\* pgqueuer hands out a queued job, or a picked one whose heartbeat is old.
Pick(w, j) ==
    /\ job[j].status = "queued" \/ Abandoned(j)
    /\ HandOut(w, j)
    /\ UNCHANGED faults

PickStalled(w, j) ==
    /\ Stalled(j)
    /\ faults < MaxFaults
    /\ faults' = faults + 1
    /\ HandOut(w, j)

\* The worker's process is alive and the transaction goes on.
Run(w) ==
    /\ taken[w] # NoJob
    /\ Handle(w) \/ Disturb(w)
    /\ UNCHANGED queueVars

\* Faulty variants of LastAttempt: one attempt too few; no limit.
LastAttemptEarly(w) == handed[w] + 1 >= MaxAttempts
NoLastAttempt(w) == FALSE

\* The executor counts by the Job it was handed, not by pgqueuer's row.
LastAttempt(w) == handed[w] >= MaxAttempts

\* Faulty variant of Settled: a TerminalJobError is swallowed.
SettledQuietly(w) ==
    LET old == job[taken[w]]
    IN  CASE pc[w] \in {"done", "rejected"} -> [old EXCEPT !.status = "done"]
          [] pc[w] = "failed" /\ LastAttempt(w) -> [old EXCEPT !.status = "held"]
          [] pc[w] = "failed" /\ ~LastAttempt(w) ->
                [old EXCEPT !.status = "queued", !.attempts = @ + 1]

\* DlqRetryEntrypointExecutor.execute: a job whose handler returned is
\* deleted; a TerminalJobError holds it; any other exception retries it
\* unless this was the last attempt.
Settled(w) ==
    LET old == job[taken[w]]
    IN  CASE pc[w] = "done" -> [old EXCEPT !.status = "done"]
          [] pc[w] = "rejected" -> [old EXCEPT !.status = "held"]
          [] pc[w] = "failed" /\ LastAttempt(w) -> [old EXCEPT !.status = "held"]
          [] pc[w] = "failed" /\ ~LastAttempt(w) ->
                [old EXCEPT !.status = "queued", !.attempts = @ + 1]

\* The row is still there, and no other one has its dedupe key if it is to be
\* queued again.
Recordable(w) ==
    /\ job[taken[w]].status # "done"
    /\ Settled(w).status = "queued" =>
          \A i \in Jobs \ {taken[w]} :
              job[i].payment = job[taken[w]].payment
                  => job[i].status \notin {"queued", "picked"}

\* Another process was handed the job of w, or has settled it.
Superseded(w) ==
    \/ job[taken[w]].status # "picked"
    \/ \E v \in Workers \ {w} : taken[v] = taken[w]

\* The executor is through.  Whether its verdict still counts after the job
\* was handed to another process is pgqueuer's affair: both are possible.
Settle(w) ==
    /\ taken[w] # NoJob
    /\ Finish(w)
    /\ \/ Recordable(w) /\ job' = [job EXCEPT ![taken[w]] = Settled(w)]
       \/ Superseded(w) /\ UNCHANGED job
    /\ failures' = [failures EXCEPT ![taken[w]] = IF pc[w] = "failed" THEN @ + 1 ELSE @]
    /\ taken' = [taken EXCEPT ![w] = NoJob]
    /\ handed' = [handed EXCEPT ![w] = 0]
    /\ UNCHANGED <<message, faults>>

\* The process dies; its session stays behind in whatever state it is.
Crash(w) ==
    /\ taken[w] # NoJob
    /\ faults < MaxFaults
    /\ faults' = faults + 1
    /\ taken' = [taken EXCEPT ![w] = NoJob]
    /\ handed' = [handed EXCEPT ![w] = 0]
    /\ UNCHANGED <<vars, message, job, failures>>

\* The server rolls the session of a dead process back, or carries out the
\* COMMIT that was on its way.
DropSession(w) ==
    /\ taken[w] = NoJob
    /\ Abort(w) \/ Commit(w, "done") \/ Finish(w)
    /\ UNCHANGED queueVars

Administer == AdminNext /\ UNCHANGED queueVars

-----------------------------------------------------------------------------
QInit ==
    /\ Init
    /\ message = [p \in Payments |-> "unsent"]
    /\ job = [j \in Jobs |-> [status |-> "none", attempts |-> 0,
                              payment |-> CHOOSE p \in Payments : TRUE]]
    /\ taken = [w \in Workers |-> NoJob]
    /\ handed = [w \in Workers |-> 0]
    /\ faults = 0
    /\ failures = [j \in Jobs |-> 0]

Subscribers ==
    \E p \in Payments :
        \/ Publish(p)
        \/ \E j \in Jobs : Enqueue(p, j)
        \/ DeadLetter(p)
        \/ Acknowledge(p)
        \/ Redeliver(p)

Consumers ==
    \E w \in Workers :
        \/ \E j \in Jobs : Pick(w, j) \/ PickStalled(w, j)
        \/ Run(w)
        \/ Settle(w)
        \/ Crash(w)
        \/ DropSession(w)

QNext == Subscribers \/ Consumers \/ Administer

QSpec == QInit /\ [][QNext]_allVars

\* The broker delivers and the subscriber ends one way or the other; pgqueuer
\* goes on handing out jobs; a worker goes on with its transaction and its
\* executor always settles the job; PostgreSQL grants row locks in the order of
\* the requests and drops dead sessions; an administrative transaction ends.
\* Nothing is assumed of losses, crashes and stalls, or of the creation of
\* accounts.
Fairness ==
    /\ \A p \in Payments :
          /\ WF_allVars(DeadLetter(p) \/ \E j \in Jobs : Enqueue(p, j))
          /\ WF_allVars(DeadLetter(p) \/ Acknowledge(p))
    /\ \A j \in Jobs : SF_allVars(\E w \in Workers : Pick(w, j))
    /\ \A w \in Workers :
          /\ WF_allVars(Run(w) /\ Handle(w))
          /\ SF_allVars(Run(w) /\ (LockAccount(w) \/ RejectInactive(w)))
          /\ WF_allVars(Settle(w))
          /\ WF_allVars(DropSession(w))
    /\ \A a \in Accounts :
          WF_allVars((CommitStatus(a) \/ RollbackStatus(a)) /\ UNCHANGED queueVars)

FairQSpec == QSpec /\ Fairness

-----------------------------------------------------------------------------
QTypeOK ==
    /\ TypeOK
    /\ message \in [Payments -> Messages]
    /\ job \in [Jobs -> [status : JobStatuses, payment : Payments, attempts : Nat]]
    /\ taken \in [Workers -> Jobs \cup {NoJob}]
    /\ handed \in [Workers -> Nat]
    /\ faults \in 0 .. MaxFaults
    /\ failures \in [Jobs -> Nat]

\* A job is deleted only when its payment is in the ledger: neither a crash
\* nor a lost reply nor a redelivery nor a second process that runs the same
\* job makes the queue forget a payment.
DoneMeansApplied ==
    \A j \in Jobs :
        job[j].status = "done" =>
            job[j].payment \in Applied(ledger[AccountOf[job[j].payment]])

\* What the broker and the dead-letter queue have no more is in the ledger or
\* in a row of pgqueuer's table, waiting, running or held: an acknowledgement
\* loses no payment, whatever became of the job since.  (A rejected message
\* stays in the dead-letter queue, where nothing but a human looks after it.)
NoPaymentLost ==
    \A p \in Payments :
        message[p] = "acked" =>
            \/ p \in Applied(ledger[AccountOf[p]])
            \/ \E j \in Jobs : /\ job[j].payment = p
                              /\ job[j].status \in {"queued", "picked", "held"}

\* A job whose payment was not refused is held only after the executions that
\* max_attempts allows, the first and MaxAttempts retries, have all failed.
\* A process that died or stalled uses up no attempt, though its successor
\* and the stalled process may count from the same number.
FailureExhaustsAttempts ==
    [][\A j \in Jobs :
          job[j].status # "held" /\ job'[j].status = "held" =>
              \E w \in Workers :
                  /\ taken[w] = j
                  /\ pc[w] = "rejected" \/ failures'[j] > MaxAttempts]_allVars

\* A job is not retried for ever.  The executor compares max_attempts with the
\* number in the Job it was handed, which is out of date once the job is handed
\* to another process: the limit may be passed, but only by one retry for each
\* of the other workers.
RetriesBounded ==
    \A j \in Jobs : job[j].attempts <= MaxAttempts + (Cardinality(Workers) - 1)

\* A message that is delivered becomes a job or ends in the dead-letter queue,
\* and a job ends in the ledger or is held, whatever is lost on the way and
\* however many processes run it.
PaymentSettles ==
    /\ \A p \in Payments :
          message[p] = "ready" ~>
              \/ message[p] = "dead"
              \/ \E j \in Jobs : job[j].payment = p /\ job[j].status # "none"
    /\ \A j \in Jobs :
          job[j].status \in {"queued", "picked"} ~> job[j].status \in {"done", "held"}

=============================================================================
