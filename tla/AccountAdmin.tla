---------------------------- MODULE AccountAdmin ----------------------------
(***************************************************************************)
(* The endpoints that create, update and delete customer accounts: the     *)
(* optimistic lock that spans two requests of a client (the version token),*)
(* the history row that versioned_history.py writes with every update, and *)
(* the outbox, the customer-account.created job that an account is created *)
(* with and that a consumer turns into an event.                           *)
(*                                                                         *)
(* A request runs in one transaction of READ COMMITTED: what it flushed is *)
(* seen by others when it commits, and other writers of the same row or of *)
(* the same unique key wait until then.                                    *)
(***************************************************************************)
EXTENDS Integers, FiniteSets

CONSTANTS
    Accounts,      \* ids, each used by one create request (uuid7)
    Requests,      \* API requests that run concurrently
    KeyOf,         \* the (customer_id, currency) an account is created for
    Names,         \* names of accounts
    MaxVersion,    \* bound: versions of an account
    MaxLosses,     \* bound: transactions that are lost
    MaxAttempts,   \* max_attempts of the entrypoint
    Wirings,       \* may get_session and get_tx_session give one session?
    None           \* no account, or nothing read

Statuses == {"active", "disabled", "deleted"}

ASSUME AdminAssumption ==
    /\ MaxVersion \in Nat \ {0}
    /\ MaxLosses \in Nat
    /\ MaxAttempts \in Nat
    /\ Wirings \subseteq BOOLEAN
    /\ None \notin Accounts
    /\ None \notin [version : Nat, status : Statuses, name : Names]

VARIABLES
    account,       \* account[a]: the committed row, or None
    history,       \* history[a]: the committed rows of customer_account_history
    job,           \* job[a]: the customer-account.created job of an account
    announced,     \* accounts the broker was told of
    request,       \* request[r]: how far request r is
    losses,        \* how many transactions were lost
    oneSession     \* do get_session and get_tx_session give one session?

tables == <<account, history>>
jobVars == <<job, announced>>
vars == <<tables, jobVars, request, losses, oneSession>>

-----------------------------------------------------------------------------
NoJob == [status |-> "none", attempts |-> 0]
Queued(a) == [job EXCEPT ![a].status = "queued"]

Idle == [step |-> "idle", account |-> None, seen |-> None, copy |-> None, new |-> None]

Version(n, status, name) == [version |-> n, status |-> status, name |-> name]

\* Faulty variants of Edited: a PATCH clears the name it does not give; the
\* mapper counts the version as well.
EditedBare(copy, status, name, again) == Version(copy.version + 1, status, None)

EditedTwice(copy, status, name, again) ==
    IF status = copy.status /\ name = copy.name /\ again
    THEN copy
    ELSE Version(copy.version + 2, status, name)

\* create_version: the version moves only when an attribute changes.  One of
\* them is updated_by: `again` says that the one who made the last change makes
\* this one too.
Edited(copy, status, name, again) ==
    IF status = copy.status /\ name = copy.name /\ again
    THEN copy
    ELSE Version(copy.version + 1, status, name)

Writes(r) == request[r].new # request[r].copy

\* Faulty variant of RowLocked: nobody waits.
RowNeverLocked(a) == FALSE

\* An uncommitted UPDATE or INSERT that others wait for.
RowLocked(a) ==
    \E r \in Requests :
        request[r].step = "flushed" /\ request[r].account = a /\ Writes(r)

KeyPending(key) ==
    \E r \in Requests :
        request[r].step \in {"inserted", "enqueued"} /\ KeyOf[request[r].account] = key

KeyTaken(key) == \E a \in Accounts : account[a] # None /\ KeyOf[a] = key

Advance(r, state) == request' = [request EXCEPT ![r] = state]
GoTo(r, step) == Advance(r, [request[r] EXCEPT !.step = step])
End(r) == Advance(r, Idle)

-----------------------------------------------------------------------------
Init ==
    /\ account = [a \in Accounts |-> None]
    /\ history = [a \in Accounts |-> {}]
    /\ job = [a \in Accounts |-> NoJob]
    /\ announced = {}
    /\ request = [r \in Requests |-> Idle]
    /\ losses = 0
    /\ oneSession \in Wirings

\* create_customer_account up to the flush.  If the key is taken, the answer
\* is 400 and nothing changes.
InsertAccount(r, a, name) ==
    /\ request[r].step = "idle"
    /\ account[a] = None
    /\ job[a] = NoJob
    /\ \A q \in Requests : request[q].account # a
    /\ ~KeyPending(KeyOf[a]) /\ ~KeyTaken(KeyOf[a])
    /\ Advance(r, [Idle EXCEPT !.step = "inserted", !.account = a,
                               !.new = Version(1, "active", name)])
    /\ UNCHANGED <<tables, jobVars, losses, oneSession>>

\* queries.enqueue: in the transaction of the request if both dependencies
\* give one session, else on a connection that has none and commits at once.
EnqueueCreated(r) ==
    /\ request[r].step = "inserted"
    /\ job' = IF oneSession THEN job ELSE Queued(request[r].account)
    /\ GoTo(r, "enqueued")
    /\ UNCHANGED <<tables, announced, losses, oneSession>>

CommitCreate(r) ==
    LET a == request[r].account
    IN  /\ request[r].step = "enqueued"
        /\ account' = [account EXCEPT ![a] = request[r].new]
        /\ job' = IF oneSession THEN Queued(a) ELSE job
        /\ End(r)
        /\ UNCHANGED <<history, announced, losses, oneSession>>

-----------------------------------------------------------------------------
\* The client lists the accounts: it sees one, and its version token.
Load(r, a) ==
    /\ request[r].step = "idle"
    /\ account[a] # None
    /\ Advance(r, [Idle EXCEPT !.step = "loaded", !.account = a, !.seen = account[a]])
    /\ UNCHANGED <<tables, jobVars, losses, oneSession>>

\* Faulty variant of TokenMatches: the token is not verified.
TokenIgnored(r) == TRUE

\* find_by_id and the checks of PATCH and DELETE on what it returned.
TokenMatches(r) == request[r].seen.version = account[request[r].account].version

Check(r, status, name, again) ==
    LET copy == account[request[r].account]
    IN  /\ request[r].step = "loaded"
        /\ copy.status # "deleted"
        /\ TokenMatches(r)
        /\ status = "deleted" => name = copy.name
        /\ copy.version < MaxVersion
        /\ Advance(r, [request[r] EXCEPT !.step = "checked", !.copy = copy,
                                         !.new = Edited(copy, status, name, again)])
        /\ UNCHANGED <<tables, jobVars, losses, oneSession>>

\* 404 or 409
Refuse(r) ==
    /\ request[r].step = "loaded"
    /\ account[request[r].account].status = "deleted" \/ ~TokenMatches(r)
    /\ End(r)
    /\ UNCHANGED <<tables, jobVars, losses, oneSession>>

\* Faulty variant of CurrentVersion: UPDATE ... WHERE id = ... alone.
AnyVersion(r) == TRUE

\* session.flush: UPDATE ... WHERE id = ... AND version = ..., after waiting
\* for the row, and the INSERT of the history row.
CurrentVersion(r) == account[request[r].account].version = request[r].copy.version

Flush(r) ==
    /\ request[r].step = "checked"
    /\ oneSession
    /\ Writes(r) => ~RowLocked(request[r].account) /\ CurrentVersion(r)
    /\ GoTo(r, "flushed")
    /\ UNCHANGED <<tables, jobVars, losses, oneSession>>

\* No row has that version any more: StaleDataError is answered with 409.
FlushStale(r) ==
    /\ request[r].step = "checked"
    /\ oneSession
    /\ Writes(r) /\ ~RowLocked(request[r].account) /\ ~CurrentVersion(r)
    /\ End(r)
    /\ UNCHANGED <<tables, jobVars, losses, oneSession>>

\* The repository read the account in another session: session.add raises
\* InvalidRequestError, and the answer is 500.
AddForeign(r) ==
    /\ request[r].step = "checked"
    /\ ~oneSession
    /\ End(r)
    /\ UNCHANGED <<tables, jobVars, losses, oneSession>>

\* create_version's row: the attributes as they were read.
Archived(r) == IF Writes(r) THEN {request[r].copy} ELSE {}

CommitUpdate(r) ==
    LET a == request[r].account
    IN  /\ request[r].step = "flushed"
        /\ account' = [account EXCEPT ![a] = IF Writes(r) THEN request[r].new ELSE @]
        /\ history' = [history EXCEPT ![a] = @ \cup Archived(r)]
        /\ End(r)
        /\ UNCHANGED <<jobVars, losses, oneSession>>

\* A statement or the COMMIT fails, the client goes away, the process dies.
Lose(r) ==
    /\ request[r].step # "idle"
    /\ losses < MaxLosses
    /\ losses' = losses + 1
    /\ End(r)
    /\ UNCHANGED <<tables, jobVars, oneSession>>

-----------------------------------------------------------------------------
(* on_customer_account_created                                             *)

WithStatus(a, status) == [job EXCEPT ![a].status = status]

PickJob(a) ==
    /\ job[a].status = "queued"
    /\ job' = WithStatus(a, "picked")
    /\ UNCHANGED <<tables, announced, request, losses, oneSession>>

PublishEvent(a) ==
    /\ job[a].status = "picked"
    /\ announced' = announced \cup {a}
    /\ job' = WithStatus(a, "published")
    /\ UNCHANGED <<tables, request, losses, oneSession>>

LastAttempt(a) == job[a].attempts >= MaxAttempts

\* broker.publish raises, though the broker may have the event; the executor
\* asks for a retry or holds the job.
FailEvent(a) ==
    /\ job[a].status = "picked"
    /\ announced' \in {announced, announced \cup {a}}
    /\ job' = IF LastAttempt(a)
              THEN WithStatus(a, "held")
              ELSE [job EXCEPT ![a] = [status |-> "queued", attempts |-> @.attempts + 1]]
    /\ UNCHANGED <<tables, request, losses, oneSession>>

\* Faulty variant of FinishJob: the job goes when it is picked.
FinishPicked(a) ==
    /\ job[a].status \in {"picked", "published"}
    /\ job' = WithStatus(a, "done")
    /\ UNCHANGED <<tables, announced, request, losses, oneSession>>

\* The handler returned: pgqueuer deletes the job.
FinishJob(a) ==
    /\ job[a].status = "published"
    /\ job' = WithStatus(a, "done")
    /\ UNCHANGED <<tables, announced, request, losses, oneSession>>

\* The consumer dies: the job is picked again, which is not counted.
AbandonJob(a) ==
    /\ job[a].status \in {"picked", "published"}
    /\ job' = WithStatus(a, "queued")
    /\ UNCHANGED <<tables, announced, request, losses, oneSession>>

-----------------------------------------------------------------------------
Create(r) ==
    \/ \E a \in Accounts, name \in Names : InsertAccount(r, a, name)
    \/ EnqueueCreated(r)
    \/ CommitCreate(r)

Update(r) ==
    \/ \E a \in Accounts : Load(r, a)
    \/ \E status \in Statuses, name \in Names, again \in BOOLEAN :
          Check(r, status, name, again)
    \/ Refuse(r)
    \/ Flush(r)
    \/ FlushStale(r)
    \/ AddForeign(r)
    \/ CommitUpdate(r)

Announce(a) ==
    \/ PickJob(a)
    \/ PublishEvent(a)
    \/ FailEvent(a)
    \/ FinishJob(a)
    \/ AbandonJob(a)

Next ==
    \/ \E r \in Requests : Create(r) \/ Update(r) \/ Lose(r)
    \/ \E a \in Accounts : Announce(a)

Spec == Init /\ [][Next]_vars

-----------------------------------------------------------------------------
Row == [version : 1 .. MaxVersion, status : Statuses, name : Names]
Steps == {"idle", "loaded", "checked", "flushed", "inserted", "enqueued"}

JobStatuses == {"none", "queued", "picked", "published", "done", "held"}

TypeOK ==
    /\ account \in [Accounts -> Row \cup {None}]
    /\ history \in [Accounts -> SUBSET Row]
    /\ job \in [Accounts -> [status : JobStatuses, attempts : 0 .. MaxAttempts]]
    /\ announced \subseteq Accounts
    /\ request \in [Requests -> [step : Steps, account : Accounts \cup {None},
                                 seen : Row \cup {None}, copy : Row \cup {None},
                                 new : Row \cup {None}]]
    /\ losses \in 0 .. MaxLosses
    /\ oneSession \in Wirings

\* Every version an account had before its current one is in the history,
\* once: no two concurrent updates share a version number.
HistoryIsDense ==
    \A a \in Accounts :
        IF account[a] = None
        THEN history[a] = {}
        ELSE /\ {h.version : h \in history[a]} = 1 .. account[a].version - 1
             /\ Cardinality(history[a]) = account[a].version - 1

\* An update archives exactly the row it replaces, though it copied it from
\* what it read before it waited for the row.
HistoryKeepsTheReplaced ==
    [][\A a \in Accounts :
          account[a] # None /\ account'[a] # account[a]
              => history'[a] = history[a] \cup {account[a]}]_vars

\* No lost update: whatever runs between a client's read and the commit of
\* its change, the row that is replaced is the one the client was shown.
NoLostUpdate ==
    [][\A r \in Requests :
          LET a == request[r].account
          IN  request[r].step = "flushed" /\ Writes(r) /\ account'[a] # account[a]
                  => account[a] = request[r].seen]_vars

\* The outbox, as test_outbox.py states it: no job "survives the rollback, and
\* an event is published for a write that never happened".  An account that is
\* queued or announced exists, or its request is still at work.
NoEventForNothing ==
    \A a \in Accounts :
        job[a] # NoJob \/ a \in announced
            => account[a] # None \/ \E r \in Requests : request[r].account = a

\* Its other half, for both wirings: an account never exists without its event
\* being published or its job being at work or held, wherever the request is
\* lost, a publication fails or a consumer dies.  A job is held only after all
\* its attempts.
EveryAccountIsAnnounced ==
    \A a \in Accounts :
        /\ account[a] # None => job[a] # NoJob
        /\ job[a].status = "done" => a \in announced
        /\ job[a].status = "held" => job[a].attempts = MaxAttempts

\* The endpoints open accounts and change statuses as AtomicLedger says: an
\* account is opened once, active, and a deleted account stays deleted, even
\* if an update that read it alive is still under way.
Atomic == INSTANCE AtomicLedger WITH
              Payments <- {}, AccountOf <- <<>>, AmountOf <- <<>>, MaxBalance <- 0,
              status <- [a \in Accounts |->
                            IF account[a] = None THEN "absent" ELSE account[a].status],
              applied <- [a \in Accounts |-> {}],
              balance <- [a \in Accounts |-> 0]

ImplementsStatuses == Atomic!Spec

=============================================================================
