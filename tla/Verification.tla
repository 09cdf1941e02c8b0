---------------------------- MODULE Verification ----------------------------
(***************************************************************************)
(* The ledger verifier, its checkpoints and incidents, and the endpoint    *)
(* that accepts a break.  Payments append rows one at a time and in the    *)
(* order of their numbers (LedgerWriter shows that the row lock makes them *)
(* do so), and rows are changed behind the program's back, which is what   *)
(* the verifier is there to find.                                          *)
(*                                                                         *)
(* A verifier run is one transaction: the advisory lock, one query whose   *)
(* snapshot covers all accounts, then a checkpoint or an incident per      *)
(* account, invisible to others until the commit.  A resolution reads in   *)
(* three statements, writes in two, is answered, and commits after that.   *)
(***************************************************************************)
EXTENDS ChainCheck, Sequences

CONSTANTS
    Accounts,
    Verifiers,         \* consumer processes whose scheduler runs the job
    Admins,            \* administrators resolving incidents
    Amounts,           \* amounts of the payments that arrive
    MaxRows,           \* bound: row numbers of an account
    MaxBalance,        \* bound: balances, of payments and of tampering
    MaxTampers,        \* bound: how often a row is changed from outside
    AccountsPerRun,    \* ledger_verify_accounts_per_run
    RowsPerAccount,    \* ledger_verify_rows_per_account
    OneSession,        \* do get_session and get_tx_session give one session?
    Nobody             \* the owner of the free advisory lock

ASSUME VerificationAssumption ==
    /\ IsFiniteSet(Accounts)
    /\ Amounts \subseteq Int
    /\ MaxRows \in Nat \ {0} /\ MaxBalance \in Nat /\ MaxTampers \in Nat
    /\ AccountsPerRun \in Nat \ {0}
    /\ RowsPerAccount \in Nat \ {0}
    /\ OneSession \in BOOLEAN
    /\ Nobody \notin Verifiers

VARIABLES
    rows,          \* rows[a]: the committed ledger rows of a
    checkpoints,   \* checkpoints[a]: customer_account_ledger_verified
    order,         \* <<a, b>>: a's latest checkpoint has an older verified_at
    aged,          \* accounts whose latest checkpoint is past its maximum age
    incidents,     \* incidents[a]: customer_account_ledger_discrepancy, by id
    lock,          \* who holds pg_try_advisory_xact_lock
    batch,         \* batch[v]: what the run of v read and has yet to commit
    resolution,    \* resolution[m]: where the request of administrator m is
    tampers        \* how many rows were changed from outside

ledgerVars == <<rows, tampers>>
verifierVars == <<lock, batch>>
recordVars == <<checkpoints, order, incidents>>
vars == <<rows, checkpoints, order, aged, incidents, lock, batch, resolution, tampers>>

-----------------------------------------------------------------------------
NoAnchor == [no |-> 0, balance |-> 0]

\* find_latest_checkpoint, and the lateral join of the query.
Latest(a) == IF checkpoints[a] = {} THEN NoAnchor ELSE Highest(checkpoints[a])

OpenIncidents(a) == {i \in DOMAIN incidents[a] : incidents[a][i].open}

\* add_checkpoint: ON CONFLICT (account_id, through_no) DO NOTHING.
WithCheckpoint(cs, c) == IF \E d \in cs : d.no = c.no THEN cs ELSE cs \cup {c}

\* record_discrepancy: ON CONFLICT on the open incident DO NOTHING.
WithIncident(log, break) ==
    IF \E i \in DOMAIN log : log[i].open
    THEN log
    ELSE Append(log, [no |-> break.no, kind |-> break.kind, open |-> TRUE])

Checkpointed == {a \in Accounts : checkpoints[a] # {}}

\* The accounts whose latest checkpoint is another one in `new`.
Renewed(new) == {a \in Accounts : new[a] # {} /\ Highest(new[a]).no > Latest(a).no}

\* Faulty variants of Due: quarantined accounts are selected; a checkpoint
\* that is too old does not count.
DueInQuarantine(a) ==
    /\ \/ checkpoints[a] = {}
       \/ a \in aged
       \/ \E r \in rows[a] : r.no - Latest(a).no >= RowsPerAccount
    /\ \E r \in rows[a] : r.no > Latest(a).no

DueByRows(a) ==
    /\ \/ checkpoints[a] = {}
       \/ \E r \in rows[a] : r.no - Latest(a).no >= RowsPerAccount
    /\ OpenIncidents(a) = {}
    /\ \E r \in rows[a] : r.no > Latest(a).no

\* targets: a new, an aged or a far enough ledger, not in quarantine, with a
\* row past its checkpoint.
Due(a) ==
    /\ \/ checkpoints[a] = {}
       \/ a \in aged
       \/ \E r \in rows[a] : r.no - Latest(a).no >= RowsPerAccount
    /\ OpenIncidents(a) = {}
    /\ \E r \in rows[a] : r.no > Latest(a).no

\* ORDER BY verified_at ASC NULLS FIRST
Before(a, b) ==
    \/ checkpoints[a] = {} /\ checkpoints[b] # {}
    \/ <<a, b>> \in order

\* The accounts of one run: at most AccountsPerRun, none of them before one
\* that is left out.
Targets ==
    LET due == {a \in Accounts : Due(a)}
        size == IF Cardinality(due) < AccountsPerRun
                THEN Cardinality(due) ELSE AccountsPerRun
    IN  {t \in SUBSET due : /\ Cardinality(t) = size
                            /\ \A a \in t, b \in due \ t : ~Before(b, a)}

-----------------------------------------------------------------------------
Init ==
    /\ rows = [a \in Accounts |-> {[no |-> 1, amount |-> 0, balance |-> 0]}]
    /\ checkpoints = [a \in Accounts |-> {}]
    /\ order = {}
    /\ aged = {}
    /\ incidents = [a \in Accounts |-> <<>>]
    /\ lock = Nobody
    /\ batch = [v \in Verifiers |-> {}]
    /\ resolution = [m \in Admins |-> [step |-> "idle"]]
    /\ tampers = 0

\* on_create_payment, as LedgerWriter shows it to be: the follower of the
\* last entry, in one step.
Pay(a, amount) ==
    LET last == Highest(rows[a])
        next == [no |-> last.no + 1, amount |-> amount, balance |-> last.balance + amount]
    IN  /\ rows[a] # {}
        /\ next.no <= MaxRows
        /\ next.balance \in 0 .. MaxBalance
        /\ rows' = [rows EXCEPT ![a] = @ \cup {next}]
        /\ UNCHANGED <<recordVars, aged, verifierVars, resolution, tampers>>

\* Somebody changes a balance, or deletes a row, outside the program.
Tamper(a, new) ==
    /\ tampers < MaxTampers
    /\ rows' = [rows EXCEPT ![a] = new]
    /\ tampers' = tampers + 1
    /\ UNCHANGED <<recordVars, aged, verifierVars, resolution>>

Falsified(a, r, b) == (rows[a] \ {r}) \cup {[r EXCEPT !.balance = b]}

\* ledger_verify_max_checkpoint_age_seconds pass.
Age(a) ==
    /\ checkpoints[a] # {}
    /\ a \notin aged
    /\ aged' = aged \cup {a}
    /\ UNCHANGED <<ledgerVars, recordVars, verifierVars, resolution>>

-----------------------------------------------------------------------------
\* verify_customer_account_ledger: the run that gets the advisory lock reads
\* its batch.  A run that does not get it returns and changes nothing.
\* Faulty variant of LockFree: a lock every run gets.
LockIgnored == TRUE

LockFree == lock = Nobody
TakeLock(v) == lock' = v

TakeBatch(v) ==
    /\ batch[v] = {}
    /\ LockFree
    /\ TakeLock(v)
    /\ \E targets \in Targets :
          /\ targets # {}
          /\ batch' = [batch EXCEPT ![v] =
                {[account |-> a,
                  found |-> Verify(rows[a], Latest(a), RowsPerAccount + 1)] :
                    a \in targets}]
    /\ UNCHANGED <<ledgerVars, recordVars, aged, resolution>>

\* Administrators whose writes are made and not yet committed.
Uncommitted == {m \in Admins : resolution[m].step = "answered"}

\* What the run writes for account a, if a is in its batch.
FoundFor(v, a) == {b.found : b \in {c \in batch[v] : c.account = a}}

RecordedCheckpoints(v, a) ==
    LET good == {f.lastGood : f \in {g \in FoundFor(v, a) : ShouldCheckpoint(g)}}
    IN  IF good = {} THEN checkpoints[a]
        ELSE WithCheckpoint(checkpoints[a], CHOOSE c \in good : TRUE)

RecordedIncidents(v, a) ==
    LET breaks == {f.break : f \in FoundFor(v, a)} \ {NoBreak}
    IN  IF breaks = {} THEN incidents[a]
        ELSE WithIncident(incidents[a], CHOOSE b \in breaks : TRUE)

Unlock(v) ==
    /\ lock' = IF lock = v THEN Nobody ELSE lock
    /\ batch' = [batch EXCEPT ![v] = {}]

\* Insert checkpoints: verified_at orders the accounts by the latest one, in
\* one of the orders a run writes them in.
Record(new) ==
    LET renewed == Renewed(new)
        kept == Checkpointed \ renewed
    IN  /\ checkpoints' = new
        /\ aged' = aged \ renewed
        /\ \E written \in [1 .. Cardinality(renewed) -> renewed] :
              /\ \A a \in renewed : \E i \in DOMAIN written : written[i] = a
              /\ order' = (order \cap (kept \X kept))
                            \cup (kept \X renewed)
                            \cup {p \in renewed \X renewed :
                                     \E i, j \in DOMAIN written :
                                        i < j /\ p = <<written[i], written[j]>>}

\* The insert of a checkpoint waits for a resolution that inserts the same one.
CommitBatch(v) ==
    /\ batch[v] # {}
    /\ \A m \in Uncommitted : \A f \in FoundFor(v, resolution[m].account) :
          ShouldCheckpoint(f) => f.lastGood.no # resolution[m].checkpoint.no
    /\ Record([a \in Accounts |-> RecordedCheckpoints(v, a)])
    /\ incidents' = [a \in Accounts |-> RecordedIncidents(v, a)]
    /\ Unlock(v)
    /\ UNCHANGED <<ledgerVars, resolution>>

\* The run fails, or its process dies: everything is rolled back.
AbortBatch(v) ==
    /\ batch[v] # {}
    /\ Unlock(v)
    /\ UNCHANGED <<ledgerVars, recordVars, aged, resolution>>

-----------------------------------------------------------------------------
\* resolve_customer_account_ledger_discrepancy: find_open_discrepancy.
FindIncident(m, a) ==
    /\ resolution[m].step \in {"idle", "lost"}
    /\ \E i \in OpenIncidents(a) :
          resolution' = [resolution EXCEPT ![m] =
                            [step |-> "found", account |-> a, incident |-> i]]
    /\ UNCHANGED <<ledgerVars, recordVars, aged, verifierVars>>

\* through_no of the request, 0 if it gave none; the default is the broken
\* row, but for an anchor_balance break there is none.
Through(incident, requested) ==
    IF requested # 0 THEN requested
    ELSE IF incident.kind = "anchor_balance" THEN 0 ELSE incident.no

\* Faulty variant of Acceptable: the row of the checkpoint is accepted again.
AcceptableAgain(a, through) ==
    /\ through >= Latest(a).no
    /\ \E r \in rows[a] : r.no = through

Acceptable(a, through) ==
    /\ through > Latest(a).no
    /\ \E r \in rows[a] : r.no = through

\* find_latest_checkpoint and find_ledger_balance, and the checks on them.
Review(m, requested) ==
    LET a == resolution[m].account
        i == resolution[m].incident
        through == Through(incidents[a][i], requested)
    IN  /\ resolution[m].step = "found"
        /\ Acceptable(a, through)
        /\ \E r \in rows[a] :
              /\ r.no = through
              /\ resolution' = [resolution EXCEPT ![m] =
                    [step |-> "reviewed", account |-> a, incident |-> i,
                     checkpoint |-> [no |-> through, balance |-> r.balance]]]
        /\ UNCHANGED <<ledgerVars, recordVars, aged, verifierVars>>

\* The request is answered with 422.
Refuse(m, requested) ==
    LET a == resolution[m].account
        i == resolution[m].incident
    IN  /\ resolution[m].step = "found"
        /\ ~Acceptable(a, Through(incidents[a][i], requested))
        /\ resolution' = [resolution EXCEPT ![m] = [step |-> "idle"]]
        /\ UNCHANGED <<ledgerVars, recordVars, aged, verifierVars>>

\* add_checkpoint and resolve_discrepancy run on the session of the
\* repository and 204 is answered, before anything is committed.  The insert
\* waits for another transaction that is inserting the same checkpoint.
Resolve(m) ==
    /\ resolution[m].step = "reviewed"
    /\ \A n \in Uncommitted :
          \/ resolution[n].account # resolution[m].account
          \/ resolution[n].checkpoint.no # resolution[m].checkpoint.no
    /\ resolution' = [resolution EXCEPT ![m].step = "answered"]
    /\ UNCHANGED <<ledgerVars, recordVars, aged, verifierVars>>

\* The dependencies are torn down: the session of get_tx_session commits, that
\* of get_session is closed.  The writes are committed only if the two give
\* one session.
EndResolution(m) ==
    LET a == resolution[m].account
        i == resolution[m].incident
    IN  /\ resolution[m].step = "answered"
        /\ resolution' = [resolution EXCEPT ![m] = [step |-> "idle"]]
        /\ IF OneSession
           THEN /\ Record([checkpoints EXCEPT ![a] =
                              WithCheckpoint(@, resolution[m].checkpoint)])
                /\ incidents' = [incidents EXCEPT ![a][i].open = FALSE]
           ELSE UNCHANGED <<recordVars, aged>>
        /\ UNCHANGED <<ledgerVars, verifierVars>>

\* The COMMIT fails, or the process dies, after the answer: both writes are
\* rolled back.
LoseResolution(m) ==
    /\ resolution[m].step = "answered"
    /\ resolution' = [resolution EXCEPT ![m] = [step |-> "lost"]]
    /\ UNCHANGED <<ledgerVars, recordVars, aged, verifierVars>>

-----------------------------------------------------------------------------
World ==
    \E a \in Accounts :
        \/ \E amount \in Amounts : Pay(a, amount)
        \/ \E r \in rows[a] :
              \/ Tamper(a, rows[a] \ {r})
              \/ \E b \in (0 .. MaxBalance) \ {r.balance} : Tamper(a, Falsified(a, r, b))
        \/ Age(a)

Scheduler ==
    \E v \in Verifiers : TakeBatch(v) \/ CommitBatch(v) \/ AbortBatch(v)

Endpoint ==
    \E m \in Admins :
        \/ \E a \in Accounts : FindIncident(m, a)
        \/ \E requested \in 0 .. MaxRows : Review(m, requested) \/ Refuse(m, requested)
        \/ Resolve(m) \/ EndResolution(m) \/ LoseResolution(m)

Next == World \/ Scheduler \/ Endpoint

Spec == Init /\ [][Next]_vars

\* The scheduler fires every five minutes and a run that is not disturbed for
\* ever commits; checkpoints age.  Nobody has to pay, tamper or resolve.
Fairness ==
    /\ WF_vars(\E v \in Verifiers : TakeBatch(v))
    /\ \A v \in Verifiers : SF_vars(CommitBatch(v))
    /\ \A a \in Accounts : WF_vars(Age(a))

FairSpec == Spec /\ Fairness

-----------------------------------------------------------------------------
Kinds == {"gap", "balance", "gap_balance", "anchor_balance"}
RowType == [no : 1 .. MaxRows, amount : Amounts \cup {0}, balance : 0 .. MaxBalance]

TypeOK ==
    /\ \A a \in Accounts :
          /\ rows[a] \subseteq RowType
          /\ checkpoints[a] \subseteq [no : 1 .. MaxRows, balance : 0 .. MaxBalance]
          /\ \A i \in DOMAIN incidents[a] :
                incidents[a][i] \in [no : 1 .. MaxRows, kind : Kinds, open : BOOLEAN]
    \* verified_at orders the accounts with a checkpoint
    /\ order \subseteq Checkpointed \X Checkpointed
    /\ \A a, b \in Checkpointed : <<a, b>> \in order <=> a # b /\ <<b, a>> \notin order
    /\ \A a, b, c \in Checkpointed :
          <<a, b>> \in order /\ <<b, c>> \in order => <<a, c>> \in order
    /\ aged \subseteq Accounts
    /\ lock \in Verifiers \cup {Nobody}
    /\ tampers \in 0 .. MaxTampers

\* A ledger nobody tampered with is never reported, whatever rows arrive
\* between the query and the commit, and its checkpoints are its balances.
HonestLedgerPasses ==
    tampers = 0 =>
        \A a \in Accounts :
            /\ incidents[a] = <<>>
            /\ \A c \in checkpoints[a] :
                  \E r \in rows[a] : r.no = c.no /\ r.balance = c.balance

\* An incident is news: when it is recorded, no checkpoint is past the break,
\* so a break that was accepted is not reported again.
IncidentsAreAhead ==
    [][\A a \in Accounts :
          Len(incidents'[a]) > Len(incidents[a])
              => \A c \in checkpoints[a] :
                    c.no <= incidents'[a][Len(incidents'[a])].no]_vars

\* Quarantine: while an incident is open, only its resolution moves the
\* checkpoint; the verifier leaves the account alone.
QuarantineHolds ==
    [][\A a \in Accounts :
          OpenIncidents(a) # {} /\ checkpoints'[a] # checkpoints[a]
              => OpenIncidents(a)' = {}]_vars

\* A break is accepted for good: the commit that lifts a quarantine moves the
\* anchor of the account, whatever the verifier did between the review and the
\* commit, so the next run starts past what was accepted.
AcceptanceMovesAnchor ==
    [][\A a \in Accounts :
          OpenIncidents(a) # {} /\ OpenIncidents(a)' = {}
              => Latest(a)'.no > Latest(a).no]_vars

\* A checkpoint never certifies a break silently: the run that moves it and
\* finds a break stops right before the break and opens the incident in the
\* same commit.
BreakIsNotPassed ==
    [][\A v \in Verifiers : \A a \in Accounts :
          \A f \in FoundFor(v, a) :
              f.break # NoBreak /\ checkpoints'[a] # checkpoints[a]
                  => /\ \A c \in checkpoints'[a] \ checkpoints[a] : c.no < f.break.no
                     /\ Len(incidents'[a]) > Len(incidents[a])]_vars

\* Every row is verified in the end, or its account is in quarantine: one bad
\* account cannot keep the others from being verified.
RowsGetVerified ==
    \A a \in Accounts : \A n \in 1 .. MaxRows :
        (\E r \in rows[a] : r.no = n) ~>
            \/ Latest(a).no >= n
            \/ OpenIncidents(a) # {}
            \/ ~ \E r \in rows[a] : r.no = n

\* "Force a checkpoint past a break and lift the account's quarantine": when a
\* request that was answered with 204 has ended, and its COMMIT did not fail,
\* the incident it was about is no longer open.
ResolveLiftsQuarantine ==
    [][\A m \in Admins :
          resolution[m].step = "answered" /\ resolution'[m].step = "idle"
              => ~incidents'[resolution[m].account][resolution[m].incident].open]_vars

=============================================================================
