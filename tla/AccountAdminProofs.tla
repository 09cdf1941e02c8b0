------------------------- MODULE AccountAdminProofs -------------------------
(***************************************************************************)
(* Proofs about AccountAdmin, for any accounts, keys, names, concurrent    *)
(* requests, attempts and losses, and for both ways of wiring the          *)
(* sessions.                                                               *)
(*                                                                         *)
(* The strengthening says what each request knows (RequestOK): a row that  *)
(* was shown to a client or read by a request is the current one as long   *)
(* as its version is the current one; an update that was flushed holds the *)
(* row it read; a create request is alone with its account.  The last two  *)
(* relate requests to each other (Apart).                                  *)
(***************************************************************************)
EXTENDS AccountAdmin, FiniteSetTheorems, TLAPS

-----------------------------------------------------------------------------
(* The strengthening.                                                      *)

RequestType == [step : Steps, account : Accounts \cup {None}, seen : Row \cup {None},
                copy : Row \cup {None}, new : Row \cup {None}]

\* A row of an account that was read some time ago.
Shown(x, a) ==
    /\ x \in Row
    /\ x.version <= account[a].version
    /\ x.version = account[a].version => x = account[a]

\* What a request with the record q knows.
Loaded(q) ==
    q.step \in {"loaded", "checked", "flushed"} =>
        /\ q.account \in Accounts
        /\ account[q.account] \in Row
        /\ Shown(q.seen, q.account)

Checked(q) ==
    q.step \in {"checked", "flushed"} =>
        /\ Shown(q.copy, q.account)
        /\ q.copy.version = q.seen.version
        /\ q.copy.status # "deleted"
        /\ q.new \in Row
        /\ q.new = q.copy \/ q.new.version = q.copy.version + 1

Flushed(q) ==
    q.step = "flushed" /\ q.new # q.copy => q.copy = account[q.account]

Pending(q) ==
    q.step \in {"inserted", "enqueued"} =>
        /\ q.account \in Accounts
        /\ account[q.account] = None
        /\ q.new \in Row
        /\ q.new.version = 1
        /\ q.new.status = "active"
        /\ q.step = "enqueued" /\ ~oneSession => job[q.account].status # "none"

RequestOK(q) == Loaded(q) /\ Checked(q) /\ Flushed(q) /\ Pending(q)

\* What request q excludes of another one.
Apart(q, other) ==
    /\ q.step \in {"inserted", "enqueued"} => other.account # q.account
    /\ q.step = "flushed" /\ q.new # q.copy =>
          ~(other.step = "flushed" /\ other.new # other.copy /\ other.account = q.account)

RequestInv ==
    /\ \A r \in Requests : RequestOK(request[r])
    /\ \A r, s \in Requests : r # s => Apart(request[r], request[s])

\* The job of an account, for both wirings.
JobInv ==
    \A a \in Accounts :
        /\ job[a].status = "none" => job[a] = NoJob
        /\ job[a].status \in {"published", "done"} => a \in announced
        /\ job[a].status = "held" => job[a].attempts = MaxAttempts
        /\ account[a] # None => job[a].status # "none"

HistoryInv ==
    /\ HistoryIsDense
    /\ \A a \in Accounts : IsFiniteSet(history[a])

AdminInv == TypeOK /\ RequestInv /\ JobInv /\ HistoryInv

-----------------------------------------------------------------------------
(* Helpers.                                                                *)

\* None is not a row, so a committed account is told from a missing one.
LEMMA RowsAreNotNone == None \notin Row
<1>1. Row \subseteq [version : Nat, status : Statuses, name : Names]
    BY AdminAssumption DEF Row
<1> QED
    BY <1>1, AdminAssumption

\* An attribute that changes moves the version by one, and nothing else does.
LEMMA EditedFacts ==
    ASSUME NEW copy \in Row, copy.version < MaxVersion,
           NEW status \in Statuses, NEW name \in Names, NEW again \in BOOLEAN
    PROVE  LET new == Edited(copy, status, name, again)
           IN  /\ new \in Row
               /\ new = copy \/ new.version = copy.version + 1
<1>1. copy.version + 1 \in 1 .. MaxVersion
    BY AdminAssumption DEF Row
<1> QED
    BY <1>1 DEF Edited, Version, Row

\* A request that moves on, while the tables stay as they are.
LEMMA AdvanceStep ==
    ASSUME AdminInv, NEW r \in Requests, NEW state \in RequestType,
           Advance(r, state), UNCHANGED <<tables, oneSession>>,
           \A a \in Accounts : job[a].status # "none" => job'[a].status # "none",
           RequestOK(state)',
           \A q \in Requests \ {r} : Apart(state, request[q]) /\ Apart(request[q], state)
    PROVE  RequestInv' /\ request' \in [Requests -> RequestType]
<1>1. /\ request \in [Requests -> RequestType]
      /\ request'[r] = state
      /\ \A q \in Requests \ {r} : request'[q] = request[q]
      /\ request' \in [Requests -> RequestType]
    BY DEF AdminInv, TypeOK, RequestType, Advance
<1>2. ASSUME NEW q \in Requests \ {r} PROVE RequestOK(request[q])'
    <2>1. account' = account /\ oneSession' = oneSession /\ request'[q] = request[q]
        BY <1>1 DEF tables
    <2>2. RequestOK(request[q])
        BY DEF AdminInv, RequestInv
    <2> QED
        BY <2>1, <2>2 DEF RequestOK, Loaded, Checked, Flushed, Pending, Shown
<1>3. RequestOK(request[r])'
    BY <1>1 DEF RequestOK, Loaded, Checked, Flushed, Pending, Shown
<1>4. \A q \in Requests : RequestOK(request[q])'
    BY <1>2, <1>3
<1>5. \A q, s \in Requests : q # s => Apart(request[q], request[s])'
    BY <1>1 DEF AdminInv, RequestInv, Apart
<1> QED
    BY <1>1, <1>4, <1>5 DEF RequestInv

\* A request that moves on, while nothing else changes.
LEMMA QuietStep ==
    ASSUME AdminInv, NEW r \in Requests, NEW state \in RequestType,
           Advance(r, state), UNCHANGED <<tables, jobVars, oneSession>>,
           losses' \in 0 .. MaxLosses,
           RequestOK(state)',
           \A q \in Requests \ {r} : Apart(state, request[q]) /\ Apart(request[q], state)
    PROVE  AdminInv'
<1>1. account' = account /\ history' = history /\ job' = job /\ announced' = announced
    BY DEF tables, jobVars
<1>2. RequestInv' /\ request' \in [Requests -> RequestType]
    BY <1>1, AdvanceStep
<1>3. TypeOK'
    BY <1>1, <1>2 DEF AdminInv, TypeOK, RequestType
<1>4. JobInv' /\ HistoryInv'
    BY <1>1 DEF AdminInv, JobInv, HistoryInv, HistoryIsDense
<1> QED
    BY <1>2, <1>3, <1>4 DEF AdminInv

\* A request that is over knows nothing and excludes nothing.
LEMMA IdleFacts ==
    ASSUME AdminInv
    PROVE  /\ Idle \in RequestType
           /\ RequestOK(Idle) /\ RequestOK(Idle)'
           /\ \A q \in Requests : Apart(Idle, request[q]) /\ Apart(request[q], Idle)
<1>1. Idle \in RequestType
    BY DEF Idle, RequestType, Steps
<1>2. RequestOK(Idle) /\ RequestOK(Idle)'
    BY DEF Idle, RequestOK, Loaded, Checked, Flushed, Pending
<1>3. ASSUME NEW q \in Requests PROVE Apart(Idle, request[q]) /\ Apart(request[q], Idle)
    <2>1. RequestOK(request[q])
        BY DEF AdminInv, RequestInv
    <2> QED
        BY <2>1, AdminAssumption DEF Idle, Apart, RequestOK, Pending
<1> QED
    BY <1>1, <1>2, <1>3

\* 404, 409, 500, or a request that is lost.
LEMMA EndStep ==
    ASSUME AdminInv, NEW r \in Requests,
           Refuse(r) \/ FlushStale(r) \/ AddForeign(r) \/ Lose(r)
    PROVE  AdminInv'
<1>1. Advance(r, Idle) /\ UNCHANGED <<tables, jobVars, oneSession>>
    BY DEF Refuse, FlushStale, AddForeign, Lose, End
<1>2. losses' \in 0 .. MaxLosses
    BY AdminAssumption DEF Refuse, FlushStale, AddForeign, Lose, AdminInv, TypeOK
<1> QED
    BY <1>1, <1>2, IdleFacts, QuietStep

-----------------------------------------------------------------------------
(* Updates.                                                                *)

\* The client is shown the current row.
LEMMA LoadStep ==
    ASSUME AdminInv, NEW r \in Requests, NEW a \in Accounts, Load(r, a)
    PROVE  AdminInv'
<1>1. PICK x : x = [Idle EXCEPT !.step = "loaded", !.account = a, !.seen = account[a]]
    OBVIOUS
<1>2. /\ account[a] # None /\ Advance(r, x)
      /\ UNCHANGED <<tables, jobVars, losses, oneSession>>
    BY <1>1 DEF Load
<1>3. account[a] \in Row /\ account' = account
    BY <1>2 DEF AdminInv, TypeOK, tables
<1>4. x = [step |-> "loaded", account |-> a, seen |-> account[a], copy |-> None, new |-> None]
    BY <1>1 DEF Idle
<1>5. x \in RequestType
    BY <1>3, <1>4 DEF RequestType, Steps
<1>6. RequestOK(x)'
    BY <1>3, <1>4 DEF RequestOK, Loaded, Checked, Flushed, Pending, Shown, Row
<1>7. ASSUME NEW q \in Requests PROVE Apart(x, request[q]) /\ Apart(request[q], x)
    <2>1. RequestOK(request[q])
        BY DEF AdminInv, RequestInv
    <2> QED
        BY <1>2, <1>4, <2>1 DEF Apart, RequestOK, Pending
<1>8. losses' \in 0 .. MaxLosses
    BY <1>2 DEF AdminInv, TypeOK
<1> QED
    BY <1>2, <1>5, <1>6, <1>7, <1>8, QuietStep

\* The request reads the row again: it is the one the client was shown, and
\* the change is built on it.
LEMMA CheckStep ==
    ASSUME AdminInv, NEW r \in Requests, NEW status \in Statuses, NEW name \in Names,
           NEW again \in BOOLEAN, Check(r, status, name, again)
    PROVE  AdminInv'
<1> DEFINE a == request[r].account
           new == Edited(account[a], status, name, again)
<1>1. PICK x : x = [request[r] EXCEPT !.step = "checked", !.copy = account[a], !.new = new]
    OBVIOUS
<1>2. /\ request[r].step = "loaded"
      /\ account[a].status # "deleted"
      /\ TokenMatches(r)
      /\ account[a].version < MaxVersion
      /\ Advance(r, x)
      /\ UNCHANGED <<tables, jobVars, losses, oneSession>>
    BY <1>1 DEF Check
<1>3. RequestOK(request[r]) /\ request[r] \in RequestType
    BY DEF AdminInv, RequestInv, TypeOK, RequestType
<1>4. /\ a \in Accounts /\ account[a] \in Row /\ Shown(request[r].seen, a)
      /\ account' = account
    BY <1>2, <1>3 DEF RequestOK, Loaded, tables
<1>5. new \in Row /\ (new = account[a] \/ new.version = account[a].version + 1)
    BY <1>2, <1>4, EditedFacts
<1>6. request[r].seen.version = account[a].version
    BY <1>2 DEF TokenMatches
<1> HIDE DEF new
<1>7. x = [step |-> "checked", account |-> a, seen |-> request[r].seen,
           copy |-> account[a], new |-> new]
    BY <1>1, <1>3 DEF RequestType
<1>8. x \in RequestType
    BY <1>3, <1>4, <1>5, <1>7 DEF RequestType, Steps
<1>9. RequestOK(x)'
    BY <1>2, <1>4, <1>5, <1>6, <1>7
       DEF RequestOK, Loaded, Checked, Flushed, Pending, Shown, Row
<1>10. ASSUME NEW q \in Requests \ {r} PROVE Apart(x, request[q]) /\ Apart(request[q], x)
    <2>1. Apart(request[q], request[r])
        BY DEF AdminInv, RequestInv
    <2> QED
        BY <1>7, <2>1 DEF Apart
<1>11. losses' \in 0 .. MaxLosses
    BY <1>2 DEF AdminInv, TypeOK
<1> QED
    BY <1>2, <1>8, <1>9, <1>10, <1>11, QuietStep

\* The UPDATE has waited for the row and found the version it read.
LEMMA FlushStep ==
    ASSUME AdminInv, NEW r \in Requests, Flush(r)
    PROVE  AdminInv'
<1>1. PICK x : x = [request[r] EXCEPT !.step = "flushed"]
    OBVIOUS
<1>2. /\ request[r].step = "checked"
      /\ Writes(r) => ~RowLocked(request[r].account) /\ CurrentVersion(r)
      /\ Advance(r, x)
      /\ UNCHANGED <<tables, jobVars, losses, oneSession>>
    BY <1>1 DEF Flush, GoTo
<1>3. RequestOK(request[r]) /\ request[r] \in RequestType /\ account' = account
    BY <1>2 DEF AdminInv, RequestInv, TypeOK, RequestType, tables
<1>4. x = [step |-> "flushed", account |-> request[r].account, seen |-> request[r].seen,
           copy |-> request[r].copy, new |-> request[r].new]
    BY <1>1, <1>3 DEF RequestType
<1>5. x \in RequestType
    BY <1>3, <1>4 DEF RequestType, Steps
<1>6. RequestOK(x)'
    BY <1>2, <1>3, <1>4
       DEF RequestOK, Loaded, Checked, Flushed, Pending, Shown, Writes, CurrentVersion
<1>7. ASSUME NEW q \in Requests \ {r} PROVE Apart(x, request[q]) /\ Apart(request[q], x)
    <2>1. Apart(request[q], request[r])
        BY DEF AdminInv, RequestInv
    <2>2. x.new # x.copy => ~(/\ request[q].step = "flushed"
                              /\ request[q].new # request[q].copy
                              /\ request[q].account = x.account)
        BY <1>2, <1>4 DEF Writes, RowLocked
    <2> QED
        BY <1>4, <2>1, <2>2 DEF Apart
<1>8. losses' \in 0 .. MaxLosses
    BY <1>2 DEF AdminInv, TypeOK
<1> QED
    BY <1>2, <1>5, <1>6, <1>7, <1>8, QuietStep

\* What an update knows when it commits.
LEMMA FlushedFacts ==
    ASSUME AdminInv, NEW r \in Requests, request[r].step = "flushed"
    PROVE  LET a == request[r].account
           IN  /\ a \in Accounts /\ account[a] \in Row
               /\ request[r].new \in Row /\ request[r].copy.status # "deleted"
               /\ Writes(r) => /\ request[r].copy = account[a]
                               /\ request[r].seen = account[a]
                               /\ request[r].new.version = account[a].version + 1
<1>1. RequestOK(request[r])
    BY DEF AdminInv, RequestInv
<1> QED
    BY <1>1 DEF RequestOK, Loaded, Checked, Flushed, Shown, Writes

\* The new row and the history row become visible together.
LEMMA CommitUpdateStep ==
    ASSUME AdminInv, NEW r \in Requests, CommitUpdate(r)
    PROVE  AdminInv'
<1> DEFINE a == request[r].account
           row == account[a]
           new == request[r].new
<1>1. /\ request[r].step = "flushed"
      /\ account' = [account EXCEPT ![a] = IF Writes(r) THEN new ELSE row]
      /\ history' = [history EXCEPT ![a] = history[a] \cup Archived(r)]
      /\ request' = [request EXCEPT ![r] = Idle]
      /\ UNCHANGED <<job, announced, losses, oneSession>>
    BY DEF CommitUpdate, End, Advance, jobVars
<1>2. /\ a \in Accounts /\ row \in Row /\ new \in Row
      /\ Writes(r) => request[r].copy = row /\ new.version = row.version + 1
    BY <1>1, FlushedFacts
<1>3. /\ account \in [Accounts -> Row \cup {None}]
      /\ history \in [Accounts -> SUBSET Row]
      /\ request \in [Requests -> RequestType]
      /\ row \in Row /\ row # None /\ new # None
    BY <1>2, RowsAreNotNone DEF AdminInv, TypeOK, RequestType
<1>4. Archived(r) \subseteq Row
    BY <1>2 DEF Archived
<1> HIDE DEF a, row, new
<1>5. TypeOK'
    <2>1. Idle \in RequestType
        BY IdleFacts
    <2> QED
        BY <1>1, <1>2, <1>3, <1>4, <2>1 DEF AdminInv, TypeOK, RequestType, row
<1>6. RequestInv'
    <2>1. ASSUME NEW q \in Requests PROVE RequestOK(request[q])'
        <3>1. CASE q = r
            <4>1. request'[q] = Idle
                BY <1>1, <1>3, <3>1
            <4> QED
                BY <4>1 DEF RequestOK, Loaded, Checked, Flushed, Pending, Idle
        <3>2. CASE q # r
            <4>1. /\ request'[q] = request[q] /\ RequestOK(request[q])
                  /\ Apart(request[q], request[r])
                BY <1>1, <1>3, <3>2 DEF AdminInv, RequestInv
            <4>2. CASE request[q].account # a
                <5>1. account'[request[q].account] = account[request[q].account]
                    BY <1>1, <1>3, <4>2
                <5> QED
                    BY <1>1, <4>1, <5>1
                       DEF RequestOK, Loaded, Checked, Flushed, Pending, Shown
            <4>3. CASE request[q].account = a
                <5>1. request[q].step \notin {"inserted", "enqueued"}
                    BY <4>1, <4>3 DEF Apart, a
                <5>2. Writes(r) => ~(request[q].step = "flushed" /\ request[q].new # request[q].copy)
                    BY <1>1, <4>1, <4>3 DEF Apart, Writes, a
                <5>3. account'[a] = IF Writes(r) THEN new ELSE row
                    BY <1>1, <1>2, <1>3
                <5>4. CASE Writes(r)
                    <6>1. ASSUME NEW v, Shown(v, a)
                          PROVE  v \in Row /\ v.version < account'[a].version
                        BY <1>2, <5>3, <5>4, <6>1 DEF Shown, Row, row
                    <6>2. request'[q].account = a /\ account'[a] \in Row
                        BY <1>2, <4>1, <4>3, <5>3, <5>4
                    <6>3. \A v : Shown(v, a) =>
                             /\ v \in Row
                             /\ v.version <= account'[a].version
                             /\ v.version # account'[a].version
                        BY <6>1, <6>2 DEF Row
                    <6> QED
                        BY <1>1, <4>1, <4>3, <5>1, <5>2, <5>4, <6>2, <6>3
                           DEF RequestOK, Loaded, Checked, Flushed, Pending, Shown
                <5>5. CASE ~Writes(r)
                    BY <1>1, <4>1, <4>3, <5>1, <5>3, <5>5
                       DEF RequestOK, Loaded, Checked, Flushed, Pending, Shown, row
                <5> QED
                    BY <5>4, <5>5
            <4> QED
                BY <4>2, <4>3
        <3> QED
            BY <3>1, <3>2
    <2>2. \A q, s \in Requests : q # s => Apart(request[q], request[s])'
        <3>1. \A q \in Requests : Apart(Idle, request[q]) /\ Apart(request[q], Idle)
            BY IdleFacts
        <3>2. request'[r] = Idle /\ \A q \in Requests \ {r} : request'[q] = request[q]
            BY <1>1, <1>3
        <3> QED
            BY <3>1, <3>2 DEF AdminInv, RequestInv, Apart
    <2> QED
        BY <2>1, <2>2 DEF RequestInv
<1>7. JobInv'
    <2>1. \A b \in Accounts : account'[b] # None <=> account[b] # None
        BY <1>1, <1>3 DEF row
    <2> QED
        BY <1>1, <2>1 DEF AdminInv, JobInv
<1>8. HistoryInv'
    <2> SUFFICES ASSUME NEW b \in Accounts
                 PROVE  /\ IsFiniteSet(history'[b])
                        /\ account'[b] = None => history'[b] = {}
                        /\ account'[b] # None =>
                              /\ {h.version : h \in history'[b]} = 1 .. account'[b].version - 1
                              /\ Cardinality(history'[b]) = account'[b].version - 1
        BY DEF HistoryInv, HistoryIsDense
    <2>1. /\ IsFiniteSet(history[b])
          /\ account[b] = None => history[b] = {}
          /\ account[b] # None =>
                /\ {h.version : h \in history[b]} = 1 .. account[b].version - 1
                /\ Cardinality(history[b]) = account[b].version - 1
        BY DEF AdminInv, HistoryInv, HistoryIsDense
    <2>2. CASE b # a \/ ~Writes(r)
        <3>1. account'[b] = account[b] /\ history'[b] = history[b]
            BY <1>1, <1>2, <1>3, <2>2 DEF Archived, row
        <3> QED
            BY <2>1, <3>1
    <2>3. CASE b = a /\ Writes(r)
        <3>1. /\ account'[b] = new /\ new # None
              /\ history'[b] = history[b] \cup {row}
              /\ row = account[b] /\ row # None
              /\ row.version \in Nat \ {0} /\ new.version = row.version + 1
            BY <1>1, <1>2, <1>3, <2>3 DEF Archived, row, Row
        <3>2. row \notin history[b]
            BY <2>1, <3>1
        <3>3. /\ IsFiniteSet(history'[b])
              /\ Cardinality(history'[b]) = Cardinality(history[b]) + 1
            BY <2>1, <3>1, <3>2, FS_AddElement
        <3>4. {h.version : h \in history'[b]} = 1 .. new.version - 1
            <4>1. {h.version : h \in history'[b]} = {h.version : h \in history[b]} \cup {row.version}
                BY <3>1
            <4>2. (1 .. row.version - 1) \cup {row.version} = 1 .. new.version - 1
                BY <3>1
            <4> QED
                BY <2>1, <3>1, <4>1, <4>2
        <3> QED
            BY <2>1, <3>1, <3>3, <3>4
    <2> QED
        BY <2>2, <2>3
<1> QED
    BY <1>5, <1>6, <1>7, <1>8 DEF AdminInv

-----------------------------------------------------------------------------
(* Creates.                                                                *)

\* A row with a new id is flushed.
LEMMA InsertStep ==
    ASSUME AdminInv, NEW r \in Requests, NEW a \in Accounts, NEW name \in Names,
           InsertAccount(r, a, name)
    PROVE  AdminInv'
<1> DEFINE new == Version(1, "active", name)
<1>1. PICK x : x = [Idle EXCEPT !.step = "inserted", !.account = a, !.new = new]
    OBVIOUS
<1>2. /\ account[a] = None
      /\ \A q \in Requests : request[q].account # a
      /\ Advance(r, x)
      /\ UNCHANGED <<tables, jobVars, losses, oneSession>>
    BY <1>1 DEF InsertAccount
<1>3. new \in Row /\ new.version = 1 /\ new.status = "active"
    BY AdminAssumption DEF Version, Row, Statuses
<1> HIDE DEF new
<1>4. x = [step |-> "inserted", account |-> a, seen |-> None, copy |-> None, new |-> new]
    BY <1>1 DEF Idle
<1>5. x \in RequestType
    BY <1>3, <1>4 DEF RequestType, Steps
<1>6. RequestOK(x)'
    BY <1>2, <1>3, <1>4 DEF RequestOK, Loaded, Checked, Flushed, Pending, tables
<1>7. \A q \in Requests : Apart(x, request[q]) /\ Apart(request[q], x)
    BY <1>2, <1>4 DEF Apart
<1>8. losses' \in 0 .. MaxLosses
    BY <1>2 DEF AdminInv, TypeOK
<1> QED
    BY <1>2, <1>5, <1>6, <1>7, <1>8, QuietStep

\* The job is written on its own connection, or waits for the COMMIT.
LEMMA EnqueueStep ==
    ASSUME AdminInv, NEW r \in Requests, EnqueueCreated(r)
    PROVE  AdminInv'
<1> DEFINE a == request[r].account
<1>1. PICK x : x = [request[r] EXCEPT !.step = "enqueued"]
    OBVIOUS
<1>2. /\ request[r].step = "inserted"
      /\ job' = IF oneSession THEN job ELSE [job EXCEPT ![a].status = "queued"]
      /\ Advance(r, x)
      /\ UNCHANGED <<account, history, announced, losses, oneSession>>
    BY <1>1 DEF EnqueueCreated, GoTo, Queued, tables
<1>3. /\ RequestOK(request[r]) /\ request[r] \in RequestType
      /\ job \in [Accounts -> [status : JobStatuses, attempts : 0 .. MaxAttempts]]
    BY DEF AdminInv, RequestInv, TypeOK, RequestType
<1>4. /\ x.step = "enqueued" /\ x.account = a /\ x.new = request[r].new
      /\ x \in RequestType
    BY <1>1, <1>3 DEF RequestType, Steps
<1>5. a \in Accounts /\ account[a] = None
    BY <1>2, <1>3 DEF RequestOK, Pending
<1>6. /\ job' \in [Accounts -> [status : JobStatuses, attempts : 0 .. MaxAttempts]]
      /\ ~oneSession => job'[a].status = "queued"
      /\ \A b \in Accounts : b # a \/ oneSession => job'[b] = job[b]
    BY <1>2, <1>3, <1>5 DEF JobStatuses
<1>7. \A b \in Accounts : job[b].status # "none" => job'[b].status # "none"
    BY <1>6
<1>8. RequestOK(x)'
    <2>1. x.new \in Row /\ x.new.version = 1 /\ x.new.status = "active"
        BY <1>2, <1>3, <1>4 DEF RequestOK, Pending
    <2>2. account'[x.account] = None /\ (~oneSession' => job'[x.account].status # "none")
        BY <1>2, <1>4, <1>5, <1>6
    <2> QED
        BY <1>4, <1>5, <2>1, <2>2 DEF RequestOK, Loaded, Checked, Flushed, Pending
<1>9. ASSUME NEW q \in Requests \ {r} PROVE Apart(x, request[q]) /\ Apart(request[q], x)
    <2>1. Apart(request[q], request[r]) /\ Apart(request[r], request[q])
        BY DEF AdminInv, RequestInv
    <2> QED
        BY <1>2, <1>4, <2>1 DEF Apart
<1>10. RequestInv' /\ request' \in [Requests -> RequestType]
    BY <1>2, <1>4, <1>7, <1>8, <1>9, AdvanceStep DEF tables
<1>11. TypeOK'
    BY <1>2, <1>6, <1>10 DEF AdminInv, TypeOK, RequestType
<1>12. JobInv'
    <2>1. ASSUME NEW b \in Accounts, b # a \/ oneSession PROVE job'[b] = job[b]
        BY <1>6, <2>1
    <2> QED
        BY <1>2, <1>5, <1>6, <2>1 DEF AdminInv, JobInv
<1>13. HistoryInv'
    BY <1>2 DEF AdminInv, HistoryInv, HistoryIsDense
<1> QED
    BY <1>10, <1>11, <1>12, <1>13 DEF AdminInv

\* The account becomes visible, and with one session so does its job.
LEMMA CommitCreateStep ==
    ASSUME AdminInv, NEW r \in Requests, CommitCreate(r)
    PROVE  AdminInv'
<1> DEFINE a == request[r].account
           new == request[r].new
<1>1. /\ request[r].step = "enqueued"
      /\ account' = [account EXCEPT ![a] = new]
      /\ job' = IF oneSession THEN [job EXCEPT ![a].status = "queued"] ELSE job
      /\ request' = [request EXCEPT ![r] = Idle]
      /\ UNCHANGED <<history, announced, losses, oneSession>>
    BY DEF CommitCreate, End, Advance, Queued
<1>2. /\ RequestOK(request[r])
      /\ account \in [Accounts -> Row \cup {None}]
      /\ request \in [Requests -> RequestType]
      /\ job \in [Accounts -> [status : JobStatuses, attempts : 0 .. MaxAttempts]]
    BY DEF AdminInv, RequestInv, TypeOK, RequestType
<1>3. /\ a \in Accounts /\ account[a] = None
      /\ new \in Row /\ new.version = 1 /\ new # None
      /\ ~oneSession => job[a].status # "none"
    BY <1>1, <1>2, RowsAreNotNone DEF RequestOK, Pending
<1> HIDE DEF a, new
<1>4. /\ job' \in [Accounts -> [status : JobStatuses, attempts : 0 .. MaxAttempts]]
      /\ job'[a].status # "none"
      /\ oneSession => job'[a].status = "queued"
      /\ \A b \in Accounts : b # a \/ ~oneSession => job'[b] = job[b]
    BY <1>1, <1>2, <1>3 DEF JobStatuses
<1>5. account'[a] = new /\ \A b \in Accounts \ {a} : account'[b] = account[b]
    BY <1>1, <1>2, <1>3
<1>6. request'[r] = Idle /\ \A q \in Requests \ {r} : request'[q] = request[q]
    BY <1>1, <1>2
<1>7. TypeOK'
    <2>1. Idle \in RequestType
        BY IdleFacts
    <2> QED
        BY <1>1, <1>2, <1>3, <1>4, <2>1 DEF AdminInv, TypeOK, RequestType
<1>8. RequestInv'
    <2>1. ASSUME NEW q \in Requests PROVE RequestOK(request[q])'
        <3>1. CASE q = r
            BY <1>6, <3>1 DEF RequestOK, Loaded, Checked, Flushed, Pending, Idle
        <3>2. CASE q # r
            <4>1. request'[q] = request[q] /\ RequestOK(request[q])
                BY <1>6, <3>2 DEF AdminInv, RequestInv
            <4>2. request[q].account # a
                BY <1>1, <3>2 DEF AdminInv, RequestInv, Apart, a
            <4>3. request[q].step \in Steps \ {"idle"} =>
                     /\ account'[request[q].account] = account[request[q].account]
                     /\ job'[request[q].account] = job[request[q].account]
                BY <1>4, <1>5, <4>1, <4>2 DEF RequestOK, Loaded, Pending, Steps
            <4>4. request[q].step \in Steps
                BY <1>2 DEF RequestType
            <4> QED
                BY <1>1, <4>1, <4>3, <4>4
                   DEF RequestOK, Loaded, Checked, Flushed, Pending, Shown, Steps
        <3> QED
            BY <3>1, <3>2
    <2>2. \A q, s \in Requests : q # s => Apart(request[q], request[s])'
        <3>1. \A q \in Requests : Apart(Idle, request[q]) /\ Apart(request[q], Idle)
            BY IdleFacts
        <3> QED
            BY <1>6, <3>1 DEF AdminInv, RequestInv, Apart
    <2> QED
        BY <2>1, <2>2 DEF RequestInv
<1>9. JobInv'
    BY <1>1, <1>3, <1>4, <1>5 DEF AdminInv, JobInv
<1>10. HistoryInv'
    <2>1. history[a] = {} /\ history' = history
        BY <1>1, <1>3 DEF AdminInv, HistoryInv, HistoryIsDense
    <2>2. {h.version : h \in {}} = 1 .. 1 - 1 /\ Cardinality({}) = 1 - 1
        BY FS_EmptySet
    <2> QED
        BY <1>3, <1>5, <2>1, <2>2 DEF AdminInv, HistoryInv, HistoryIsDense
<1> QED
    BY <1>7, <1>8, <1>9, <1>10 DEF AdminInv

-----------------------------------------------------------------------------
(* The announcement.                                                       *)

\* A job that exists moves on; it does not count as published or done before
\* the broker has the event, nor as held before its last attempt.
LEMMA JobMoves ==
    ASSUME AdminInv, NEW a \in Accounts,
           NEW new \in [status : JobStatuses \ {"none"}, attempts : 0 .. MaxAttempts],
           job[a].status # "none", job' = [job EXCEPT ![a] = new],
           announced' \in {announced, announced \cup {a}},
           new.status \in {"published", "done"} => a \in announced',
           new.status = "held" => new.attempts = MaxAttempts,
           UNCHANGED <<tables, request, losses, oneSession>>
    PROVE  AdminInv'
<1>1. account' = account /\ history' = history
    BY DEF tables
<1>2. /\ job \in [Accounts -> [status : JobStatuses, attempts : 0 .. MaxAttempts]]
      /\ job' \in [Accounts -> [status : JobStatuses, attempts : 0 .. MaxAttempts]]
      /\ job'[a] = new /\ new.status # "none"
      /\ \A b \in Accounts \ {a} : job'[b] = job[b]
    BY DEF AdminInv, TypeOK
<1>3. TypeOK'
    BY <1>1, <1>2 DEF AdminInv, TypeOK
<1>4. RequestInv'
    <2>1. ASSUME NEW q \in Requests PROVE RequestOK(request[q])'
        <3>1. RequestOK(request[q])
            BY DEF AdminInv, RequestInv
        <3>2. \A b \in Accounts : job[b].status # "none" => job'[b].status # "none"
            BY <1>2
        <3> QED
            BY <1>1, <3>1, <3>2
               DEF RequestOK, Loaded, Checked, Flushed, Pending, Shown
    <2> QED
        BY <2>1 DEF AdminInv, RequestInv, Apart
<1>5. JobInv'
    BY <1>1, <1>2 DEF AdminInv, JobInv
<1>6. HistoryInv'
    BY <1>1 DEF AdminInv, HistoryInv, HistoryIsDense
<1> QED
    BY <1>3, <1>4, <1>5, <1>6 DEF AdminInv

\* A consumer's step.
LEMMA AnnounceStep ==
    ASSUME AdminInv, NEW a \in Accounts, Announce(a)
    PROVE  AdminInv'
<1>0. /\ job[a] \in [status : JobStatuses, attempts : 0 .. MaxAttempts]
      /\ job[a].status \in {"published", "done"} => a \in announced
    BY DEF AdminInv, TypeOK, JobInv
<1>1. ASSUME NEW s \in JobStatuses \ {"none"}, job' = WithStatus(a, s),
             job[a].status # "none",
             announced' \in {announced, announced \cup {a}},
             s \in {"published", "done"} => a \in announced',
             s = "held" => job[a].attempts = MaxAttempts,
             UNCHANGED <<tables, request, losses, oneSession>>
      PROVE  AdminInv'
    <2> DEFINE new == [job[a] EXCEPT !.status = s]
    <2>1. job' = [job EXCEPT ![a] = new]
        BY <1>1 DEF WithStatus
    <2>2. /\ new \in [status : JobStatuses \ {"none"}, attempts : 0 .. MaxAttempts]
          /\ new.status = s /\ new.attempts = job[a].attempts
        BY <1>0
    <2> HIDE DEF new
    <2> QED
        BY <1>1, <2>1, <2>2, JobMoves
<1>2. CASE PickJob(a)
    BY <1>1, <1>2 DEF PickJob, JobStatuses
<1>3. CASE PublishEvent(a)
    BY <1>1, <1>3 DEF PublishEvent, JobStatuses
<1>4. CASE FailEvent(a) /\ LastAttempt(a)
    <2>1. job[a].attempts = MaxAttempts
        BY <1>0, <1>4, AdminAssumption DEF LastAttempt
    <2> QED
        BY <1>1, <1>4, <2>1 DEF FailEvent, JobStatuses
<1>5. CASE FailEvent(a) /\ ~LastAttempt(a)
    <2> DEFINE new == [status |-> "queued", attempts |-> job[a].attempts + 1]
    <2>1. job' = [job EXCEPT ![a] = new] /\ job[a].status # "none"
        BY <1>5 DEF FailEvent
    <2>2. /\ new \in [status : JobStatuses \ {"none"}, attempts : 0 .. MaxAttempts]
          /\ new.status = "queued"
        BY <1>0, <1>5, AdminAssumption DEF LastAttempt, JobStatuses
    <2>3. /\ announced' \in {announced, announced \cup {a}}
          /\ UNCHANGED <<tables, request, losses, oneSession>>
        BY <1>5 DEF FailEvent
    <2> HIDE DEF new
    <2> QED
        BY <2>1, <2>2, <2>3, JobMoves
<1>6. CASE FinishJob(a)
    BY <1>0, <1>1, <1>6 DEF FinishJob, JobStatuses
<1>7. CASE AbandonJob(a)
    BY <1>1, <1>7 DEF AbandonJob, JobStatuses
<1> QED
    BY <1>2, <1>3, <1>4, <1>5, <1>6, <1>7 DEF Announce

-----------------------------------------------------------------------------
(* The invariant.                                                          *)

\* No account, no job and no request at the start.
LEMMA AdminInit == Init => AdminInv
<1> SUFFICES ASSUME Init PROVE AdminInv
    OBVIOUS
<1>1. TypeOK
    BY AdminAssumption DEF Init, TypeOK, Idle, NoJob, JobStatuses, Steps
<1>2. RequestInv
    BY DEF Init, RequestInv, RequestOK, Loaded, Checked, Flushed, Pending, Apart, Idle
<1>3. JobInv
    BY DEF Init, JobInv, NoJob
<1>4. HistoryInv
    BY FS_EmptySet DEF Init, HistoryInv, HistoryIsDense
<1> QED
    BY <1>1, <1>2, <1>3, <1>4 DEF AdminInv

\* Every step of a request and of a consumer preserves the strengthening.
LEMMA AdminStep == AdminInv /\ [Next]_vars => AdminInv'
<1> SUFFICES ASSUME AdminInv, [Next]_vars PROVE AdminInv'
    OBVIOUS
<1>1. ASSUME NEW r \in Requests, Create(r) PROVE AdminInv'
    BY <1>1, InsertStep, EnqueueStep, CommitCreateStep DEF Create
<1>2. ASSUME NEW r \in Requests, Update(r) PROVE AdminInv'
    BY <1>2, LoadStep, CheckStep, FlushStep, CommitUpdateStep, EndStep DEF Update
<1>3. ASSUME NEW r \in Requests, Lose(r) PROVE AdminInv'
    BY <1>3, EndStep
<1>4. ASSUME NEW a \in Accounts, Announce(a) PROVE AdminInv'
    BY <1>4, AnnounceStep
<1>5. CASE UNCHANGED vars
    BY <1>5 DEF vars, tables, jobVars, AdminInv, TypeOK, RequestInv, RequestOK, Loaded,
                Checked, Flushed, Pending, Shown, Apart, JobInv, HistoryInv, HistoryIsDense
<1> QED
    BY <1>1, <1>2, <1>3, <1>4, <1>5 DEF Next

\* The strengthening is an invariant of every behaviour.
THEOREM AdminInvariance == Spec => []AdminInv
BY AdminInit, AdminStep, PTL DEF Spec

-----------------------------------------------------------------------------
(* The properties that the model checker checks on one instance.           *)

\* Every variable keeps its type.
THEOREM AdminTypeCorrect == Spec => []TypeOK
<1>1. AdminInv => TypeOK
    BY DEF AdminInv
<1> QED
    BY <1>1, AdminInvariance, PTL

\* create_version leaves no version out and writes none twice.
THEOREM HistoryCorrect == Spec => []HistoryIsDense
<1>1. AdminInv => HistoryIsDense
    BY DEF AdminInv, HistoryInv
<1> QED
    BY <1>1, AdminInvariance, PTL

\* Whatever the wiring, an account has its event published, at work or held.
THEOREM AnnouncedCorrect == Spec => []EveryAccountIsAnnounced
<1>1. AdminInv => EveryAccountIsAnnounced
    BY DEF AdminInv, JobInv, EveryAccountIsAnnounced, NoJob
<1> QED
    BY <1>1, AdminInvariance, PTL

\* Which step changes an account that exists: the commit of an update that
\* writes.
LEMMA ChangeIsUpdate ==
    ASSUME AdminInv, [Next]_vars, NEW a \in Accounts,
           account[a] # None, account'[a] # account[a]
    PROVE  \E r \in Requests : CommitUpdate(r) /\ request[r].account = a /\ Writes(r)
<1>0. account \in [Accounts -> Row \cup {None}]
    BY DEF AdminInv, TypeOK
<1>1. Next
    BY DEF vars, tables
<1>2. \E r \in Requests : CommitCreate(r) \/ CommitUpdate(r)
    BY <1>1 DEF Next, Create, InsertAccount, EnqueueCreated, Update, Load, Check, Refuse,
                Flush, FlushStale, AddForeign, Lose, Announce, PickJob, PublishEvent,
                FailEvent, FinishJob, AbandonJob, tables
<1>3. PICK r \in Requests : CommitCreate(r) \/ CommitUpdate(r)
    BY <1>2
<1>4. CASE CommitCreate(r)
    <2>1. RequestOK(request[r]) /\ request[r].step = "enqueued"
        BY <1>4 DEF AdminInv, RequestInv, CommitCreate
    <2>2. account[request[r].account] = None
        BY <2>1 DEF RequestOK, Pending
    <2> QED
        BY <1>0, <1>4, <2>2 DEF CommitCreate
<1>5. CASE CommitUpdate(r)
    BY <1>0, <1>5 DEF CommitUpdate
<1> QED
    BY <1>3, <1>4, <1>5

\* What create_version archives is the row that the UPDATE replaces.
THEOREM ReplacedCorrect == Spec => HistoryKeepsTheReplaced
<1> DEFINE Kept == \A a \in Accounts :
                      account[a] # None /\ account'[a] # account[a]
                          => history'[a] = history[a] \cup {account[a]}
<1>1. AdminInv /\ [Next]_vars => [Kept]_vars
    <2> SUFFICES ASSUME AdminInv, [Next]_vars, NEW a \in Accounts,
                        account[a] # None, account'[a] # account[a]
                 PROVE  history'[a] = history[a] \cup {account[a]}
        OBVIOUS
    <2>1. PICK r \in Requests : CommitUpdate(r) /\ request[r].account = a /\ Writes(r)
        BY ChangeIsUpdate
    <2>2. request[r].copy = account[a]
        BY <2>1, FlushedFacts DEF CommitUpdate
    <2>3. history \in [Accounts -> SUBSET Row]
        BY DEF AdminInv, TypeOK
    <2> QED
        BY <2>1, <2>2, <2>3 DEF CommitUpdate, Archived
<1> QED
    BY <1>1, AdminInvariance, PTL DEF Spec, HistoryKeepsTheReplaced

\* An update that was flushed holds its row, and the row is what its client
\* was shown, until it commits.
THEOREM NoLostUpdateCorrect == Spec => NoLostUpdate
<1> DEFINE Held == \A r \in Requests :
                      LET a == request[r].account
                      IN  request[r].step = "flushed" /\ Writes(r) /\ account'[a] # account[a]
                              => account[a] = request[r].seen
<1>1. AdminInv /\ [Next]_vars => [Held]_vars
    <2> SUFFICES ASSUME AdminInv, NEW r \in Requests,
                        request[r].step = "flushed", Writes(r)
                 PROVE  account[request[r].account] = request[r].seen
        OBVIOUS
    <2> QED
        BY FlushedFacts
<1> QED
    BY <1>1, AdminInvariance, PTL DEF Spec, NoLostUpdate

-----------------------------------------------------------------------------
(* The endpoints implement the statuses of AtomicLedger.                   *)

StatusOf == [a \in Accounts |-> IF account[a] = None THEN "absent" ELSE account[a].status]

\* An account that becomes visible is one that AtomicLedger opens.
LEMMA CreateOpens ==
    ASSUME AdminInv, NEW r \in Requests, CommitCreate(r)
    PROVE  \E a \in Accounts :
               StatusOf[a] = "absent" /\ StatusOf' = [StatusOf EXCEPT ![a] = "active"]
<1> DEFINE a == request[r].account
           new == request[r].new
<1>1. RequestOK(request[r]) /\ account \in [Accounts -> Row \cup {None}]
    BY DEF AdminInv, RequestInv, TypeOK
<1>2. /\ a \in Accounts /\ account[a] = None
      /\ new \in Row /\ new.status = "active"
      /\ account' = [account EXCEPT ![a] = new]
    BY <1>1 DEF CommitCreate, RequestOK, Pending
<1>3. new # None
    BY <1>2, RowsAreNotNone
<1> HIDE DEF a, new
<1>4. StatusOf[a] = "absent"
    BY <1>2 DEF StatusOf
<1>5. \A b \in Accounts : StatusOf'[b] = IF b = a THEN "active" ELSE StatusOf[b]
    BY <1>1, <1>2, <1>3 DEF StatusOf
<1>6. StatusOf' = [StatusOf EXCEPT ![a] = "active"]
    BY <1>5 DEF StatusOf
<1> QED
    BY <1>2, <1>4, <1>6

\* An update changes the status of an account that is not deleted, or none.
LEMMA UpdateChanges ==
    ASSUME AdminInv, NEW r \in Requests, CommitUpdate(r)
    PROVE  \/ StatusOf' = StatusOf
           \/ \E a \in Accounts, s \in Statuses :
                 /\ StatusOf[a] \in {"active", "disabled"}
                 /\ StatusOf' = [StatusOf EXCEPT ![a] = s]
<1> DEFINE a == request[r].account
           new == request[r].new
<1>1. account \in [Accounts -> Row \cup {None}]
    BY DEF AdminInv, TypeOK
<1>2. CASE ~Writes(r)
    <2>1. account' = account
        BY <1>1, <1>2 DEF CommitUpdate
    <2> QED
        BY <2>1 DEF StatusOf
<1>3. CASE Writes(r)
    <2>1. /\ a \in Accounts /\ account[a] \in Row /\ account[a].status # "deleted"
          /\ new \in Row
          /\ account' = [account EXCEPT ![a] = new]
        BY <1>3, FlushedFacts DEF CommitUpdate
    <2>2. new # None /\ account[a] # None
        BY <2>1, RowsAreNotNone
    <2>3. new.status \in Statuses /\ account[a].status \in {"active", "disabled"}
        BY <2>1 DEF Row, Statuses
    <2> HIDE DEF a, new
    <2>4. StatusOf[a] \in {"active", "disabled"}
        BY <2>1, <2>2, <2>3 DEF StatusOf
    <2>5. \A b \in Accounts : StatusOf'[b] = IF b = a THEN new.status ELSE StatusOf[b]
        BY <1>1, <2>1, <2>2 DEF StatusOf
    <2>6. StatusOf' = [StatusOf EXCEPT ![a] = new.status]
        BY <2>5 DEF StatusOf
    <2> QED
        BY <2>1, <2>3, <2>4, <2>6
<1> QED
    BY <1>2, <1>3

\* Only the commits are visible to AtomicLedger.
LEMMA StatusStep == AdminInv /\ [Next]_vars => [Atomic!Next]_(Atomic!vars)
<1> SUFFICES ASSUME AdminInv, [Next]_vars PROVE [Atomic!Next]_(Atomic!vars)
    OBVIOUS
<1>1. ASSUME StatusOf' = StatusOf PROVE UNCHANGED Atomic!vars
    BY <1>1 DEF Atomic!vars, StatusOf
<1>2. ASSUME NEW a \in Accounts, StatusOf[a] = "absent",
             StatusOf' = [StatusOf EXCEPT ![a] = "active"]
      PROVE  Atomic!Open(a)
    BY <1>2 DEF Atomic!Open, StatusOf
<1>3. ASSUME NEW a \in Accounts, NEW s \in Statuses,
             StatusOf[a] \in {"active", "disabled"},
             StatusOf' = [StatusOf EXCEPT ![a] = s]
      PROVE  Atomic!ChangeStatus(a, s)
    BY <1>3 DEF Atomic!ChangeStatus, StatusOf
<1>4. CASE \E r \in Requests : CommitCreate(r)
    BY <1>2, <1>4, CreateOpens DEF Atomic!Next
<1>5. CASE \E r \in Requests : CommitUpdate(r)
    <2>1. PICK r \in Requests : CommitUpdate(r)
        BY <1>5
    <2>2. CASE StatusOf' = StatusOf
        BY <1>1, <2>2
    <2>3. ASSUME NEW a \in Accounts, NEW s \in Statuses,
                 StatusOf[a] \in {"active", "disabled"},
                 StatusOf' = [StatusOf EXCEPT ![a] = s]
          PROVE  Atomic!Next
        BY <1>3, <2>3 DEF Atomic!Next, Statuses
    <2> QED
        BY <2>1, <2>2, <2>3, UpdateChanges
<1>6. CASE ~\E r \in Requests : CommitCreate(r) \/ CommitUpdate(r)
    <2>1. account' = account
        BY <1>6 DEF Next, Create, InsertAccount, EnqueueCreated, Update, Load, Check, Refuse,
                    Flush, FlushStale, AddForeign, Lose, Announce, PickJob, PublishEvent,
                    FailEvent, FinishJob, AbandonJob, tables, vars
    <2> QED
        BY <1>1, <2>1 DEF StatusOf
<1> QED
    BY <1>4, <1>5, <1>6

\* An account is opened once, and a deleted one stays deleted, whatever
\* requests are under way.
THEOREM StatusRefinement == Spec => ImplementsStatuses
<1>1. Init => Atomic!Init
    BY DEF Init, Atomic!Init
<1> QED
    BY <1>1, AdminInvariance, StatusStep, PTL DEF Spec, ImplementsStatuses, Atomic!Spec

=============================================================================
