------------------------- MODULE VerificationProofs -------------------------
(***************************************************************************)
(* Proofs about Verification, for any accounts, verifiers, amounts and     *)
(* bounds.  What a query answers comes from ChainCheckProofs; here it is   *)
(* carried through the transactions: the advisory lock keeps an answer     *)
(* current until it is written, and an open incident keeps an account out  *)
(* of every batch until it is resolved.                                    *)
(*                                                                         *)
(* StateOK and HonestOK hold whatever the administrators do.  ReviewOK and *)
(* AnchorsOK need that no two of them work on one incident at a time: the  *)
(* second one would resolve an incident that is closed.                    *)
(***************************************************************************)
EXTENDS Verification, ChainCheckProofs, SequenceTheorems

-----------------------------------------------------------------------------
(* The invariants.                                                         *)

CheckpointType == [no : 1 .. MaxRows, balance : 0 .. MaxBalance]
IncidentType == [no : 1 .. MaxRows, kind : Kinds, open : BOOLEAN]

LedgersOK ==
    /\ rows \in [Accounts -> SUBSET RowType]
    /\ \A a \in Accounts : IsLedger(rows[a])

CheckpointsOK ==
    /\ checkpoints \in [Accounts -> SUBSET CheckpointType]
    /\ \A a \in Accounts : IsFiniteSet(checkpoints[a])

\* verified_at is a strict total order of the accounts with a checkpoint.
OrderOK ==
    /\ order \subseteq Checkpointed \X Checkpointed
    /\ \A a, b \in Checkpointed : <<a, b>> \in order <=> a # b /\ <<b, a>> \notin order
    /\ \A a, b, c \in Checkpointed :
          <<a, b>> \in order /\ <<b, c>> \in order => <<a, c>> \in order

\* The partial unique index: one open incident per account.
IncidentsOK ==
    /\ DOMAIN incidents = Accounts
    /\ \A a \in Accounts : /\ incidents[a] \in Seq(IncidentType)
                           /\ \A i, j \in OpenIncidents(a) : i = j

\* An answer whose writes fit the tables.
AnswerOK(f) ==
    /\ f.anchor \in Nat
    /\ ShouldCheckpoint(f) => f.lastGood \in CheckpointType
    /\ f.break # NoBreak =>
          /\ f.break.no \in 1 .. MaxRows /\ f.break.kind \in Kinds
          /\ f.anchor <= f.break.no
          /\ ShouldCheckpoint(f) => f.lastGood.no < f.break.no

\* Only the holder of the advisory lock has a batch, and it has one answer
\* per account, for accounts that are not in quarantine.
BatchOK ==
    /\ DOMAIN batch = Verifiers
    /\ lock \in Verifiers \cup {Nobody}
    /\ \A v \in Verifiers :
          /\ batch[v] # {} => lock = v
          /\ \A b \in batch[v] :
                /\ b.account \in Accounts
                /\ AnswerOK(b.found)
                /\ OpenIncidents(b.account) = {}
          /\ \A b, c \in batch[v] : b.account = c.account => b = c

ResolutionOK ==
    /\ DOMAIN resolution = Admins
    /\ \A m \in Admins :
          /\ resolution[m].step \in {"idle", "found", "reviewed", "answered", "lost"}
          /\ resolution[m].step \notin {"idle", "lost"} =>
                /\ resolution[m].account \in Accounts
                /\ resolution[m].incident \in DOMAIN incidents[resolution[m].account]
          /\ resolution[m].step \in {"reviewed", "answered"} =>
                resolution[m].checkpoint \in CheckpointType

StateOK ==
    /\ LedgersOK /\ CheckpointsOK /\ OrderOK /\ IncidentsOK /\ BatchOK /\ ResolutionOK
    /\ aged \subseteq Accounts
    /\ tampers \in 0 .. MaxTampers

\* Every row follows the row before it; the first one starts from nothing.
Chained(ledger) ==
    \A r \in ledger :
        \/ r.no = 1 /\ r.balance = r.amount
        \/ \E s \in ledger : r.no = s.no + 1 /\ r.balance = s.balance + r.amount

HonestAccount(a) ==
    /\ Chained(rows[a])
    /\ \A c \in checkpoints[a] : \E r \in rows[a] : c = Point(r)
    /\ incidents[a] = <<>>

HonestOK ==
    tampers = 0 =>
        /\ \A a \in Accounts : HonestAccount(a)
        /\ \A v \in Verifiers : \A b \in batch[v] :
              /\ b.found.break = NoBreak
              /\ ShouldCheckpoint(b.found) =>
                    \E r \in rows[b.account] : b.found.lastGood = Point(r)
        /\ \A m \in Admins : resolution[m].step = "idle"

\* No two administrators work on one incident at a time.  Nothing in the
\* program sees to it; with one administrator it is always so.
SeparateReviews ==
    \A m, n \in Admins :
        {resolution[m].step, resolution[n].step} \cap {"idle", "lost"} = {} /\ m # n
            => \/ resolution[m].account # resolution[n].account
               \/ resolution[m].incident # resolution[n].incident

\* What this guarantees: the incident under review is an open one, and the
\* checkpoint of an account in a batch is still its anchor.
ReviewOK ==
    \A m \in Admins :
        resolution[m].step \notin {"idle", "lost"} =>
            resolution[m].incident \in OpenIncidents(resolution[m].account)

\* The checkpoint that is about to be forced is past the one there is.
ForcedOK ==
    \A m \in Admins :
        resolution[m].step \in {"reviewed", "answered"} =>
            resolution[m].checkpoint.no > Latest(resolution[m].account).no

AnchorsOK ==
    \A v \in Verifiers : \A b \in batch[v] : b.found.anchor = Latest(b.account).no

-----------------------------------------------------------------------------
(* Checkpoints and queries.                                                *)

\* The latest checkpoint is the highest one.
LEMMA LatestFacts ==
    ASSUME CheckpointsOK, NEW a \in Accounts
    PROVE  /\ IsPoint(Latest(a))
           /\ Latest(a) = NoAnchor \/ Latest(a) \in checkpoints[a]
           /\ \A c \in checkpoints[a] : c.no <= Latest(a).no
           /\ checkpoints[a] = {} => Latest(a) = NoAnchor
<1>1. /\ IsFiniteSet(checkpoints[a])
      /\ \A c \in checkpoints[a] : IsPoint(c)
    <2>1. \A c \in CheckpointType : IsPoint(c)
        BY VerificationAssumption DEF CheckpointType, IsPoint
    <2> QED
        BY <2>1 DEF CheckpointsOK
<1>2. CASE checkpoints[a] = {}
    <2>1. IsPoint(NoAnchor)
        BY DEF IsPoint, NoAnchor
    <2> QED
        BY <1>2, <2>1 DEF Latest
<1>3. CASE checkpoints[a] # {}
    <2>1. \A c \in checkpoints[a] : c.no \in Nat
        BY <1>1 DEF IsPoint
    <2>2. /\ Highest(checkpoints[a]) \in checkpoints[a]
          /\ \A c \in checkpoints[a] : c.no <= Highest(checkpoints[a]).no
        BY <1>1, <1>3, <2>1, HighestFacts
    <2> QED
        BY <1>1, <1>3, <2>2 DEF Latest
<1> QED
    BY <1>2, <1>3

\* What a run reads of an account that is due.
LEMMA AnswerFacts ==
    ASSUME LedgersOK, CheckpointsOK, NEW a \in Accounts, Due(a)
    PROVE  LET f == Verify(rows[a], Latest(a), RowsPerAccount + 1)
           IN  /\ AnswerOK(f)
               /\ f.anchor = Latest(a).no
               /\ ShouldCheckpoint(f) => \E r \in rows[a] : f.lastGood = Point(r)
<1>1. PICK f : f = Verify(rows[a], Latest(a), RowsPerAccount + 1)
    OBVIOUS
<1>2. RowsPerAccount + 1 \in Nat /\ RowsPerAccount + 1 >= 2
    BY VerificationAssumption
<1>3. \E r \in rows[a] : r.no > Latest(a).no
    BY DEF Due
<1>4. IsLedger(rows[a]) /\ IsPoint(Latest(a))
    BY LatestFacts DEF LedgersOK
<1>5. /\ f.anchor = Latest(a).no
      /\ ShouldCheckpoint(f) => \E r \in rows[a] : f.lastGood = Point(r)
      /\ f.break # NoBreak =>
            /\ f.break.kind \in BreakKinds
            /\ ShouldCheckpoint(f) => f.lastGood.no < f.break.no
            /\ \E r \in rows[a] : r.no = f.break.no /\ r.no >= Latest(a).no
    BY <1>1, <1>2, <1>3, <1>4, VerifyFacts
<1>6. \A r \in rows[a] : Point(r) \in CheckpointType /\ r.no \in 1 .. MaxRows
    BY DEF LedgersOK, RowType, Point, CheckpointType
<1>7. f.anchor \in Nat
    BY <1>4, <1>5 DEF IsPoint
<1>8. BreakKinds = Kinds
    BY DEF BreakKinds, Kinds
<1>9. AnswerOK(f)
    BY <1>4, <1>5, <1>6, <1>7, <1>8, VerificationAssumption DEF AnswerOK, IsPoint
<1> QED
    BY <1>1, <1>5, <1>9

\* What a run writes for an account: nothing if the account is not in its
\* batch, else what its one answer says.
LEMMA RecordedFacts ==
    ASSUME BatchOK, NEW v \in Verifiers, NEW a \in Accounts
    PROVE  \/ /\ \A b \in batch[v] : b.account # a
              /\ RecordedCheckpoints(v, a) = checkpoints[a]
              /\ RecordedIncidents(v, a) = incidents[a]
           \/ \E b \in batch[v] :
                 /\ b.account = a
                 /\ FoundFor(v, a) = {b.found}
                 /\ RecordedCheckpoints(v, a) =
                       IF ShouldCheckpoint(b.found)
                       THEN WithCheckpoint(checkpoints[a], b.found.lastGood)
                       ELSE checkpoints[a]
                 /\ RecordedIncidents(v, a) =
                       IF b.found.break = NoBreak THEN incidents[a]
                       ELSE WithIncident(incidents[a], b.found.break)
<1>1. CASE \A b \in batch[v] : b.account # a
    <2>1. FoundFor(v, a) = {}
        BY <1>1 DEF FoundFor
    <2> QED
        BY <1>1, <2>1 DEF RecordedCheckpoints, RecordedIncidents
<1>2. CASE \E b \in batch[v] : b.account = a
    <2>1. PICK b \in batch[v] : b.account = a
        BY <1>2
    <2>2. {c \in batch[v] : c.account = a} = {b}
        BY <2>1 DEF BatchOK
    <2>3. FoundFor(v, a) = {b.found}
        BY <2>2 DEF FoundFor
    <2>4. PICK f : f = b.found
        OBVIOUS
    <2>5. RecordedCheckpoints(v, a) =
             IF ShouldCheckpoint(f)
             THEN WithCheckpoint(checkpoints[a], f.lastGood) ELSE checkpoints[a]
        <3> DEFINE good == {g.lastGood : g \in {h \in {f} : ShouldCheckpoint(h)}}
        <3>1. RecordedCheckpoints(v, a) =
                 IF good = {} THEN checkpoints[a]
                 ELSE WithCheckpoint(checkpoints[a], CHOOSE c \in good : TRUE)
            BY <2>3, <2>4 DEF RecordedCheckpoints
        <3>2. ShouldCheckpoint(f) => good = {f.lastGood}
            OBVIOUS
        <3>3. ~ShouldCheckpoint(f) => good = {}
            OBVIOUS
        <3> HIDE DEF good
        <3>4. ShouldCheckpoint(f) => (CHOOSE c \in good : TRUE) = f.lastGood
            BY <3>2
        <3> QED
            BY <3>1, <3>2, <3>3, <3>4
    <2>6. RecordedIncidents(v, a) =
             IF f.break = NoBreak THEN incidents[a]
             ELSE WithIncident(incidents[a], f.break)
        <3> DEFINE breaks == {g.break : g \in {f}} \ {NoBreak}
        <3>1. RecordedIncidents(v, a) =
                 IF breaks = {} THEN incidents[a]
                 ELSE WithIncident(incidents[a], CHOOSE d \in breaks : TRUE)
            BY <2>3, <2>4 DEF RecordedIncidents
        <3>2. f.break # NoBreak => breaks = {f.break}
            OBVIOUS
        <3>3. f.break = NoBreak => breaks = {}
            OBVIOUS
        <3> HIDE DEF breaks
        <3>4. f.break # NoBreak => (CHOOSE d \in breaks : TRUE) = f.break
            BY <3>2
        <3> QED
            BY <3>1, <3>2, <3>3, <3>4
    <2> QED
        BY <2>1, <2>3, <2>4, <2>5, <2>6
<1> QED
    BY <1>1, <1>2

-----------------------------------------------------------------------------
(* The parts of StateOK.                                                   *)

\* A payment appends the row after the highest one.
LEMMA PayFacts ==
    ASSUME LedgersOK, NEW a \in Accounts, NEW amount \in Amounts, Pay(a, amount)
    PROVE  \E last \in rows[a], next \in RowType :
              /\ next = [no |-> last.no + 1, amount |-> amount,
                         balance |-> last.balance + amount]
              /\ \A r \in rows[a] : r.no <= last.no
              /\ rows' = [rows EXCEPT ![a] = rows[a] \cup {next}]
              /\ IsLedger(rows[a] \cup {next})
<1>1. PICK last : last = Highest(rows[a])
    OBVIOUS
<1>2. PICK next : next = [no |-> last.no + 1, amount |-> amount,
                          balance |-> last.balance + amount]
    OBVIOUS
<1>3. /\ rows[a] # {} /\ next.no <= MaxRows /\ next.balance \in 0 .. MaxBalance
      /\ rows' = [rows EXCEPT ![a] = rows[a] \cup {next}]
    BY <1>1, <1>2 DEF Pay
<1>4. IsFiniteSet(rows[a]) /\ \A r \in rows[a] : r.no \in Nat \ {0}
    BY DEF LedgersOK, IsLedger
<1>5. last \in rows[a] /\ \A r \in rows[a] : r.no <= last.no
    BY <1>1, <1>3, <1>4, HighestFacts
<1>6. next.no = last.no + 1 /\ next.amount = amount /\ next.balance = last.balance + amount
    BY <1>2
<1>7. next.no \in 1 .. MaxRows /\ amount \in Int
    BY <1>3, <1>4, <1>5, <1>6, VerificationAssumption
<1>8. next \in RowType
    BY <1>2, <1>3, <1>6, <1>7 DEF RowType
<1>9. next \in [no : Nat \ {0}, amount : Int, balance : Int]
    BY <1>2, <1>3, <1>6, <1>7, VerificationAssumption
<1>10. IsFiniteSet(rows[a] \cup {next})
    BY <1>4, FS_AddElement
<1>11. \A r \in rows[a] : r.no # next.no
    BY <1>4, <1>5, <1>6
<1>12. IsLedger(rows[a] \cup {next})
    BY <1>9, <1>10, <1>11 DEF LedgersOK, IsLedger
<1> QED
    BY <1>2, <1>3, <1>5, <1>8, <1>12

\* Whatever a row is changed to, or that it is deleted, leaves a ledger.
LEMMA TamperFacts ==
    ASSUME LedgersOK, NEW a \in Accounts, NEW r \in rows[a]
    PROVE  /\ rows[a] \ {r} \subseteq RowType /\ IsLedger(rows[a] \ {r})
           /\ \A b \in 0 .. MaxBalance :
                 Falsified(a, r, b) \subseteq RowType /\ IsLedger(Falsified(a, r, b))
<1>1. /\ rows[a] \subseteq RowType /\ IsFiniteSet(rows[a])
      /\ rows[a] \subseteq [no : Nat \ {0}, amount : Int, balance : Int]
      /\ \A s, t \in rows[a] : s.no = t.no => s = t
    BY DEF LedgersOK, IsLedger
<1>2. IsFiniteSet(rows[a] \ {r})
    BY <1>1, FS_RemoveElement
<1>3. ASSUME NEW b \in 0 .. MaxBalance
      PROVE  Falsified(a, r, b) \subseteq RowType /\ IsLedger(Falsified(a, r, b))
    <2>1. PICK s : s = [r EXCEPT !.balance = b]
        OBVIOUS
    <2>2. /\ s.no = r.no
          /\ s \in RowType
          /\ s \in [no : Nat \ {0}, amount : Int, balance : Int]
        BY <1>1, <2>1, VerificationAssumption DEF RowType
    <2>3. Falsified(a, r, b) = (rows[a] \ {r}) \cup {s}
        BY <2>1 DEF Falsified
    <2>4. IsFiniteSet(Falsified(a, r, b))
        BY <1>2, <2>3, FS_AddElement
    <2>5. \A t, u \in Falsified(a, r, b) : t.no = u.no => t = u
        BY <1>1, <2>2, <2>3
    <2> QED
        BY <1>1, <2>2, <2>3, <2>4, <2>5 DEF IsLedger
<1> QED
    BY <1>1, <1>2, <1>3 DEF IsLedger

\* A change of the ledgers: of one account, to another ledger.
LEMMA LedgersStep ==
    ASSUME LedgersOK, [Next]_vars
    PROVE  LedgersOK'
<1>1. ASSUME NEW a \in Accounts, NEW new, new \subseteq RowType, IsLedger(new),
             rows' = [rows EXCEPT ![a] = new]
      PROVE  LedgersOK'
    BY <1>1 DEF LedgersOK
<1>2. ASSUME NEW a \in Accounts, NEW amount \in Amounts, Pay(a, amount)
      PROVE  LedgersOK'
    <2>1. PICK last \in rows[a], next \in RowType :
             /\ rows' = [rows EXCEPT ![a] = rows[a] \cup {next}]
             /\ IsLedger(rows[a] \cup {next})
        BY <1>2, PayFacts
    <2>2. rows[a] \cup {next} \subseteq RowType
        BY DEF LedgersOK
    <2> QED
        BY <1>1, <2>1, <2>2
<1>3. ASSUME NEW a \in Accounts, NEW r \in rows[a], Tamper(a, rows[a] \ {r})
      PROVE  LedgersOK'
    BY <1>1, <1>3, TamperFacts DEF Tamper
<1>4. ASSUME NEW a \in Accounts, NEW r \in rows[a],
             NEW b \in (0 .. MaxBalance) \ {r.balance}, Tamper(a, Falsified(a, r, b))
      PROVE  LedgersOK'
    BY <1>1, <1>4, TamperFacts DEF Tamper
<1>5. CASE rows' = rows
    BY <1>5 DEF LedgersOK
<1>6. CASE vars' = vars
    BY <1>5, <1>6 DEF vars
<1>7. CASE World
    <2>1. \A a \in Accounts : Age(a) => rows' = rows
        BY DEF Age, ledgerVars
    <2> QED
        BY <1>2, <1>3, <1>4, <1>5, <1>7, <2>1 DEF World
<1>8. CASE Scheduler
    BY <1>5, <1>8 DEF Scheduler, TakeBatch, CommitBatch, AbortBatch, ledgerVars
<1>9. CASE Endpoint
    BY <1>5, <1>9 DEF Endpoint, FindIncident, Review, Refuse,
           Resolve, EndResolution, LoseResolution, ledgerVars
<1> QED
    BY <1>6, <1>7, <1>8, <1>9 DEF Next

\* add_checkpoint adds a row to the checkpoints or does nothing.
LEMMA WithCheckpointFacts ==
    ASSUME NEW cs, cs \subseteq CheckpointType, IsFiniteSet(cs), NEW c \in CheckpointType
    PROVE  /\ WithCheckpoint(cs, c) \subseteq CheckpointType
           /\ IsFiniteSet(WithCheckpoint(cs, c))
           /\ cs \subseteq WithCheckpoint(cs, c)
           /\ WithCheckpoint(cs, c) \subseteq cs \cup {c}
BY FS_AddElement DEF WithCheckpoint

\* Checkpoints are only written by Record, and never deleted.
LEMMA RecordStep ==
    ASSUME CheckpointsOK, BatchOK, ResolutionOK, [Next]_vars
    PROVE  \/ checkpoints' = checkpoints /\ order' = order
           \/ \E new \in [Accounts -> SUBSET CheckpointType] :
                 /\ Record(new)
                 /\ \A a \in Accounts : /\ IsFiniteSet(new[a])
                                        /\ checkpoints[a] \subseteq new[a]
<1>1. \A a \in Accounts : checkpoints[a] \subseteq CheckpointType /\ IsFiniteSet(checkpoints[a])
    BY DEF CheckpointsOK
<1>2. ASSUME NEW v \in Verifiers, CommitBatch(v)
      PROVE  \E new \in [Accounts -> SUBSET CheckpointType] :
                 /\ Record(new)
                 /\ \A a \in Accounts : /\ IsFiniteSet(new[a])
                                        /\ checkpoints[a] \subseteq new[a]
    <2> DEFINE new == [a \in Accounts |-> RecordedCheckpoints(v, a)]
    <2>1. ASSUME NEW a \in Accounts
          PROVE  /\ new[a] \subseteq CheckpointType /\ IsFiniteSet(new[a])
                 /\ checkpoints[a] \subseteq new[a]
        <3>1. CASE new[a] = checkpoints[a]
            BY <1>1, <3>1
        <3>2. ASSUME NEW b \in batch[v], ShouldCheckpoint(b.found),
                     new[a] = WithCheckpoint(checkpoints[a], b.found.lastGood)
              PROVE  /\ new[a] \subseteq CheckpointType /\ IsFiniteSet(new[a])
                     /\ checkpoints[a] \subseteq new[a]
            <4>1. b.found.lastGood \in CheckpointType
                BY <3>2 DEF BatchOK, AnswerOK
            <4> HIDE DEF new
            <4> QED
                BY <1>1, <3>2, <4>1, WithCheckpointFacts
        <3> QED
            BY <3>1, <3>2, RecordedFacts
    <2>2. Record(new)
        BY <1>2 DEF CommitBatch
    <2>3. new \in [Accounts -> SUBSET CheckpointType]
        BY <2>1
    <2> HIDE DEF new
    <2> QED
        BY <2>1, <2>2, <2>3
<1>3. ASSUME NEW m \in Admins, EndResolution(m), OneSession
      PROVE  \E new \in [Accounts -> SUBSET CheckpointType] :
                 /\ Record(new)
                 /\ \A a \in Accounts : /\ IsFiniteSet(new[a])
                                        /\ checkpoints[a] \subseteq new[a]
    <2>1. PICK a : a = resolution[m].account
        OBVIOUS
    <2>2. PICK c : c = resolution[m].checkpoint
        OBVIOUS
    <2>3. a \in Accounts /\ c \in CheckpointType
        BY <1>3, <2>1, <2>2 DEF EndResolution, ResolutionOK
    <2> DEFINE new == [checkpoints EXCEPT ![a] = WithCheckpoint(@, c)]
    <2>4. Record(new)
        BY <1>3, <2>1, <2>2 DEF EndResolution
    <2>5. /\ DOMAIN checkpoints = Accounts
          /\ new = [d \in Accounts |-> IF d = a THEN WithCheckpoint(checkpoints[a], c)
                                                ELSE checkpoints[d]]
        BY DEF CheckpointsOK
    <2> HIDE DEF new
    <2>6. \A d \in Accounts : /\ new[d] \subseteq CheckpointType /\ IsFiniteSet(new[d])
                              /\ checkpoints[d] \subseteq new[d]
        BY <1>1, <2>3, <2>5, WithCheckpointFacts
    <2>7. new \in [Accounts -> SUBSET CheckpointType]
        BY <2>5, <2>6
    <2> QED
        BY <2>4, <2>6, <2>7
<1>4. \A m \in Admins : EndResolution(m) /\ ~OneSession
                           => checkpoints' = checkpoints /\ order' = order
    BY DEF EndResolution, recordVars
<1>5. CASE World
    BY <1>5 DEF World, Pay, Tamper, Age, recordVars
<1>6. CASE Scheduler
    BY <1>2, <1>6 DEF Scheduler, TakeBatch, AbortBatch, recordVars
<1>7. CASE Endpoint
    BY <1>3, <1>4, <1>7, VerificationAssumption
       DEF Endpoint, FindIncident, Review, Refuse, Resolve, LoseResolution, recordVars
<1>8. CASE vars' = vars
    BY <1>8 DEF vars
<1> QED
    BY <1>5, <1>6, <1>7, <1>8 DEF Next

\* Checkpoints stay finite sets of points of the ledger's range.
LEMMA CheckpointsStep ==
    ASSUME CheckpointsOK, BatchOK, ResolutionOK, [Next]_vars
    PROVE  CheckpointsOK'
BY RecordStep DEF CheckpointsOK, Record

\* Where every element of a finite set is written once, no two elements are
\* written at the same place.
LEMMA WrittenOnce ==
    ASSUME NEW S, IsFiniteSet(S), NEW written \in [1 .. Cardinality(S) -> S],
           \A a \in S : \E i \in DOMAIN written : written[i] = a
    PROVE  \A i, j \in DOMAIN written : written[i] = written[j] => i = j
<1> DEFINE T == 1 .. Cardinality(S)
<1>1. Cardinality(S) \in Nat
    BY FS_CardinalityType
<1>2. IsFiniteSet(T) /\ Cardinality(T) = Cardinality(S)
    BY <1>1, FS_Interval
<1>3. written \in Surjection(T, S)
    BY DEF Surjection
<1> HIDE DEF T
<1>4. written \in Injection(T, S)
    BY <1>2, <1>3, FS_Surjection
<1> QED
    BY <1>4 DEF Injection, IsInjective

\* Record keeps verified_at a strict total order: the accounts it renews come
\* after the others, in the order in which it wrote them.
LEMMA OrderStep ==
    ASSUME CheckpointsOK, OrderOK, BatchOK, ResolutionOK, [Next]_vars
    PROVE  OrderOK'
<1>1. CASE checkpoints' = checkpoints /\ order' = order
    BY <1>1 DEF OrderOK, Checkpointed
<1>2. ASSUME NEW new \in [Accounts -> SUBSET CheckpointType], Record(new),
             \A a \in Accounts : IsFiniteSet(new[a]) /\ checkpoints[a] \subseteq new[a]
      PROVE  OrderOK'
    <2>1. PICK V : V = Checkpointed
        OBVIOUS
    <2>2. PICK renewed : renewed = Renewed(new)
        OBVIOUS
    <2>3. PICK kept : kept = V \ renewed
        OBVIOUS
    <2>4. PICK written \in [1 .. Cardinality(renewed) -> renewed] :
             /\ \A a \in renewed : \E i \in DOMAIN written : written[i] = a
             /\ order' = (order \cap (kept \X kept))
                           \cup (kept \X renewed)
                           \cup {p \in renewed \X renewed :
                                    \E i, j \in DOMAIN written :
                                       i < j /\ p = <<written[i], written[j]>>}
        BY <1>2, <2>1, <2>2, <2>3 DEF Record
    <2>5. renewed \subseteq Accounts /\ IsFiniteSet(renewed)
        <3>1. renewed \in SUBSET Accounts
            BY <2>2 DEF Renewed
        <3> QED
            BY <3>1, FS_Subset, VerificationAssumption
    <2>6. \A i, j \in DOMAIN written : written[i] = written[j] => i = j
        BY <2>4, <2>5, WrittenOnce
    <2>7. DOMAIN written \subseteq Int /\ \A i \in DOMAIN written : written[i] \in renewed
        BY <2>4
    <2>8. Checkpointed' = kept \cup renewed
        <3>1. checkpoints' = new
            BY <1>2 DEF Record
        <3>2. \A a \in Accounts : new[a] # {} => a \in V \/ a \in renewed
            <4> SUFFICES ASSUME NEW a \in Accounts, new[a] # {}, a \notin V
                         PROVE  a \in renewed
                OBVIOUS
            <4>1. checkpoints[a] = {}
                BY <2>1 DEF Checkpointed
            <4>2. Latest(a).no = 0
                BY <4>1 DEF Latest, NoAnchor
            <4>3. \A c \in new[a] : c.no \in 1 .. MaxRows
                BY DEF CheckpointType
            <4>4. Highest(new[a]) \in new[a]
                <5>1. \A c \in new[a] : c.no \in Nat
                    BY <4>3, VerificationAssumption
                <5> QED
                    BY <1>2, <5>1, HighestFacts
            <4>5. Highest(new[a]).no > Latest(a).no
                BY <4>2, <4>3, <4>4, VerificationAssumption
            <4> QED
                BY <2>2, <4>5 DEF Renewed
        <3>3. \A a \in V : new[a] # {}
            BY <1>2, <2>1 DEF Checkpointed
        <3>4. \A a \in renewed : new[a] # {}
            BY <2>2 DEF Renewed
        <3>5. V \subseteq Accounts
            BY <2>1 DEF Checkpointed
        <3> QED
            BY <2>3, <2>5, <3>1, <3>2, <3>3, <3>4, <3>5 DEF Checkpointed
    <2>9. PICK later : later = order'
        OBVIOUS
    <2>10. /\ \A a, b \in V : <<a, b>> \in order <=> a # b /\ <<b, a>> \notin order
           /\ \A a, b, c \in V : <<a, b>> \in order /\ <<b, c>> \in order
                                    => <<a, c>> \in order
        BY <2>1 DEF OrderOK
    <2>11. /\ \A a, b \in kept : <<a, b>> \in later <=> <<a, b>> \in order
           /\ \A a \in kept, b \in renewed : <<a, b>> \in later /\ <<b, a>> \notin later
        BY <2>3, <2>4, <2>7, <2>9
    <2>12. \A a, b \in renewed :
              <<a, b>> \in later <=>
                 \E i, j \in DOMAIN written : i < j /\ written[i] = a /\ written[j] = b
        BY <2>3, <2>4, <2>9
    <2>13. \A a, b \in renewed : <<a, b>> \in later <=> a # b /\ <<b, a>> \notin later
        <3> SUFFICES ASSUME NEW a \in renewed, NEW b \in renewed
                     PROVE  <<a, b>> \in later <=> a # b /\ <<b, a>> \notin later
            OBVIOUS
        <3>1. PICK i \in DOMAIN written : written[i] = a
            BY <2>4
        <3>2. PICK j \in DOMAIN written : written[j] = b
            BY <2>4
        <3>3. <<a, b>> \in later <=> i < j
            BY <2>6, <2>12, <3>1, <3>2
        <3>4. <<b, a>> \in later <=> j < i
            BY <2>6, <2>12, <3>1, <3>2
        <3>5. a = b <=> i = j
            BY <2>6, <3>1, <3>2
        <3> QED
            BY <2>7, <3>3, <3>4, <3>5
    <2>14. \A a, b, c \in renewed :
              <<a, b>> \in later /\ <<b, c>> \in later => <<a, c>> \in later
        <3> SUFFICES ASSUME NEW a \in renewed, NEW b \in renewed, NEW c \in renewed,
                            <<a, b>> \in later, <<b, c>> \in later
                     PROVE  <<a, c>> \in later
            OBVIOUS
        <3>1. PICK i \in DOMAIN written, j \in DOMAIN written :
                 i < j /\ written[i] = a /\ written[j] = b
            BY <2>12
        <3>2. PICK k \in DOMAIN written, l \in DOMAIN written :
                 k < l /\ written[k] = b /\ written[l] = c
            BY <2>12
        <3>3. j = k
            BY <2>6, <3>1, <3>2
        <3>4. i < l
            BY <2>7, <3>1, <3>2, <3>3
        <3> QED
            BY <2>12, <3>1, <3>2, <3>4
    <2>15. kept \subseteq V
        BY <2>3
    <2>16. later \subseteq (kept \cup renewed) \X (kept \cup renewed)
        BY <2>4, <2>9
    <2>17. \A a, b \in kept \cup renewed :
              <<a, b>> \in later <=> a # b /\ <<b, a>> \notin later
        <3> SUFFICES ASSUME NEW a \in kept \cup renewed, NEW b \in kept \cup renewed
                     PROVE  <<a, b>> \in later <=> a # b /\ <<b, a>> \notin later
            OBVIOUS
        <3>1. CASE a \in kept /\ b \in kept
            BY <2>10, <2>11, <2>15, <3>1
        <3>2. CASE a \in kept /\ b \in renewed
            BY <2>3, <2>11, <3>2
        <3>3. CASE a \in renewed /\ b \in kept
            BY <2>3, <2>11, <3>3
        <3>4. CASE a \in renewed /\ b \in renewed
            BY <2>13, <3>4
        <3> QED
            BY <3>1, <3>2, <3>3, <3>4
    <2>18. \A a, b, c \in kept \cup renewed :
              <<a, b>> \in later /\ <<b, c>> \in later => <<a, c>> \in later
        <3> SUFFICES ASSUME NEW a \in kept \cup renewed, NEW b \in kept \cup renewed,
                            NEW c \in kept \cup renewed,
                            <<a, b>> \in later, <<b, c>> \in later
                     PROVE  <<a, c>> \in later
            OBVIOUS
        <3>1. CASE c \in kept
            <4>1. b \in kept
                BY <2>11, <3>1
            <4>2. a \in kept
                BY <2>11, <4>1
            <4> QED
                BY <2>10, <2>11, <2>15, <3>1, <4>1, <4>2
        <3>2. CASE c \in renewed /\ a \in kept
            BY <2>11, <3>2
        <3>3. CASE c \in renewed /\ a \in renewed
            <4>1. b \in renewed
                BY <2>11, <3>3
            <4> QED
                BY <2>14, <3>3, <4>1
        <3> QED
            BY <3>1, <3>2, <3>3
    <2> QED
        BY <2>8, <2>9, <2>16, <2>17, <2>18 DEF OrderOK
<1> QED
    BY <1>1, <1>2, RecordStep

\* A log of incidents with the i-th one resolved.
Closed(log, i) == [log EXCEPT ![i].open = FALSE]

\* A log of incidents, and what it is after a new one.
LEMMA LogFacts ==
    ASSUME NEW log \in Seq(IncidentType)
    PROVE  /\ Len(log) \in Nat /\ DOMAIN log = 1 .. Len(log)
           /\ \A i \in DOMAIN log : log[i] \in IncidentType
           /\ \A e \in IncidentType :
                 LET new == Append(log, e)
                 IN  /\ new \in Seq(IncidentType)
                     /\ Len(new) = Len(log) + 1 /\ DOMAIN new = 1 .. Len(log) + 1
                     /\ new[Len(log) + 1] = e
                     /\ \A i \in DOMAIN log : new[i] = log[i]
<1>1. Len(log) \in Nat /\ DOMAIN log = 1 .. Len(log)
    BY LenProperties
<1>2. \A i \in DOMAIN log : log[i] \in IncidentType
    BY ElementOfSeq
<1> QED
    BY <1>1, <1>2, AppendProperties

\* A log of incidents after one of them is resolved.
LEMMA ClosedFacts ==
    ASSUME NEW log \in Seq(IncidentType), NEW i \in DOMAIN log
    PROVE  /\ Closed(log, i) \in Seq(IncidentType)
           /\ Len(Closed(log, i)) = Len(log)
           /\ DOMAIN Closed(log, i) = DOMAIN log
           /\ ~Closed(log, i)[i].open
           /\ \A j \in DOMAIN log : j # i => Closed(log, i)[j] = log[j]
<1>0. PICK new : new = Closed(log, i)
    OBVIOUS
<1>1. PICK e : e = [log[i] EXCEPT !.open = FALSE]
    OBVIOUS
<1>2. /\ Len(log) \in Nat /\ DOMAIN log = 1 .. Len(log)
      /\ \A j \in DOMAIN log : log[j] \in IncidentType
    BY LogFacts
<1>3. e \in IncidentType /\ e.open = FALSE
    BY <1>1, <1>2 DEF IncidentType
<1>4. new = [j \in 1 .. Len(log) |-> IF j = i THEN e ELSE log[j]]
    BY <1>0, <1>1, <1>2 DEF Closed
<1>5. \A j \in 1 .. Len(log) : new[j] \in IncidentType
    BY <1>2, <1>3, <1>4
<1>6. new \in Seq(IncidentType)
    BY <1>2, <1>4, <1>5, SeqDef
<1>7. Len(new) = Len(log) /\ DOMAIN new = DOMAIN log
    BY <1>2, <1>4, <1>6, LenProperties
<1> QED
    BY <1>0, <1>2, <1>3, <1>4, <1>6, <1>7

\* A log of incidents changes in two ways only: the run of an account that has
\* no open incident appends one, and a resolution closes the one it is about.
LEMMA IncidentsChange ==
    ASSUME IncidentsOK, BatchOK, ResolutionOK, [Next]_vars
    PROVE  /\ DOMAIN incidents' = Accounts
           /\ \A a \in Accounts :
                 \/ incidents'[a] = incidents[a]
                 \/ \E v \in Verifiers, e \in IncidentType : \E b \in batch[v] :
                       /\ CommitBatch(v)
                       /\ b.account = a /\ b.found.break # NoBreak
                       /\ e = [no |-> b.found.break.no, kind |-> b.found.break.kind,
                               open |-> TRUE]
                       /\ incidents'[a] = Append(incidents[a], e)
                 \/ \E m \in Admins, i \in DOMAIN incidents[a] :
                       /\ EndResolution(m)
                       /\ resolution[m].account = a /\ resolution[m].incident = i
                       /\ incidents'[a] = Closed(incidents[a], i)
<1>1. DOMAIN incidents = Accounts
    BY DEF IncidentsOK
<1>2. ASSUME NEW v \in Verifiers, CommitBatch(v), NEW a \in Accounts
      PROVE  \/ incidents'[a] = incidents[a]
             \/ \E e \in IncidentType : \E b \in batch[v] :
                   /\ b.account = a /\ b.found.break # NoBreak
                   /\ e = [no |-> b.found.break.no, kind |-> b.found.break.kind,
                           open |-> TRUE]
                   /\ incidents'[a] = Append(incidents[a], e)
    <2>1. incidents'[a] = RecordedIncidents(v, a)
        BY <1>2 DEF CommitBatch
    <2>2. ASSUME NEW b \in batch[v], b.account = a, b.found.break # NoBreak,
                 RecordedIncidents(v, a) = WithIncident(incidents[a], b.found.break)
          PROVE  \E e \in IncidentType :
                   /\ e = [no |-> b.found.break.no, kind |-> b.found.break.kind,
                           open |-> TRUE]
                   /\ incidents'[a] = Append(incidents[a], e)
        <3>1. PICK e : e = [no |-> b.found.break.no, kind |-> b.found.break.kind,
                            open |-> TRUE]
            OBVIOUS
        <3>2. AnswerOK(b.found) /\ OpenIncidents(a) = {}
            BY <2>2 DEF BatchOK
        <3>3. b.found.break.no \in 1 .. MaxRows /\ b.found.break.kind \in Kinds
            BY <2>2, <3>2 DEF AnswerOK
        <3>4. e \in IncidentType
            BY <3>1, <3>3 DEF IncidentType
        <3>5. ~ \E i \in DOMAIN incidents[a] : incidents[a][i].open
            BY <3>2 DEF OpenIncidents
        <3>6. WithIncident(incidents[a], b.found.break) = Append(incidents[a], e)
            BY <3>1, <3>5 DEF WithIncident
        <3> QED
            BY <2>1, <2>2, <3>1, <3>4, <3>6
    <2> QED
        BY <2>1, <2>2, RecordedFacts
<1>3. ASSUME NEW m \in Admins, EndResolution(m), OneSession
      PROVE  /\ DOMAIN incidents' = Accounts
             /\ \A a \in Accounts :
                   \/ incidents'[a] = incidents[a]
                   \/ \E i \in DOMAIN incidents[a] :
                         /\ resolution[m].account = a /\ resolution[m].incident = i
                         /\ incidents'[a] = Closed(incidents[a], i)
    <2>1. PICK c, i : c = resolution[m].account /\ i = resolution[m].incident
        OBVIOUS
    <2>2. c \in Accounts /\ i \in DOMAIN incidents[c]
        BY <1>3, <2>1 DEF EndResolution, ResolutionOK
    <2>3. incidents' = [incidents EXCEPT ![c][i].open = FALSE]
        BY <1>3, <2>1 DEF EndResolution
    <2> QED
        BY <1>1, <2>1, <2>2, <2>3 DEF Closed
<1>4. \A m \in Admins : EndResolution(m) /\ ~OneSession => incidents' = incidents
    BY DEF EndResolution, recordVars
<1>5. \A v \in Verifiers : CommitBatch(v) => DOMAIN incidents' = Accounts
    BY DEF CommitBatch
<1>6. CASE World
    BY <1>1, <1>6 DEF World, Pay, Tamper, Age, recordVars
<1>7. CASE Scheduler
    BY <1>1, <1>2, <1>5, <1>7 DEF Scheduler, TakeBatch, AbortBatch, recordVars
<1>8. CASE Endpoint
    <2>1. \A m \in Admins :
             /\ \A a \in Accounts : FindIncident(m, a) => incidents' = incidents
             /\ \A n \in 0 .. MaxRows :
                   (Review(m, n) => incidents' = incidents)
                   /\ (Refuse(m, n) => incidents' = incidents)
             /\ (Resolve(m) => incidents' = incidents)
             /\ (LoseResolution(m) => incidents' = incidents)
        BY DEF FindIncident, Review, Refuse, Resolve, LoseResolution, recordVars
    <2>2. PICK m \in Admins :
             \/ \E a \in Accounts : FindIncident(m, a)
             \/ \E n \in 0 .. MaxRows : Review(m, n) \/ Refuse(m, n)
             \/ Resolve(m) \/ EndResolution(m) \/ LoseResolution(m)
        BY <1>8 DEF Endpoint
    <2>3. CASE incidents' = incidents
        BY <1>1, <2>3
    <2>4. CASE EndResolution(m) /\ OneSession
        BY <1>3, <2>4
    <2>5. incidents' = incidents \/ (EndResolution(m) /\ OneSession)
        BY <1>4, <2>1, <2>2
    <2> QED
        BY <2>3, <2>4, <2>5
<1>9. CASE vars' = vars
    BY <1>1, <1>9 DEF vars
<1> QED
    BY <1>6, <1>7, <1>8, <1>9 DEF Next

\* What a step may do to the open incidents of an account.
LEMMA OpenIncidentsChange ==
    ASSUME IncidentsOK, BatchOK, ResolutionOK, [Next]_vars, NEW a \in Accounts
    PROVE  /\ incidents'[a] \in Seq(IncidentType)
           /\ DOMAIN incidents[a] \subseteq DOMAIN incidents'[a]
           /\ \/ OpenIncidents(a)' \subseteq OpenIncidents(a)
              \/ /\ OpenIncidents(a) = {}
                 /\ OpenIncidents(a)' = {Len(incidents[a]) + 1}
                 /\ \E v \in Verifiers : CommitBatch(v)
<1>1. incidents[a] \in Seq(IncidentType)
    BY DEF IncidentsOK
<1>2. /\ OpenIncidents(a) = {i \in DOMAIN incidents[a] : incidents[a][i].open}
      /\ OpenIncidents(a)' = {i \in DOMAIN incidents'[a] : incidents'[a][i].open}
    BY DEF OpenIncidents
<1>3. CASE incidents'[a] = incidents[a]
    BY <1>1, <1>2, <1>3
<1>4. ASSUME NEW v \in Verifiers, NEW e \in IncidentType, NEW b \in batch[v],
             CommitBatch(v), b.account = a, e.open = TRUE,
             incidents'[a] = Append(incidents[a], e)
      PROVE  /\ incidents'[a] \in Seq(IncidentType)
             /\ DOMAIN incidents[a] \subseteq DOMAIN incidents'[a]
             /\ OpenIncidents(a) = {}
             /\ OpenIncidents(a)' = {Len(incidents[a]) + 1}
    <2>1. OpenIncidents(a) = {}
        BY <1>4 DEF BatchOK
    <2>2. /\ Len(incidents[a]) \in Nat /\ DOMAIN incidents[a] = 1 .. Len(incidents[a])
          /\ incidents'[a] \in Seq(IncidentType)
          /\ DOMAIN incidents'[a] = 1 .. Len(incidents[a]) + 1
          /\ incidents'[a][Len(incidents[a]) + 1] = e
          /\ \A i \in DOMAIN incidents[a] : incidents'[a][i] = incidents[a][i]
        BY <1>1, <1>4, LogFacts
    <2>3. \A i \in 1 .. Len(incidents[a]) + 1 :
             i = Len(incidents[a]) + 1 \/ i \in 1 .. Len(incidents[a])
        BY <2>2
    <2>4. Len(incidents[a]) + 1 \in 1 .. Len(incidents[a]) + 1
        BY <2>2
    <2> QED
        BY <1>2, <1>4, <2>1, <2>2, <2>3, <2>4
<1>5. ASSUME NEW i \in DOMAIN incidents[a], incidents'[a] = Closed(incidents[a], i)
      PROVE  /\ incidents'[a] \in Seq(IncidentType)
             /\ DOMAIN incidents[a] \subseteq DOMAIN incidents'[a]
             /\ OpenIncidents(a)' \subseteq OpenIncidents(a)
    <2>1. PICK log \in Seq(IncidentType) : log = incidents[a]
        BY <1>1
    <2>2. PICK new : new = Closed(log, i)
        OBVIOUS
    <2>3. /\ new \in Seq(IncidentType)
          /\ DOMAIN new = DOMAIN log
          /\ ~new[i].open
          /\ \A j \in DOMAIN log : j # i => new[j] = log[j]
        <3>1. i \in DOMAIN log
            BY <1>5, <2>1
        <3> QED
            BY <2>1, <2>2, <3>1, ClosedFacts
    <2>4. incidents'[a] = new
        BY <1>5, <2>1, <2>2
    <2>5. \A j \in DOMAIN new : new[j].open => j \in DOMAIN log /\ log[j].open
        BY <2>3
    <2> QED
        BY <1>2, <2>1, <2>3, <2>4, <2>5
<1> QED
    <2>1. CASE \E v \in Verifiers, e \in IncidentType : \E b \in batch[v] :
                  /\ CommitBatch(v) /\ b.account = a
                  /\ e = [no |-> b.found.break.no, kind |-> b.found.break.kind,
                          open |-> TRUE]
                  /\ incidents'[a] = Append(incidents[a], e)
        <3>1. PICK v \in Verifiers, e \in IncidentType : \E b \in batch[v] :
                  /\ CommitBatch(v) /\ b.account = a /\ e.open = TRUE
                  /\ incidents'[a] = Append(incidents[a], e)
            BY <2>1
        <3> QED
            BY <1>4, <3>1
    <2>2. CASE \E i \in DOMAIN incidents[a] : incidents'[a] = Closed(incidents[a], i)
        BY <1>5, <2>2
    <2> QED
        BY <1>3, <2>1, <2>2, IncidentsChange

\* There is one open incident per account at most.
LEMMA IncidentsStep ==
    ASSUME IncidentsOK, BatchOK, ResolutionOK, [Next]_vars
    PROVE  IncidentsOK'
<1>1. DOMAIN incidents' = Accounts
    BY IncidentsChange
<1>2. ASSUME NEW a \in Accounts
      PROVE  incidents'[a] \in Seq(IncidentType) /\ \A i, j \in OpenIncidents(a)' : i = j
    <2>1. \A i, j \in OpenIncidents(a) : i = j
        BY DEF IncidentsOK
    <2> QED
        BY <2>1, OpenIncidentsChange
<1> QED
    BY <1>1, <1>2 DEF IncidentsOK

\* A batch is of the one verifier that holds the lock, and while it does, only
\* that verifier opens incidents.
LEMMA BatchStep ==
    ASSUME LedgersOK, CheckpointsOK, IncidentsOK, BatchOK, ResolutionOK, [Next]_vars
    PROVE  BatchOK'
<1>1. CASE /\ batch' = batch /\ lock' = lock
           /\ \A a \in Accounts : OpenIncidents(a)' \subseteq OpenIncidents(a)
    BY <1>1 DEF BatchOK
<1>2. ASSUME NEW v \in Verifiers, TakeBatch(v)
      PROVE  BatchOK'
    <2>1. PICK targets \in Targets :
             batch' = [batch EXCEPT ![v] =
                         {[account |-> a,
                           found |-> Verify(rows[a], Latest(a), RowsPerAccount + 1)] :
                             a \in targets}]
        BY <1>2 DEF TakeBatch
    <2>2. lock = Nobody /\ lock' = v /\ incidents' = incidents
        BY <1>2 DEF TakeBatch, LockFree, TakeLock, recordVars
    <2>3. \A a \in targets : a \in Accounts /\ Due(a)
        BY DEF Targets
    <2>4. \A w \in Verifiers : batch[w] = {}
        BY <2>2, VerificationAssumption DEF BatchOK
    <2>5. \A a \in targets :
             /\ AnswerOK(Verify(rows[a], Latest(a), RowsPerAccount + 1))
             /\ OpenIncidents(a) = {}
        BY <2>3, AnswerFacts DEF Due
    <2>6. DOMAIN batch' = Verifiers /\ \A w \in Verifiers : w # v => batch'[w] = {}
        BY <2>1, <2>4 DEF BatchOK
    <2>7. batch'[v] = {[account |-> a,
                        found |-> Verify(rows[a], Latest(a), RowsPerAccount + 1)] :
                          a \in targets}
        BY <2>1 DEF BatchOK
    <2>8. \A b \in batch'[v] :
             /\ b.account \in targets
             /\ b = [account |-> b.account,
                     found |-> Verify(rows[b.account], Latest(b.account),
                                      RowsPerAccount + 1)]
        BY <2>7
    <2>9. \A b \in batch'[v] :
             /\ b.account \in Accounts
             /\ AnswerOK(b.found)
             /\ OpenIncidents(b.account) = {}
        BY <2>3, <2>5, <2>8
    <2>10. \A b, c \in batch'[v] : b.account = c.account => b = c
        BY <2>8
    <2>11. \A a : OpenIncidents(a)' = OpenIncidents(a)
        BY <2>2 DEF OpenIncidents
    <2> QED
        BY <2>2, <2>6, <2>9, <2>10, <2>11 DEF BatchOK
<1>3. ASSUME NEW v \in Verifiers, batch[v] # {}, Unlock(v)
      PROVE  BatchOK'
    <2>1. lock = v
        BY <1>3 DEF BatchOK
    <2>2. lock' = Nobody /\ batch' = [batch EXCEPT ![v] = {}]
        BY <1>3, <2>1 DEF Unlock
    <2>3. \A w \in Verifiers : batch'[w] = {}
        BY <2>1, <2>2 DEF BatchOK
    <2> QED
        BY <2>2, <2>3 DEF BatchOK
<1>4. CASE World
    <2>1. batch' = batch /\ lock' = lock /\ incidents' = incidents
        BY <1>4 DEF World, Pay, Tamper, Age, recordVars, verifierVars
    <2> QED
        BY <1>1, <2>1 DEF OpenIncidents
<1>5. CASE Scheduler
    BY <1>2, <1>3, <1>5 DEF Scheduler, CommitBatch, AbortBatch
<1>6. CASE Endpoint
    <2>1. batch' = batch /\ lock' = lock
        BY <1>6 DEF Endpoint, FindIncident, Review, Refuse,
           Resolve, EndResolution, LoseResolution, verifierVars
    <2>2. ~ \E v \in Verifiers : CommitBatch(v)
        <3> SUFFICES ASSUME NEW v \in Verifiers, CommitBatch(v)
                     PROVE  FALSE
            OBVIOUS
        <3>1. batch[v] # {} /\ batch' = [batch EXCEPT ![v] = {}]
            BY DEF CommitBatch, Unlock
        <3> QED
            BY <2>1, <3>1 DEF BatchOK
    <2> QED
        BY <1>1, <2>1, <2>2, OpenIncidentsChange
<1>7. CASE vars' = vars
    BY <1>1, <1>7 DEF vars, OpenIncidents
<1> QED
    BY <1>4, <1>5, <1>6, <1>7 DEF Next

\* A request is about an incident of its account, and its checkpoint is a row
\* that was there when it looked.
LEMMA ResolutionStep ==
    ASSUME LedgersOK, IncidentsOK, BatchOK, ResolutionOK, [Next]_vars
    PROVE  ResolutionOK'
<1>1. \A a \in Accounts : DOMAIN incidents[a] \subseteq DOMAIN incidents'[a]
    BY OpenIncidentsChange
<1>2. CASE resolution' = resolution
    BY <1>1, <1>2 DEF ResolutionOK
<1>3. ASSUME NEW m \in Admins, NEW r, resolution' = [resolution EXCEPT ![m] = r],
             r.step \in {"idle", "found", "reviewed", "answered", "lost"},
             r.step \notin {"idle", "lost"} => r.account \in Accounts
                                /\ r.incident \in DOMAIN incidents[r.account],
             r.step \in {"reviewed", "answered"} => r.checkpoint \in CheckpointType
      PROVE  ResolutionOK'
    BY <1>1, <1>3 DEF ResolutionOK
<1>4. ASSUME NEW m \in Admins, NEW step \in {"idle", "lost"},
             resolution' = [resolution EXCEPT ![m] = [step |-> step]]
      PROVE  ResolutionOK'
    <2>1. PICK r : r = [step |-> step]
        OBVIOUS
    <2>2. r.step \in {"idle", "lost"}
        BY <2>1
    <2> QED
        BY <1>3, <1>4, <2>1, <2>2
<1>5. ASSUME NEW m \in Admins, NEW a \in Accounts, FindIncident(m, a)
      PROVE  ResolutionOK'
    <2>1. PICK i \in OpenIncidents(a) :
             resolution' = [resolution EXCEPT ![m] =
                               [step |-> "found", account |-> a, incident |-> i]]
        BY <1>5 DEF FindIncident
    <2>2. i \in DOMAIN incidents[a]
        BY DEF OpenIncidents
    <2>3. PICK r : r = [step |-> "found", account |-> a, incident |-> i]
        OBVIOUS
    <2>4. r.step = "found" /\ r.account = a /\ r.incident = i
        BY <2>3
    <2> QED
        BY <1>3, <2>1, <2>2, <2>3, <2>4
<1>6. ASSUME NEW m \in Admins, NEW n \in 0 .. MaxRows, Review(m, n)
      PROVE  ResolutionOK'
    <2>1. PICK a, i : a = resolution[m].account /\ i = resolution[m].incident
        OBVIOUS
    <2>2. PICK s \in rows[a] :
             resolution' = [resolution EXCEPT ![m] =
                  [step |-> "reviewed", account |-> a, incident |-> i,
                   checkpoint |-> [no |-> s.no, balance |-> s.balance]]]
        BY <1>6, <2>1 DEF Review
    <2>3. a \in Accounts /\ i \in DOMAIN incidents[a]
        BY <1>6, <2>1 DEF Review, ResolutionOK
    <2>4. PICK c : c = [no |-> s.no, balance |-> s.balance]
        OBVIOUS
    <2>5. c \in CheckpointType
        <3>1. s \in RowType
            BY <2>2, <2>3 DEF LedgersOK
        <3> QED
            BY <2>4, <3>1 DEF RowType, CheckpointType
    <2>6. PICK r : r = [step |-> "reviewed", account |-> a, incident |-> i, checkpoint |-> c]
        OBVIOUS
    <2>7. r.step = "reviewed" /\ r.account = a /\ r.incident = i /\ r.checkpoint = c
        BY <2>6
    <2> QED
        BY <1>3, <2>2, <2>3, <2>4, <2>5, <2>6, <2>7
<1>7. ASSUME NEW m \in Admins, Resolve(m)
      PROVE  ResolutionOK'
    <2>1. resolution[m].step = "reviewed" /\ resolution' = [resolution EXCEPT ![m].step = "answered"]
        BY <1>7 DEF Resolve
    <2>2. PICK r : r = [resolution[m] EXCEPT !.step = "answered"]
        OBVIOUS
    <2>3. resolution' = [resolution EXCEPT ![m] = r]
        BY <2>1, <2>2
    <2>4. /\ r.account = resolution[m].account
          /\ r.incident = resolution[m].incident
          /\ r.checkpoint = resolution[m].checkpoint
        BY <2>2
    <2>5. r.step = "answered"
        BY <2>1, <2>2, VerificationAssumption DEF ResolutionOK
    <2> QED
        BY <1>3, <2>1, <2>3, <2>4, <2>5 DEF ResolutionOK
<1>8. CASE World
    BY <1>2, <1>8 DEF World, Pay, Tamper, Age
<1>9. CASE Scheduler
    BY <1>2, <1>9 DEF Scheduler, TakeBatch, CommitBatch, AbortBatch
<1>10. CASE Endpoint
    <2>1. \A m \in Admins :
             /\ \A n \in 0 .. MaxRows :
                   Refuse(m, n) => resolution' = [resolution EXCEPT ![m] = [step |-> "idle"]]
             /\ EndResolution(m) => resolution' = [resolution EXCEPT ![m] = [step |-> "idle"]]
             /\ LoseResolution(m) => resolution' = [resolution EXCEPT ![m] = [step |-> "lost"]]
        BY DEF Refuse, EndResolution, LoseResolution
    <2> QED
        BY <1>4, <1>5, <1>6, <1>7, <1>10, <2>1 DEF Endpoint
<1>11. CASE vars' = vars
    BY <1>2, <1>11 DEF vars
<1> QED
    BY <1>8, <1>9, <1>10, <1>11 DEF Next

\* StateOK holds at the start: every ledger has its opening row and nothing
\* has been verified.
LEMMA StateInit == Init => StateOK
<1> SUFFICES ASSUME Init
             PROVE  StateOK
    OBVIOUS
<1>1. PICK opening : opening = [no |-> 1, amount |-> 0, balance |-> 0]
    OBVIOUS
<1>2. rows = [a \in Accounts |-> {opening}]
    BY <1>1 DEF Init
<1>3. opening \in RowType /\ opening \in [no : Nat \ {0}, amount : Int, balance : Int]
    BY <1>1, VerificationAssumption DEF RowType
<1>4. LedgersOK
    <2>1. IsFiniteSet({opening})
        BY FS_Singleton
    <2> QED
        BY <1>2, <1>3, <2>1 DEF LedgersOK, IsLedger
<1>5. CheckpointsOK
    BY FS_EmptySet DEF Init, CheckpointsOK
<1>6. OrderOK
    BY DEF Init, OrderOK, Checkpointed
<1>7. \A a \in Accounts : incidents[a] = <<>> /\ OpenIncidents(a) = {}
    BY DEF Init, OpenIncidents
<1>8. IncidentsOK
    <2>1. <<>> \in Seq(IncidentType)
        BY EmptySeq
    <2> QED
        BY <1>7, <2>1 DEF Init, IncidentsOK
<1>9. BatchOK
    BY DEF Init, BatchOK
<1>10. ResolutionOK
    BY DEF Init, ResolutionOK
<1>11. aged \subseteq Accounts /\ tampers \in 0 .. MaxTampers
    BY VerificationAssumption DEF Init
<1> QED
    BY <1>4, <1>5, <1>6, <1>8, <1>9, <1>10, <1>11 DEF StateOK

\* Accounts age by Age, and changes are counted by Tamper.
LEMMA CountersStep ==
    ASSUME aged \subseteq Accounts, tampers \in 0 .. MaxTampers, [Next]_vars
    PROVE  aged' \subseteq Accounts /\ tampers' \in 0 .. MaxTampers
<1>1. tampers' \in 0 .. MaxTampers
    <2>1. \A a, new : Tamper(a, new) => tampers' \in 0 .. MaxTampers
        BY VerificationAssumption DEF Tamper
    <2>2. CASE World
        BY <2>1, <2>2 DEF World, Pay, Age, ledgerVars
    <2>3. CASE Scheduler
        BY <2>3 DEF Scheduler, TakeBatch, CommitBatch, AbortBatch, ledgerVars
    <2>4. CASE Endpoint
        BY <2>4 DEF Endpoint, FindIncident, Review, Refuse,
           Resolve, EndResolution, LoseResolution, ledgerVars
    <2> QED
        BY <2>2, <2>3, <2>4 DEF Next, vars
<1>2. aged' \subseteq Accounts
    <2>1. CASE World
        BY <2>1 DEF World, Pay, Tamper, Age
    <2>2. CASE Scheduler
        BY <2>2 DEF Scheduler, TakeBatch, CommitBatch, AbortBatch, Record
    <2>3. CASE Endpoint
        BY <2>3 DEF Endpoint, FindIncident, Review, Refuse,
           Resolve, EndResolution, LoseResolution, Record
    <2> QED
        BY <2>1, <2>2, <2>3 DEF Next, vars
<1> QED
    BY <1>1, <1>2

\* StateOK is inductive, with any number of administrators.
THEOREM StateInvariant == Spec => []StateOK
<1>1. StateOK /\ [Next]_vars => StateOK'
    BY LedgersStep, CheckpointsStep, OrderStep, IncidentsStep, BatchStep,
       ResolutionStep, CountersStep DEF StateOK
<1> QED
    BY StateInit, <1>1, PTL DEF Spec

\* TypeOK: the rows, checkpoints and incidents that are written fit their
\* columns, and verified_at orders the accounts that have a checkpoint.
THEOREM TypeCorrect == Spec => []TypeOK
<1>1. StateOK => TypeOK
    <2> SUFFICES ASSUME StateOK
                 PROVE  TypeOK
        OBVIOUS
    <2>1. \A a \in Accounts :
             /\ rows[a] \subseteq RowType
             /\ checkpoints[a] \subseteq [no : 1 .. MaxRows, balance : 0 .. MaxBalance]
        BY DEF StateOK, LedgersOK, CheckpointsOK, CheckpointType
    <2>2. ASSUME NEW a \in Accounts
          PROVE  \A i \in DOMAIN incidents[a] :
                    incidents[a][i] \in [no : 1 .. MaxRows, kind : Kinds, open : BOOLEAN]
        <3>1. incidents[a] \in Seq(IncidentType)
            BY DEF StateOK, IncidentsOK
        <3>2. \A i \in DOMAIN incidents[a] : incidents[a][i] \in IncidentType
            BY <3>1, LogFacts
        <3> QED
            BY <3>2 DEF IncidentType
    <2> QED
        BY <2>1, <2>2 DEF StateOK, OrderOK, BatchOK, TypeOK
<1> QED
    BY StateInvariant, <1>1, PTL

-----------------------------------------------------------------------------
(* Honest ledgers.                                                         *)

\* A query of a chained ledger, from one of its rows or from nothing, finds no
\* break.
LEMMA HonestAnswer ==
    ASSUME StateOK, NEW a \in Accounts, Due(a), HonestAccount(a)
    PROVE  Verify(rows[a], Latest(a), RowsPerAccount + 1).break = NoBreak
<1>1. PICK ledger : ledger = rows[a]
    OBVIOUS
<1>2. PICK anchor : anchor = Latest(a)
    OBVIOUS
<1>3. IsLedger(ledger) /\ IsPoint(anchor)
    BY <1>1, <1>2, LatestFacts DEF StateOK, LedgersOK
<1>4. anchor = NoAnchor \/ \E s \in ledger : anchor = Point(s)
    BY <1>1, <1>2, LatestFacts DEF StateOK, HonestAccount
<1>5. Chained(ledger)
    BY <1>1 DEF HonestAccount
<1>6. /\ anchor.no \in Nat
      /\ \A r \in ledger : r.no \in Nat \ {0}
      /\ \A r, s \in ledger : r.no = s.no => r = s
    BY <1>3 DEF IsLedger, IsPoint
<1>7. ASSUME NEW r \in ledger, r.no = anchor.no
      PROVE  r.balance = anchor.balance
    <2>1. anchor # NoAnchor
        BY <1>6, <1>7 DEF NoAnchor
    <2>2. PICK s \in ledger : anchor = Point(s)
        BY <1>4, <2>1
    <2> QED
        BY <1>6, <1>7, <2>2 DEF Point
<1>8. ASSUME NEW r \in ledger, r.no > anchor.no
      PROVE  \E q : /\ q = Point(anchor) \/ \E s \in ledger : q = Point(s) /\ s.no >= anchor.no
                    /\ r.no = q.no + 1 /\ r.balance = q.balance + r.amount
    <2>1. r.amount \in Int
        BY <1>3 DEF IsLedger
    <2>2. CASE r.no = 1 /\ r.balance = r.amount
        <3>1. anchor = NoAnchor
            BY <1>4, <1>6, <1>8, <2>2 DEF Point
        <3>2. PICK q : q = Point(anchor)
            OBVIOUS
        <3>3. q.no = 0 /\ q.balance = 0
            BY <3>1, <3>2 DEF Point, NoAnchor
        <3> QED
            BY <2>1, <2>2, <3>2, <3>3
    <2>3. CASE \E s \in ledger : r.no = s.no + 1 /\ r.balance = s.balance + r.amount
        <3>1. PICK s \in ledger : r.no = s.no + 1 /\ r.balance = s.balance + r.amount
            BY <2>3
        <3>2. s.no >= anchor.no
            BY <1>6, <1>8, <3>1
        <3>3. PICK q : q = Point(s)
            OBVIOUS
        <3>4. q.no = s.no /\ q.balance = s.balance
            BY <3>3 DEF Point
        <3> QED
            BY <3>1, <3>2, <3>3, <3>4
    <2> QED
        BY <1>5, <2>2, <2>3 DEF Chained
<1>9. RowsPerAccount + 1 \in Nat /\ RowsPerAccount + 1 >= 2
    BY VerificationAssumption
<1>10. Verify(ledger, anchor, RowsPerAccount + 1).break = NoBreak
    BY <1>3, <1>7, <1>8, <1>9, ChainHasNoBreak
<1> QED
    BY <1>1, <1>2, <1>10

\* A payment continues the chain and keeps every row.
LEMMA HonestPay ==
    ASSUME StateOK, NEW a \in Accounts, NEW amount \in Amounts, Pay(a, amount)
    PROVE  /\ \A d \in Accounts : rows[d] \subseteq rows'[d]
           /\ \A d \in Accounts : Chained(rows[d]) => Chained(rows'[d])
<1>1. PICK last \in rows[a], next \in RowType :
         /\ next = [no |-> last.no + 1, amount |-> amount,
                    balance |-> last.balance + amount]
         /\ rows' = [rows EXCEPT ![a] = rows[a] \cup {next}]
    BY PayFacts DEF StateOK
<1>2. next.no = last.no + 1 /\ next.balance = last.balance + next.amount
    BY <1>1
<1>3. /\ rows'[a] = rows[a] \cup {next}
      /\ \A d \in Accounts : d # a => rows'[d] = rows[d]
    BY <1>1 DEF StateOK, LedgersOK
<1>4. Chained(rows[a]) => Chained(rows[a] \cup {next})
    BY <1>1, <1>2 DEF Chained
<1> QED
    BY <1>3, <1>4

\* What honest ledgers have been found to be.
HonestBatches ==
    \A v \in Verifiers : \A b \in batch[v] :
        /\ b.found.break = NoBreak
        /\ ShouldCheckpoint(b.found) =>
              \E r \in rows[b.account] : b.found.lastGood = Point(r)

\* While nobody tampers, payments continue the chains, the runs find no break
\* and write rows as checkpoints, and there is nothing to resolve.
LEMMA HonestStep ==
    ASSUME StateOK, HonestOK, [Next]_vars
    PROVE  HonestOK'
<1> SUFFICES ASSUME tampers' = 0
             PROVE  /\ \A a \in Accounts : HonestAccount(a)'
                    /\ HonestBatches'
                    /\ \A m \in Admins : resolution'[m].step = "idle"
    BY DEF HonestOK, HonestBatches
<1>1. \A a, new : ~Tamper(a, new)
    BY VerificationAssumption DEF Tamper, StateOK
<1>2. tampers = 0
    <2>1. CASE World
        BY <1>1, <2>1 DEF World, Pay, Age, ledgerVars
    <2>2. CASE Scheduler
        BY <2>2 DEF Scheduler, TakeBatch, CommitBatch, AbortBatch, ledgerVars
    <2>3. CASE Endpoint
        BY <2>3 DEF Endpoint, FindIncident, Review, Refuse,
           Resolve, EndResolution, LoseResolution, ledgerVars
    <2> QED
        BY <2>1, <2>2, <2>3 DEF Next, vars
<1>3. /\ \A a \in Accounts : HonestAccount(a)
      /\ HonestBatches
      /\ \A m \in Admins : resolution[m].step = "idle"
    BY <1>2 DEF HonestOK, HonestBatches
<1>4. \A a \in Accounts : OpenIncidents(a) = {}
    BY <1>3 DEF HonestAccount, OpenIncidents
<1>5. CASE UNCHANGED <<rows, checkpoints, incidents, batch, resolution>>
    BY <1>3, <1>5 DEF HonestAccount, HonestBatches
<1>6. ASSUME NEW a \in Accounts, NEW amount \in Amounts, Pay(a, amount)
      PROVE  /\ \A d \in Accounts : HonestAccount(d)'
             /\ HonestBatches'
             /\ \A m \in Admins : resolution'[m].step = "idle"
    <2>1. /\ checkpoints' = checkpoints /\ incidents' = incidents
          /\ batch' = batch /\ resolution' = resolution
        BY <1>6 DEF Pay, recordVars, verifierVars
    <2>2. /\ \A d \in Accounts : rows[d] \subseteq rows'[d]
          /\ \A d \in Accounts : Chained(rows[d]) => Chained(rows'[d])
        BY <1>6, HonestPay
    <2>3. \A d \in Accounts : HonestAccount(d)'
        BY <1>3, <2>1, <2>2 DEF HonestAccount
    <2>4. \A v \in Verifiers : \A b \in batch[v] : b.account \in Accounts
        BY DEF StateOK, BatchOK
    <2>5. HonestBatches'
        BY <1>3, <2>1, <2>2, <2>4 DEF HonestBatches
    <2> QED
        BY <1>3, <2>1, <2>3, <2>5
<1>7. ASSUME NEW v \in Verifiers, TakeBatch(v)
      PROVE  /\ \A a \in Accounts : HonestAccount(a)'
             /\ HonestBatches'
             /\ \A m \in Admins : resolution'[m].step = "idle"
    <2>1. /\ rows' = rows /\ checkpoints' = checkpoints /\ incidents' = incidents
          /\ resolution' = resolution
        BY <1>7 DEF TakeBatch, ledgerVars, recordVars
    <2>2. PICK targets \in Targets :
             batch' = [batch EXCEPT ![v] =
                         {[account |-> a,
                           found |-> Verify(rows[a], Latest(a), RowsPerAccount + 1)] :
                             a \in targets}]
        BY <1>7 DEF TakeBatch
    <2>3. \A a \in targets : a \in Accounts /\ Due(a)
        BY DEF Targets
    <2>4. \A a \in targets :
             LET f == Verify(rows[a], Latest(a), RowsPerAccount + 1)
             IN  /\ f.break = NoBreak
                 /\ ShouldCheckpoint(f) => \E r \in rows[a] : f.lastGood = Point(r)
        BY <1>3, <2>3, HonestAnswer, AnswerFacts DEF StateOK
    <2>5. \A w \in Verifiers : w # v => batch'[w] = batch[w]
        BY <2>2 DEF StateOK, BatchOK
    <2>6. \A b \in batch'[v] :
             /\ b.account \in targets
             /\ b.found = Verify(rows[b.account], Latest(b.account), RowsPerAccount + 1)
        BY <2>2 DEF StateOK, BatchOK
    <2>7. \A b \in batch'[v] :
             /\ b.found.break = NoBreak
             /\ ShouldCheckpoint(b.found) =>
                   \E r \in rows[b.account] : b.found.lastGood = Point(r)
        BY <2>4, <2>6
    <2>8. HonestBatches'
        BY <1>3, <2>1, <2>5, <2>7 DEF HonestBatches
    <2> QED
        BY <1>3, <2>1, <2>8 DEF HonestAccount
<1>8. ASSUME NEW v \in Verifiers, Unlock(v), rows' = rows
      PROVE  HonestBatches'
    <2>1. \A w \in Verifiers : batch'[w] \subseteq batch[w]
        BY <1>8 DEF Unlock, StateOK, BatchOK
    <2> QED
        BY <1>3, <1>8, <2>1 DEF HonestBatches
<1>9. ASSUME NEW v \in Verifiers, CommitBatch(v)
      PROVE  /\ \A a \in Accounts : HonestAccount(a)'
             /\ HonestBatches'
             /\ \A m \in Admins : resolution'[m].step = "idle"
    <2>1. rows' = rows /\ resolution' = resolution /\ Unlock(v)
        BY <1>9 DEF CommitBatch, ledgerVars
    <2>2. ASSUME NEW a \in Accounts
          PROVE  /\ \A c \in checkpoints'[a] : \E r \in rows[a] : c = Point(r)
                 /\ incidents'[a] = <<>>
        <3>1. /\ checkpoints'[a] = RecordedCheckpoints(v, a)
              /\ incidents'[a] = RecordedIncidents(v, a)
            BY <1>9 DEF CommitBatch, Record
        <3>2. /\ \A c \in checkpoints[a] : \E r \in rows[a] : c = Point(r)
              /\ incidents[a] = <<>>
            BY <1>3 DEF HonestAccount
        <3>3. ASSUME NEW b \in batch[v], b.account = a,
                     RecordedCheckpoints(v, a) =
                        IF ShouldCheckpoint(b.found)
                        THEN WithCheckpoint(checkpoints[a], b.found.lastGood)
                        ELSE checkpoints[a],
                     RecordedIncidents(v, a) =
                        IF b.found.break = NoBreak THEN incidents[a]
                        ELSE WithIncident(incidents[a], b.found.break)
              PROVE  /\ \A c \in checkpoints'[a] : \E r \in rows[a] : c = Point(r)
                     /\ incidents'[a] = <<>>
            <4>1. /\ b.found.break = NoBreak
                  /\ ShouldCheckpoint(b.found) =>
                        \E r \in rows[a] : b.found.lastGood = Point(r)
                BY <1>3, <3>3 DEF HonestBatches
            <4>2. WithCheckpoint(checkpoints[a], b.found.lastGood)
                     \subseteq checkpoints[a] \cup {b.found.lastGood}
                BY DEF WithCheckpoint
            <4> QED
                BY <3>1, <3>2, <3>3, <4>1, <4>2
        <3> QED
            BY <3>1, <3>2, <3>3, RecordedFacts DEF StateOK
    <2>3. \A a \in Accounts : HonestAccount(a)'
        BY <1>3, <2>1, <2>2 DEF HonestAccount
    <2> QED
        BY <1>3, <1>8, <2>1, <2>3
<1>10. ASSUME NEW v \in Verifiers, AbortBatch(v)
       PROVE  /\ \A a \in Accounts : HonestAccount(a)'
              /\ HonestBatches'
              /\ \A m \in Admins : resolution'[m].step = "idle"
    <2>1. /\ rows' = rows /\ checkpoints' = checkpoints /\ incidents' = incidents
          /\ resolution' = resolution /\ Unlock(v)
        BY <1>10 DEF AbortBatch, ledgerVars, recordVars
    <2> QED
        BY <1>3, <1>8, <2>1 DEF HonestAccount
<1>11. CASE World
    <2>1. \A a \in Accounts :
             Age(a) => UNCHANGED <<rows, checkpoints, incidents, batch, resolution>>
        BY DEF Age, ledgerVars, recordVars, verifierVars
    <2> QED
        BY <1>1, <1>5, <1>6, <1>11, <2>1 DEF World
<1>12. CASE Scheduler
    BY <1>7, <1>9, <1>10, <1>12 DEF Scheduler
<1>13. ~Endpoint
    BY <1>3, <1>4 DEF Endpoint, FindIncident, Review, Refuse,
           Resolve, EndResolution, LoseResolution
<1>14. CASE vars' = vars
    BY <1>5, <1>14 DEF vars
<1> QED
    BY <1>11, <1>12, <1>13, <1>14 DEF Next

\* HonestLedgerPasses: a ledger that nobody changes behind the program's back
\* is never reported, whatever rows arrive between the query and the commit,
\* and every checkpoint repeats one of its rows.
THEOREM HonestLedgersPass == Spec => []HonestLedgerPasses
<1>1. Init => HonestOK
    <2> SUFFICES ASSUME Init
                 PROVE  HonestOK
        OBVIOUS
    <2>1. ASSUME NEW a \in Accounts
          PROVE  HonestAccount(a)
        <3>1. rows[a] = {[no |-> 1, amount |-> 0, balance |-> 0]}
              /\ checkpoints[a] = {} /\ incidents[a] = <<>>
            BY DEF Init
        <3> QED
            BY <3>1 DEF HonestAccount, Chained
    <2> QED
        BY <2>1 DEF Init, HonestOK
<1>2. HonestOK => HonestLedgerPasses
    BY DEF HonestOK, HonestAccount, HonestLedgerPasses, Point
<1> QED
    BY StateInvariant, HonestStep, <1>1, <1>2, PTL DEF Spec

-----------------------------------------------------------------------------
(* Separate reviews: checkpoints that move.                                *)

\* The checkpoints of an account change in two ways only: the run whose batch
\* it is in adds the last good row, and a resolution adds the accepted one.
LEMMA CheckpointsChange ==
    ASSUME CheckpointsOK, BatchOK, ResolutionOK, [Next]_vars, NEW a \in Accounts
    PROVE  \/ checkpoints'[a] = checkpoints[a]
           \/ \E v \in Verifiers : \E b \in batch[v] :
                 /\ CommitBatch(v)
                 /\ b.account = a /\ ShouldCheckpoint(b.found)
                 /\ checkpoints'[a] = WithCheckpoint(checkpoints[a], b.found.lastGood)
                 /\ incidents'[a] = IF b.found.break = NoBreak THEN incidents[a]
                                    ELSE WithIncident(incidents[a], b.found.break)
           \/ \E m \in Admins :
                 /\ EndResolution(m) /\ OneSession
                 /\ resolution[m].account = a
<1>1. ASSUME NEW v \in Verifiers, CommitBatch(v)
      PROVE  \/ checkpoints'[a] = checkpoints[a]
             \/ \E b \in batch[v] :
                   /\ b.account = a /\ ShouldCheckpoint(b.found)
                   /\ checkpoints'[a] = WithCheckpoint(checkpoints[a], b.found.lastGood)
                   /\ incidents'[a] = IF b.found.break = NoBreak THEN incidents[a]
                                      ELSE WithIncident(incidents[a], b.found.break)
    <2>1. /\ checkpoints'[a] = RecordedCheckpoints(v, a)
          /\ incidents'[a] = RecordedIncidents(v, a)
        BY <1>1 DEF CommitBatch, Record
    <2> QED
        BY <2>1, RecordedFacts
<1>2. ASSUME NEW m \in Admins, EndResolution(m), resolution[m].account # a
      PROVE  checkpoints'[a] = checkpoints[a]
    BY <1>2 DEF EndResolution, Record, recordVars, CheckpointsOK
<1>3. \A m \in Admins : EndResolution(m) /\ ~OneSession => checkpoints' = checkpoints
    BY DEF EndResolution, recordVars
<1>4. CASE checkpoints' = checkpoints
    BY <1>4
<1>5. CASE World
    BY <1>4, <1>5 DEF World, Pay, Tamper, Age, recordVars
<1>6. CASE Scheduler
    <2>1. \A v \in Verifiers : TakeBatch(v) \/ AbortBatch(v) => checkpoints' = checkpoints
        BY DEF TakeBatch, AbortBatch, recordVars
    <2> QED
        BY <1>1, <1>4, <1>6, <2>1 DEF Scheduler
<1>7. CASE Endpoint
    <2>1. \A m \in Admins :
             /\ \A d \in Accounts : FindIncident(m, d) => checkpoints' = checkpoints
             /\ \A n \in 0 .. MaxRows :
                   Review(m, n) \/ Refuse(m, n) => checkpoints' = checkpoints
             /\ Resolve(m) \/ LoseResolution(m) => checkpoints' = checkpoints
        BY DEF FindIncident, Review, Refuse, Resolve, LoseResolution, recordVars
    <2> QED
        BY <1>2, <1>3, <1>4, <1>7, <2>1 DEF Endpoint
<1>8. CASE vars' = vars
    BY <1>4, <1>8 DEF vars
<1> QED
    BY <1>5, <1>6, <1>7, <1>8 DEF Next

\* Only a resolution closes an incident.
LEMMA OpenStays ==
    ASSUME IncidentsOK, BatchOK, ResolutionOK, [Next]_vars, NEW a \in Accounts,
           \A m \in Admins : ~EndResolution(m)
    PROVE  OpenIncidents(a) \subseteq OpenIncidents(a)'
<1>1. CASE incidents'[a] = incidents[a]
    BY <1>1 DEF OpenIncidents
<1>2. CASE \E v \in Verifiers : \E b \in batch[v] : b.account = a
    <2>1. OpenIncidents(a) = {}
        BY <1>2 DEF BatchOK
    <2> QED
        BY <2>1
<1> QED
    BY <1>1, <1>2, IncidentsChange

\* While its administrator reviews it, nobody else closes an incident.
LEMMA ReviewStep ==
    ASSUME SeparateReviews, IncidentsOK, BatchOK, ResolutionOK, ReviewOK, [Next]_vars
    PROVE  ReviewOK'
<1>1. \A m \in Admins : resolution[m].step \notin {"idle", "lost"} => resolution[m].account \in Accounts
    BY DEF ResolutionOK
<1>2. CASE resolution' = resolution
    <2>1. ASSUME NEW m \in Admins, EndResolution(m)
          PROVE  FALSE
        <3>1. /\ resolution[m].step = "answered"
              /\ resolution' = [resolution EXCEPT ![m] = [step |-> "idle"]]
            BY <2>1 DEF EndResolution
        <3> QED
            BY <1>2, <3>1 DEF ResolutionOK
    <2>2. \A a \in Accounts : OpenIncidents(a) \subseteq OpenIncidents(a)'
        BY <2>1, OpenStays
    <2> QED
        BY <1>1, <1>2, <2>2 DEF ReviewOK
<1>3. ASSUME NEW n \in Admins, NEW r, resolution' = [resolution EXCEPT ![n] = r],
             incidents' = incidents,
             r.step \notin {"idle", "lost"} => r.incident \in OpenIncidents(r.account)
      PROVE  ReviewOK'
    <2>1. \A a : OpenIncidents(a)' = OpenIncidents(a)
        BY <1>3 DEF OpenIncidents
    <2>2. resolution'[n] = r /\ \A m \in Admins : m # n => resolution'[m] = resolution[m]
        BY <1>3 DEF ResolutionOK
    <2>3. ASSUME NEW m \in Admins, resolution'[m].step \notin {"idle", "lost"}
          PROVE  resolution'[m].incident \in OpenIncidents(resolution'[m].account)
        BY <1>3, <2>2, <2>3 DEF ReviewOK
    <2> QED
        BY <2>1, <2>3 DEF ReviewOK
<1>4. ASSUME NEW m \in Admins, NEW a \in Accounts, FindIncident(m, a)
      PROVE  ReviewOK'
    <2>1. PICK i \in OpenIncidents(a) :
             resolution' = [resolution EXCEPT ![m] =
                               [step |-> "found", account |-> a, incident |-> i]]
        BY <1>4 DEF FindIncident
    <2>2. PICK r : r = [step |-> "found", account |-> a, incident |-> i]
        OBVIOUS
    <2>3. r.account = a /\ r.incident = i
        BY <2>2
    <2>4. incidents' = incidents
        BY <1>4 DEF FindIncident, recordVars
    <2> QED
        BY <1>3, <2>1, <2>2, <2>3, <2>4
<1>5. ASSUME NEW m \in Admins, NEW n \in 0 .. MaxRows, Review(m, n)
      PROVE  ReviewOK'
    <2>1. PICK a, i : a = resolution[m].account /\ i = resolution[m].incident
        OBVIOUS
    <2>2. PICK c :
             resolution' = [resolution EXCEPT ![m] =
                               [step |-> "reviewed", account |-> a, incident |-> i,
                                checkpoint |-> c]]
        BY <1>5, <2>1 DEF Review
    <2>3. PICK r : r = [step |-> "reviewed", account |-> a, incident |-> i, checkpoint |-> c]
        OBVIOUS
    <2>4. r.account = a /\ r.incident = i
        BY <2>3
    <2>5. i \in OpenIncidents(a) /\ incidents' = incidents
        BY <1>5, <2>1 DEF Review, ReviewOK, recordVars
    <2> QED
        BY <1>3, <2>2, <2>3, <2>4, <2>5
<1>6. ASSUME NEW m \in Admins, NEW step \in {"idle", "lost"},
             resolution' = [resolution EXCEPT ![m] = [step |-> step]],
             incidents' = incidents
      PROVE  ReviewOK'
    <2>1. PICK r : r = [step |-> step]
        OBVIOUS
    <2>2. r.step \in {"idle", "lost"}
        BY <2>1
    <2> QED
        BY <1>3, <1>6, <2>1, <2>2
<1>7. ASSUME NEW m \in Admins, EndResolution(m)
      PROVE  ReviewOK'
    <2>1. resolution' = [resolution EXCEPT ![m] = [step |-> "idle"]]
        BY <1>7 DEF EndResolution
    <2>2. ASSUME NEW n \in Admins, resolution'[n].step \notin {"idle", "lost"}
          PROVE  /\ resolution'[n] = resolution[n]
                 /\ resolution[n].account # resolution[m].account
        <3>1. n # m
            BY <2>1, <2>2 DEF ResolutionOK
        <3>2. resolution'[n] = resolution[n]
            BY <2>1, <3>1 DEF ResolutionOK
        <3>3. /\ resolution[n].incident \in OpenIncidents(resolution[n].account)
              /\ resolution[m].incident \in OpenIncidents(resolution[m].account)
              /\ resolution[m].account \in Accounts
            BY <1>1, <1>7, <2>2, <3>2 DEF ReviewOK, EndResolution
        <3>4. \/ resolution[n].account # resolution[m].account
              \/ resolution[n].incident # resolution[m].incident
            BY <1>7, <2>2, <3>1, <3>2 DEF SeparateReviews, EndResolution
        <3> QED
            BY <3>2, <3>3, <3>4 DEF IncidentsOK
    <2>3. ASSUME NEW a \in Accounts, a # resolution[m].account
          PROVE  OpenIncidents(a)' = OpenIncidents(a)
        <3>1. incidents'[a] = incidents[a]
            BY <1>7, <2>3 DEF EndResolution, recordVars, IncidentsOK
        <3> QED
            BY <3>1 DEF OpenIncidents
    <2> QED
        BY <1>1, <2>2, <2>3 DEF ReviewOK
<1>8. ASSUME NEW m \in Admins, Resolve(m)
      PROVE  ReviewOK'
    <2>1. /\ resolution[m].step = "reviewed"
          /\ resolution' = [resolution EXCEPT ![m].step = "answered"]
          /\ incidents' = incidents
        BY <1>8 DEF Resolve, recordVars
    <2>2. PICK r : r = [resolution[m] EXCEPT !.step = "answered"]
        OBVIOUS
    <2>3. resolution' = [resolution EXCEPT ![m] = r]
        BY <2>1, <2>2
    <2>4. r.account = resolution[m].account /\ r.incident = resolution[m].incident
        BY <2>2
    <2> QED
        BY <1>3, <2>1, <2>3, <2>4 DEF ReviewOK
<1>9. CASE World
    BY <1>2, <1>9 DEF World, Pay, Tamper, Age
<1>10. CASE Scheduler
    BY <1>2, <1>10 DEF Scheduler, TakeBatch, CommitBatch, AbortBatch
<1>11. CASE Endpoint
    <2>1. \A m \in Admins :
             /\ \A n \in 0 .. MaxRows :
                   Refuse(m, n) => /\ resolution' = [resolution EXCEPT ![m] = [step |-> "idle"]]
                                   /\ incidents' = incidents
             /\ LoseResolution(m) => /\ resolution' = [resolution EXCEPT ![m] = [step |-> "lost"]]
                                     /\ incidents' = incidents
        BY DEF Refuse, LoseResolution, recordVars
    <2> QED
        BY <1>4, <1>5, <1>6, <1>7, <1>8, <1>11, <2>1 DEF Endpoint
<1>12. CASE vars' = vars
    BY <1>2, <1>12 DEF vars
<1> QED
    BY <1>9, <1>10, <1>11, <1>12 DEF Next

\* Nobody moves the checkpoint of an account that is in a batch: the verifier
\* has the lock and an administrator has only accounts in quarantine.
LEMMA AnchorsStep ==
    ASSUME LedgersOK, CheckpointsOK, BatchOK, ResolutionOK, ReviewOK, AnchorsOK,
           [Next]_vars
    PROVE  AnchorsOK'
<1>1. CASE batch' = batch
    <2>1. ASSUME NEW v \in Verifiers, NEW b \in batch[v]
          PROVE  b.found.anchor = Latest(b.account)'.no
        <3>1. PICK a \in Accounts : a = b.account /\ OpenIncidents(a) = {}
            BY DEF BatchOK
        <3>2. ASSUME NEW w \in Verifiers, CommitBatch(w)
              PROVE  FALSE
            <4>1. batch[w] # {} /\ batch' = [batch EXCEPT ![w] = {}]
                BY <3>2 DEF CommitBatch, Unlock
            <4> QED
                BY <1>1, <4>1 DEF BatchOK
        <3>3. ASSUME NEW m \in Admins, EndResolution(m), resolution[m].account = a
              PROVE  FALSE
            BY <3>1, <3>3 DEF EndResolution, ReviewOK
        <3>4. checkpoints'[a] = checkpoints[a]
            BY <3>2, <3>3, CheckpointsChange
        <3>5. Latest(a)' = Latest(a)
            BY <3>4 DEF Latest
        <3> QED
            BY <3>1, <3>5 DEF AnchorsOK
    <2> QED
        BY <1>1, <2>1 DEF AnchorsOK
<1>2. ASSUME NEW v \in Verifiers, TakeBatch(v)
      PROVE  AnchorsOK'
    <2>1. PICK targets \in Targets :
             batch' = [batch EXCEPT ![v] =
                         {[account |-> a,
                           found |-> Verify(rows[a], Latest(a), RowsPerAccount + 1)] :
                             a \in targets}]
        BY <1>2 DEF TakeBatch
    <2>2. lock = Nobody /\ checkpoints' = checkpoints
        BY <1>2 DEF TakeBatch, LockFree, recordVars
    <2>3. \A a \in targets : a \in Accounts /\ Due(a)
        BY DEF Targets
    <2>4. \A w \in Verifiers : batch[w] = {}
        BY <2>2, VerificationAssumption DEF BatchOK
    <2>5. \A a \in targets :
             Verify(rows[a], Latest(a), RowsPerAccount + 1).anchor = Latest(a).no
        BY <2>3, AnswerFacts
    <2>6. \A w \in Verifiers : w # v => batch'[w] = {}
        BY <2>1, <2>4 DEF BatchOK
    <2>7. \A b \in batch'[v] :
             /\ b.account \in targets
             /\ b.found = Verify(rows[b.account], Latest(b.account), RowsPerAccount + 1)
        BY <2>1 DEF BatchOK
    <2>8. \A b \in batch'[v] : b.found.anchor = Latest(b.account).no
        BY <2>5, <2>7
    <2>9. \A a : Latest(a)' = Latest(a)
        BY <2>2 DEF Latest
    <2> QED
        BY <2>6, <2>8, <2>9 DEF AnchorsOK
<1>3. ASSUME NEW v \in Verifiers, batch[v] # {}, Unlock(v)
      PROVE  AnchorsOK'
    <2>1. \A w \in Verifiers : batch'[w] = {}
        BY <1>3 DEF Unlock, BatchOK
    <2> QED
        BY <2>1 DEF AnchorsOK
<1>4. CASE World
    BY <1>1, <1>4 DEF World, Pay, Tamper, Age, verifierVars
<1>5. CASE Scheduler
    BY <1>2, <1>3, <1>5 DEF Scheduler, CommitBatch, AbortBatch
<1>6. CASE Endpoint
    BY <1>1, <1>6 DEF Endpoint, FindIncident, Review, Refuse,
           Resolve, EndResolution, LoseResolution, verifierVars
<1>7. CASE vars' = vars
    BY <1>1, <1>7 DEF vars
<1> QED
    BY <1>4, <1>5, <1>6, <1>7 DEF Next

\* Between the review and the commit nobody else moves the checkpoint of the
\* account: the verifier leaves it alone while the incident is open.
LEMMA ForcedStep ==
    ASSUME SeparateReviews, CheckpointsOK, IncidentsOK, BatchOK, ResolutionOK, ReviewOK,
           ForcedOK, [Next]_vars
    PROVE  ForcedOK'
<1>1. ASSUME NEW m \in Admins, resolution[m].step \notin {"idle", "lost"},
             ~EndResolution(m)
      PROVE  checkpoints'[resolution[m].account] = checkpoints[resolution[m].account]
    <2>1. PICK a : a = resolution[m].account
        OBVIOUS
    <2>2. a \in Accounts /\ resolution[m].incident \in OpenIncidents(a)
        BY <1>1, <2>1 DEF ResolutionOK, ReviewOK
    <2>3. ~ \E v \in Verifiers : \E b \in batch[v] : b.account = a
        BY <2>2 DEF BatchOK
    <2>4. ASSUME NEW n \in Admins, EndResolution(n), resolution[n].account = a
          PROVE  FALSE
        <3>1. n # m /\ resolution[n].step = "answered"
            BY <1>1, <2>4 DEF EndResolution
        <3>2. resolution[n].incident \in OpenIncidents(a)
            BY <2>4, <3>1 DEF ReviewOK
        <3>3. resolution[n].incident = resolution[m].incident
            BY <2>2, <3>2 DEF IncidentsOK
        <3> QED
            BY <1>1, <2>1, <2>4, <3>1, <3>3 DEF SeparateReviews
    <2> QED
        BY <2>1, <2>2, <2>3, <2>4, CheckpointsChange
<1>2. ASSUME NEW m \in Admins, resolution[m].step \in {"reviewed", "answered"},
             ~EndResolution(m), NEW r,
             r.checkpoint = resolution[m].checkpoint, r.account = resolution[m].account
      PROVE  r.checkpoint.no > Latest(r.account)'.no
    <2>1. Latest(r.account)' = Latest(r.account)
        BY <1>1, <1>2 DEF Latest
    <2> QED
        BY <1>2, <2>1 DEF ForcedOK
<1>3. ASSUME NEW m \in Admins, resolution[m].step \in {"reviewed", "answered"},
             resolution'[m] = resolution[m], NEW a, a = resolution[m].account
      PROVE  resolution[m].checkpoint.no > Latest(a)'.no
    <2>1. ~EndResolution(m)
        <3>1. EndResolution(m) => resolution'[m].step = "idle"
            <4>1. EndResolution(m) => resolution' = [resolution EXCEPT ![m] = [step |-> "idle"]]
                BY DEF EndResolution
            <4> QED
                BY <4>1 DEF ResolutionOK
        <3> QED
            BY <1>3, <3>1
    <2> QED
        BY <1>2, <1>3, <2>1
<1>4. ASSUME NEW n \in Admins, NEW r, resolution' = [resolution EXCEPT ![n] = r],
             r.step \in {"reviewed", "answered"} =>
                r.checkpoint.no > Latest(r.account)'.no
      PROVE  ForcedOK'
    <2>1. resolution'[n] = r /\ \A m \in Admins : m # n => resolution'[m] = resolution[m]
        BY <1>4 DEF ResolutionOK
    <2>2. ASSUME NEW m \in Admins, resolution'[m].step \in {"reviewed", "answered"},
                 NEW a, a = resolution'[m].account
          PROVE  resolution'[m].checkpoint.no > Latest(a)'.no
        <3>1. CASE m = n
            BY <1>4, <2>1, <2>2, <3>1
        <3>2. CASE m # n
            BY <1>3, <2>1, <2>2, <3>2
        <3> QED
            BY <3>1, <3>2
    <2> QED
        BY <2>2 DEF ForcedOK, Latest
<1>5. CASE resolution' = resolution
    <2>1. ASSUME NEW m \in Admins, resolution[m].step \in {"reviewed", "answered"},
                 NEW a, a = resolution[m].account
          PROVE  resolution[m].checkpoint.no > Latest(a)'.no
        BY <1>3, <1>5, <2>1
    <2> QED
        BY <1>5, <2>1 DEF ForcedOK, Latest
<1>6. ASSUME NEW m \in Admins, NEW step \in {"idle", "lost"},
             resolution' = [resolution EXCEPT ![m] = [step |-> step]]
      PROVE  ForcedOK'
    <2>1. PICK r : r = [step |-> step]
        OBVIOUS
    <2>2. r.step \in {"idle", "lost"}
        BY <2>1
    <2> QED
        BY <1>4, <1>6, <2>1, <2>2
<1>7. ASSUME NEW m \in Admins, NEW a \in Accounts, FindIncident(m, a)
      PROVE  ForcedOK'
    <2>1. PICK i, r : /\ r = [step |-> "found", account |-> a, incident |-> i]
                      /\ resolution' = [resolution EXCEPT ![m] = r]
        BY <1>7 DEF FindIncident
    <2>2. r.step = "found"
        BY <2>1
    <2> QED
        BY <1>4, <2>1, <2>2
<1>8. ASSUME NEW m \in Admins, NEW n \in 0 .. MaxRows, Review(m, n)
      PROVE  ForcedOK'
    <2>1. PICK a, i, through :
             /\ a = resolution[m].account /\ i = resolution[m].incident
             /\ through = Through(incidents[a][i], n)
        OBVIOUS
    <2>2. PICK c, r :
             /\ \E s \in rows[a] : c = [no |-> through, balance |-> s.balance]
             /\ r = [step |-> "reviewed", account |-> a, incident |-> i, checkpoint |-> c]
             /\ resolution' = [resolution EXCEPT ![m] = r]
        BY <1>8, <2>1 DEF Review
    <2>3. c.no = through /\ r.account = a /\ r.checkpoint = c
        BY <2>2
    <2>4. through > Latest(a).no
        BY <1>8, <2>1 DEF Review, Acceptable
    <2>5. Latest(a)' = Latest(a)
        BY <1>8 DEF Review, recordVars, Latest
    <2> QED
        BY <1>4, <2>2, <2>3, <2>4, <2>5
<1>9. ASSUME NEW m \in Admins, Resolve(m)
      PROVE  ForcedOK'
    <2>1. /\ resolution[m].step = "reviewed" /\ ~EndResolution(m)
          /\ resolution' = [resolution EXCEPT ![m].step = "answered"]
        BY <1>9 DEF Resolve, EndResolution
    <2>2. PICK r : r = [resolution[m] EXCEPT !.step = "answered"]
        OBVIOUS
    <2>3. resolution' = [resolution EXCEPT ![m] = r]
        BY <2>1, <2>2
    <2>4. r.account = resolution[m].account /\ r.checkpoint = resolution[m].checkpoint
        BY <2>2
    <2>5. r.checkpoint.no > Latest(r.account)'.no
        BY <1>2, <2>1, <2>4
    <2> QED
        BY <1>4, <2>3, <2>5
<1>10. CASE World
    BY <1>5, <1>10 DEF World, Pay, Tamper, Age
<1>11. CASE Scheduler
    BY <1>5, <1>11 DEF Scheduler, TakeBatch, CommitBatch, AbortBatch
<1>12. CASE Endpoint
    <2>1. \A m \in Admins :
             /\ \A n \in 0 .. MaxRows :
                   Refuse(m, n) => resolution' = [resolution EXCEPT ![m] = [step |-> "idle"]]
             /\ EndResolution(m) => resolution' = [resolution EXCEPT ![m] = [step |-> "idle"]]
             /\ LoseResolution(m) => resolution' = [resolution EXCEPT ![m] = [step |-> "lost"]]
        BY DEF Refuse, EndResolution, LoseResolution
    <2> QED
        BY <1>6, <1>7, <1>8, <1>9, <1>12, <2>1 DEF Endpoint
<1>13. CASE vars' = vars
    BY <1>5, <1>13 DEF vars
<1> QED
    BY <1>10, <1>11, <1>12, <1>13 DEF Next

\* One administrator is never in another one's way.
LEMMA OneAdministratorIsSeparate ==
    ASSUME \A m, n \in Admins : m = n
    PROVE  SeparateReviews
BY DEF SeparateReviews

\* StateOK, ReviewOK and AnchorsOK together are inductive as long as reviews
\* are separate.
LEMMA ReviewsInvariant ==
    Spec /\ []SeparateReviews => [](StateOK /\ ReviewOK /\ AnchorsOK)
<1>1. Init => ReviewOK /\ AnchorsOK
    BY DEF Init, ReviewOK, AnchorsOK
<1>2. SeparateReviews /\ StateOK /\ ReviewOK /\ AnchorsOK /\ [Next]_vars
         => ReviewOK' /\ AnchorsOK'
    BY ReviewStep, AnchorsStep DEF StateOK
<1> QED
    BY StateInvariant, <1>1, <1>2, PTL DEF Spec

\* IncidentsAreAhead: an incident that is recorded is at or past every
\* checkpoint of its account, so a break that an administrator accepted is not
\* reported again.
THEOREM NewIncidentsAreAhead ==
    Spec /\ []SeparateReviews => IncidentsAreAhead
<1> DEFINE Ahead(a) ==
        Len(incidents'[a]) > Len(incidents[a])
            => \A c \in checkpoints[a] : c.no <= incidents'[a][Len(incidents'[a])].no
<1>1. ASSUME StateOK, AnchorsOK, [Next]_vars, NEW a \in Accounts
      PROVE  Ahead(a)
    <2>1. incidents[a] \in Seq(IncidentType)
        BY <1>1 DEF StateOK, IncidentsOK
    <2>2. Len(incidents[a]) \in Nat
        BY <2>1, LogFacts
    <2>3. CASE incidents'[a] = incidents[a]
        BY <2>2, <2>3
    <2>4. ASSUME NEW v \in Verifiers, NEW e \in IncidentType, NEW b \in batch[v],
                 b.account = a, b.found.break # NoBreak,
                 e = [no |-> b.found.break.no, kind |-> b.found.break.kind, open |-> TRUE],
                 incidents'[a] = Append(incidents[a], e)
          PROVE  Ahead(a)
        <3>1. AnswerOK(b.found) /\ b.found.anchor = Latest(a).no
            BY <1>1, <2>4 DEF StateOK, BatchOK, AnchorsOK
        <3>2. Latest(a).no <= b.found.break.no /\ b.found.break.no \in 1 .. MaxRows
            BY <2>4, <3>1 DEF AnswerOK
        <3>3. \A c \in checkpoints[a] : c.no <= Latest(a).no /\ c.no \in Int
            <4>1. \A c \in checkpoints[a] : c.no \in Int
                BY <1>1 DEF StateOK, CheckpointsOK, CheckpointType
            <4> QED
                BY <1>1, <4>1, LatestFacts DEF StateOK
        <3>4. Latest(a).no \in Nat
            BY <1>1, LatestFacts DEF StateOK, IsPoint
        <3>5. \A c \in checkpoints[a] : c.no <= e.no
            <4>1. e.no = b.found.break.no
                BY <2>4
            <4> QED
                BY <3>2, <3>3, <3>4, <4>1
        <3>6. incidents'[a][Len(incidents'[a])] = e
            BY <2>1, <2>4, LogFacts
        <3> QED
            BY <3>5, <3>6
    <2>5. CASE \E i \in DOMAIN incidents[a] : incidents'[a] = Closed(incidents[a], i)
        <3>1. Len(incidents'[a]) = Len(incidents[a])
            BY <2>1, <2>5, ClosedFacts
        <3> QED
            BY <2>2, <3>1
    <2>6. CASE \E v \in Verifiers, e \in IncidentType : \E b \in batch[v] :
                  /\ b.account = a /\ b.found.break # NoBreak
                  /\ e = [no |-> b.found.break.no, kind |-> b.found.break.kind,
                          open |-> TRUE]
                  /\ incidents'[a] = Append(incidents[a], e)
        BY <2>4, <2>6
    <2> HIDE DEF Ahead
    <2> QED
        BY <1>1, <2>3, <2>5, <2>6, IncidentsChange DEF StateOK
<1>2. StateOK /\ AnchorsOK /\ [Next]_vars => [\A a \in Accounts : Ahead(a)]_vars
    BY <1>1
<1> QED
    BY ReviewsInvariant, <1>2, PTL DEF Spec, IncidentsAreAhead

\* QuarantineHolds: while an account has an open incident, its checkpoint
\* moves in no other step than the one that closes the incident.
THEOREM QuarantineAlwaysHolds ==
    Spec /\ []SeparateReviews => QuarantineHolds
<1>1. ASSUME StateOK, ReviewOK, [Next]_vars, NEW a \in Accounts,
             OpenIncidents(a) # {}, checkpoints'[a] # checkpoints[a]
      PROVE  OpenIncidents(a)' = {}
    <2>1. ~ \E v \in Verifiers : \E b \in batch[v] : b.account = a
        BY <1>1 DEF StateOK, BatchOK
    <2>2. PICK m \in Admins : EndResolution(m) /\ OneSession /\ resolution[m].account = a
        BY <1>1, <2>1, CheckpointsChange DEF StateOK
    <2>3. PICK i : i = resolution[m].incident
        OBVIOUS
    <2>4. i \in OpenIncidents(a)
        BY <1>1, <2>2, <2>3 DEF EndResolution, ReviewOK
    <2>5. OpenIncidents(a) = {i}
        BY <1>1, <2>4 DEF StateOK, IncidentsOK
    <2>6. incidents'[a] = Closed(incidents[a], i)
        BY <1>1, <2>2, <2>3 DEF EndResolution, Closed, StateOK, IncidentsOK
    <2>7. incidents[a] \in Seq(IncidentType) /\ i \in DOMAIN incidents[a]
        BY <1>1, <2>4 DEF StateOK, IncidentsOK, OpenIncidents
    <2>8. PICK new : new = incidents'[a]
        OBVIOUS
    <2>9. /\ DOMAIN new = DOMAIN incidents[a]
          /\ ~new[i].open
          /\ \A j \in DOMAIN incidents[a] : j # i => new[j] = incidents[a][j]
        BY <2>6, <2>7, <2>8, ClosedFacts
    <2> QED
        BY <2>5, <2>8, <2>9 DEF OpenIncidents
<1>2. StateOK /\ ReviewOK /\ [Next]_vars
         => [\A a \in Accounts :
                OpenIncidents(a) # {} /\ checkpoints'[a] # checkpoints[a]
                    => OpenIncidents(a)' = {}]_vars
    BY <1>1
<1> QED
    BY ReviewsInvariant, <1>2, PTL DEF Spec, QuarantineHolds

\* BreakIsNotPassed: the run that moves a checkpoint and finds a break stops
\* before the break, and opens the incident in the same commit.
THEOREM BreakIsNeverPassed ==
    Spec /\ []SeparateReviews => BreakIsNotPassed
<1>1. ASSUME StateOK, ReviewOK, [Next]_vars, NEW v \in Verifiers, NEW a \in Accounts,
             NEW f \in FoundFor(v, a), f.break # NoBreak,
             checkpoints'[a] # checkpoints[a]
      PROVE  /\ \A c \in checkpoints'[a] \ checkpoints[a] : c.no < f.break.no
             /\ Len(incidents'[a]) > Len(incidents[a])
    <2>1. PICK b \in batch[v] : b.account = a /\ b.found = f
        BY DEF FoundFor
    <2>2. AnswerOK(f) /\ OpenIncidents(a) = {} /\ lock = v
        BY <1>1, <2>1 DEF StateOK, BatchOK
    <2>3. ~ \E m \in Admins : EndResolution(m) /\ resolution[m].account = a
        BY <1>1, <2>2 DEF EndResolution, ReviewOK
    <2>4. PICK w \in Verifiers : \E d \in batch[w] :
             /\ d.account = a /\ ShouldCheckpoint(d.found)
             /\ checkpoints'[a] = WithCheckpoint(checkpoints[a], d.found.lastGood)
             /\ incidents'[a] = IF d.found.break = NoBreak THEN incidents[a]
                                ELSE WithIncident(incidents[a], d.found.break)
        BY <1>1, <2>3, CheckpointsChange DEF StateOK
    <2>5. PICK d \in batch[w] :
             /\ d.account = a /\ ShouldCheckpoint(d.found)
             /\ checkpoints'[a] = WithCheckpoint(checkpoints[a], d.found.lastGood)
             /\ incidents'[a] = IF d.found.break = NoBreak THEN incidents[a]
                                ELSE WithIncident(incidents[a], d.found.break)
        BY <2>4
    <2>6. w = v
        BY <1>1, <2>2 DEF StateOK, BatchOK
    <2>7. d = b
        BY <1>1, <2>1, <2>5, <2>6 DEF StateOK, BatchOK
    <2>8. /\ ShouldCheckpoint(f)
          /\ checkpoints'[a] = WithCheckpoint(checkpoints[a], f.lastGood)
          /\ incidents'[a] = WithIncident(incidents[a], f.break)
        BY <1>1, <2>1, <2>5, <2>7
    <2>9. \A c \in checkpoints'[a] \ checkpoints[a] : c.no < f.break.no
        BY <1>1, <2>2, <2>8 DEF WithCheckpoint, AnswerOK
    <2>10. PICK e : e = [no |-> f.break.no, kind |-> f.break.kind, open |-> TRUE]
        OBVIOUS
    <2>11. incidents'[a] = Append(incidents[a], e)
        BY <2>2, <2>8, <2>10 DEF OpenIncidents, WithIncident
    <2>12. e \in IncidentType
        BY <1>1, <2>2, <2>10 DEF AnswerOK, IncidentType
    <2>13. incidents[a] \in Seq(IncidentType)
        BY <1>1 DEF StateOK, IncidentsOK
    <2>14. Len(incidents'[a]) = Len(incidents[a]) + 1 /\ Len(incidents[a]) \in Nat
        BY <2>11, <2>12, <2>13, LogFacts
    <2> QED
        BY <2>9, <2>14
<1>2. StateOK /\ ReviewOK /\ [Next]_vars
         => [\A v \in Verifiers : \A a \in Accounts :
                \A f \in FoundFor(v, a) :
                    f.break # NoBreak /\ checkpoints'[a] # checkpoints[a]
                        => /\ \A c \in checkpoints'[a] \ checkpoints[a] : c.no < f.break.no
                           /\ Len(incidents'[a]) > Len(incidents[a])]_vars
    BY <1>1
<1> QED
    BY ReviewsInvariant, <1>2, PTL DEF Spec, BreakIsNotPassed

\* AcceptanceMovesAnchor: the commit that lifts the quarantine of an account
\* leaves it with a later checkpoint than it had.
THEOREM AcceptanceAlwaysMovesAnchor ==
    Spec /\ []SeparateReviews => AcceptanceMovesAnchor
<1>1. ASSUME StateOK, StateOK', ReviewOK, ForcedOK, [Next]_vars, NEW a \in Accounts,
             OpenIncidents(a) # {}, OpenIncidents(a)' = {}
      PROVE  Latest(a)'.no > Latest(a).no
    <2>1. PICK m \in Admins : EndResolution(m)
        BY <1>1, OpenStays DEF StateOK
    <2>2. resolution[m].account = a /\ OneSession
        <3>1. incidents'[a] # incidents[a]
            BY <1>1 DEF OpenIncidents
        <3> QED
            BY <1>1, <2>1, <3>1, VerificationAssumption
               DEF EndResolution, recordVars, StateOK, IncidentsOK
    <2>3. PICK c : c = resolution[m].checkpoint
        OBVIOUS
    <2>4. checkpoints'[a] = WithCheckpoint(checkpoints[a], c)
        BY <1>1, <2>1, <2>2, <2>3 DEF EndResolution, Record, StateOK, CheckpointsOK
    <2>5. c.no > Latest(a).no /\ c \in CheckpointType
        BY <1>1, <2>1, <2>2, <2>3 DEF EndResolution, ForcedOK, StateOK, ResolutionOK
    <2>6. /\ \A d \in checkpoints[a] : d.no <= Latest(a).no
          /\ Latest(a).no \in Nat
          /\ c.no \in Nat
        BY <1>1, <2>5, LatestFacts, VerificationAssumption
           DEF StateOK, IsPoint, CheckpointType
    <2>7. c \in checkpoints'[a]
        <3>1. \A d \in checkpoints[a] : d.no \in Nat
            BY <1>1, VerificationAssumption DEF StateOK, CheckpointsOK, CheckpointType
        <3>2. ~ \E d \in checkpoints[a] : d.no = c.no
            BY <2>5, <2>6, <3>1
        <3> QED
            BY <2>4, <3>2 DEF WithCheckpoint
    <2>8. c.no <= Latest(a)'.no /\ Latest(a)'.no \in Nat
        <3>1. /\ IsFiniteSet(checkpoints'[a])
              /\ \A d \in checkpoints'[a] : d.no \in Nat
            BY <1>1, VerificationAssumption DEF StateOK, CheckpointsOK, CheckpointType
        <3>2. /\ Highest(checkpoints'[a]) \in checkpoints'[a]
              /\ \A d \in checkpoints'[a] : d.no <= Highest(checkpoints'[a]).no
            BY <2>7, <3>1, HighestFacts
        <3>3. Latest(a)' = Highest(checkpoints'[a])
            BY <2>7 DEF Latest
        <3> QED
            BY <2>7, <3>1, <3>2, <3>3
    <2> QED
        BY <2>5, <2>6, <2>8
<1>2. Init => ForcedOK
    BY DEF Init, ForcedOK
<1>3. SeparateReviews /\ StateOK /\ ReviewOK /\ ForcedOK /\ [Next]_vars => ForcedOK'
    BY ForcedStep DEF StateOK
<1>4. StateOK /\ StateOK' /\ ReviewOK /\ ForcedOK /\ [Next]_vars
         => [\A a \in Accounts :
                OpenIncidents(a) # {} /\ OpenIncidents(a)' = {}
                    => Latest(a)'.no > Latest(a).no]_vars
    BY <1>1
<1> QED
    BY ReviewsInvariant, <1>2, <1>3, <1>4, PTL DEF Spec, AcceptanceMovesAnchor

-----------------------------------------------------------------------------
(* The ledgers that are verified are the ledgers that are written.         *)

Ledgers == INSTANCE LedgerRows

\* What every reader may rely on is what Pay does to the rows, and no less:
\* within the bound on row numbers, a payment of Verification is any step
\* that LedgerWriter, which implements LedgerRows, lets a reader see.
THEOREM PaymentsAreWritten ==
    ASSUME LedgersOK, NEW a \in Accounts, NEW amount \in Amounts
    PROVE  Pay(a, amount) <=> /\ Ledgers!Extend(a, amount)
                              /\ \A r \in rows'[a] : r.no <= MaxRows
                              /\ UNCHANGED <<recordVars, aged, verifierVars, resolution, tampers>>
<1>1. /\ IsFiniteSet(rows[a]) /\ \A r \in rows[a] : r.no \in Nat \ {0} /\ r.no <= MaxRows
      /\ \A r, s \in rows[a] : r.no = s.no => r = s
      /\ DOMAIN rows = Accounts
    <2>1. \A r \in rows[a] : r.no \in 1 .. MaxRows
        BY DEF LedgersOK, RowType
    <2> QED
        BY <2>1, VerificationAssumption DEF LedgersOK, IsLedger
<1>2. ASSUME Pay(a, amount)
      PROVE  /\ Ledgers!Extend(a, amount)
             /\ \A r \in rows'[a] : r.no <= MaxRows
             /\ UNCHANGED <<recordVars, aged, verifierVars, resolution, tampers>>
    <2>1. PICK last \in rows[a], next \in RowType :
             /\ next = [no |-> last.no + 1, amount |-> amount,
                        balance |-> last.balance + amount]
             /\ \A r \in rows[a] : r.no <= last.no
             /\ rows' = [rows EXCEPT ![a] = rows[a] \cup {next}]
        BY <1>2, PayFacts
    <2>2. next = Ledgers!Follower(last, amount)
        BY <2>1 DEF Ledgers!Follower
    <2>3. next.no \in 1 .. MaxRows /\ next.balance \in 0 .. MaxBalance
        BY DEF RowType
    <2>4. Ledgers!Extend(a, amount)
        BY <2>1, <2>2, <2>3 DEF Ledgers!Extend
    <2>5. \A r \in rows'[a] : r.no <= MaxRows
        BY <1>1, <2>1, <2>3, VerificationAssumption
    <2> QED
        BY <1>2, <2>4, <2>5 DEF Pay
<1>3. ASSUME Ledgers!Extend(a, amount), \A r \in rows'[a] : r.no <= MaxRows,
             UNCHANGED <<recordVars, aged, verifierVars, resolution, tampers>>
      PROVE  Pay(a, amount)
    <2>1. PICK last \in rows[a] :
             /\ \A r \in rows[a] : r.no <= last.no
             /\ Ledgers!Follower(last, amount).balance \in 0 .. MaxBalance
             /\ rows' = [rows EXCEPT ![a] = rows[a] \cup {Ledgers!Follower(last, amount)}]
        BY <1>3 DEF Ledgers!Extend
    <2>2. PICK next : next = [no |-> last.no + 1, amount |-> amount,
                              balance |-> last.balance + amount]
        OBVIOUS
    <2>3. next = Ledgers!Follower(last, amount) /\ next.no = last.no + 1
        BY <2>2 DEF Ledgers!Follower
    <2>4. Highest(rows[a]) = last
        <3>1. /\ Highest(rows[a]) \in rows[a]
              /\ \A r \in rows[a] : r.no <= Highest(rows[a]).no
            BY <1>1, HighestFacts
        <3> QED
            BY <1>1, <2>1, <3>1
    <2>5. next.no <= MaxRows
        BY <1>1, <1>3, <2>1, <2>3
    <2> QED
        BY <1>3, <2>1, <2>2, <2>3, <2>4, <2>5 DEF Pay
<1> QED
    BY <1>2, <1>3

=============================================================================
