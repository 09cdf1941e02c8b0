---------------------------- MODULE AccountList ----------------------------
(***************************************************************************)
(* GET /admin/accounts: a client walks through the accounts page by page.  *)
(* There is no snapshot and no offset: a page ends with a cursor, the sort *)
(* columns and the id of its last row, and the next page is whatever then  *)
(* comes after these values, while accounts are created and changed.       *)
(***************************************************************************)
EXTENDS Integers, Sequences, FiniteSets

CONSTANTS
    Ids,           \* ids of accounts: numbers, for their order
    Values,        \* Values[c]: the values of column c, as numbers
    Queries,       \* queries: [sort, count, where]
    DefaultCount,  \* rows of a page if the query gives no count
    MaxChanges,    \* bound: accounts created or changed in a walk, each once
    MaxPages,      \* bound: pages of a walk, more than any walk needs
    None           \* no account, no value, no cursor

Columns == DOMAIN Values
SortField == {"currency", "status", "created_at"}

ASSUME ListAssumption ==
    /\ Ids \subseteq Int /\ IsFiniteSet(Ids) /\ None \notin Int
    /\ \A c \in Columns : Values[c] \subseteq Int
    /\ SortField \subseteq Columns /\ "id" \notin Columns
    /\ None \notin [Columns \cup {"id"} -> Int]
    /\ None \notin [SortField \cup {"id"} -> Int \cup {None}]
    /\ DefaultCount \in Nat \ {0} /\ MaxPages \in Nat
    /\ \A q \in Queries :
          /\ q.sort \in Seq([field : SortField, dir : {"asc", "desc"}])
          /\ q.count \in (Nat \ {0}) \cup {None}

VARIABLES
    account,       \* account[i]: the row of an account, or None
    changed,       \* accounts created or changed since the walk began
    query,         \* what the client asks for on every page
    cursor,        \* the cursor it got with the latest page, or None
    listed,        \* the rows it got, each with the number of its page
    pages,         \* how many pages it got
    done           \* it got a page without a cursor

vars == <<account, changed, query, cursor, listed, pages, done>>

Row(i) ==
    {[c \in Columns \cup {"id"} |-> IF c = "id" THEN i ELSE f[c]] :
        f \in {g \in [Columns -> UNION {Values[c] : c \in Columns}] :
                  \A c \in Columns : g[c] \in Values[c]}}

-----------------------------------------------------------------------------
Limit(q) == IF q.count = None THEN DefaultCount ELSE q.count

\* The columns a page is sorted by: those of the query, then the id.
Ordering(q) == Append(q.sort, [field |-> "id", dir |-> "desc"])

Before(dir, x, y) == IF dir = "asc" THEN x < y ELSE x > y

\* ORDER BY: row x comes before row y.
Ordered(ord, x, y) ==
    \E i \in DOMAIN ord :
        /\ \A j \in 1 .. i - 1 : x[ord[j].field] = y[ord[j].field]
        /\ Before(ord[i].dir, x[ord[i].field], y[ord[i].field])

\* Faulty variants of CursorCondition: the equalities of the preceding columns
\* are left out; every column is compared.
CursorAnyColumn(ord, c, r) ==
    \E i \in DOMAIN ord : Before(ord[i].dir, c[ord[i].field], r[ord[i].field])

CursorEveryColumn(ord, c, r) ==
    \A i \in DOMAIN ord : Before(ord[i].dir, c[ord[i].field], r[ord[i].field])

\* build_cursor_condition
CursorCondition(ord, c, r) ==
    \E i \in DOMAIN ord :
        /\ \A j \in 1 .. i - 1 : r[ord[j].field] = c[ord[j].field]
        /\ IF ord[i].dir = "asc"
           THEN r[ord[i].field] > c[ord[i].field]
           ELSE r[ord[i].field] < c[ord[i].field]

\* A cursor that lacks a column of the sort is ignored.
CursorAccepted(q, c) ==
    c # None /\ \A i \in DOMAIN q.sort : c[q.sort[i].field] # None

Matches(q, r) == \A c \in DOMAIN q.where : r[c] \in q.where[c]

Selected(q, c) ==
    {r \in {account[i] : i \in Ids} \ {None} :
        /\ CursorAccepted(q, c) => CursorCondition(Ordering(q), c, r)
        /\ Matches(q, r)}

\* LIMIT: the rows with less than that many before them.
Page(q, c) ==
    {r \in Selected(q, c) :
        Cardinality({s \in Selected(q, c) : Ordered(Ordering(q), s, r)}) < Limit(q)}

SortedBy(q) == {q.sort[i].field : i \in DOMAIN q.sort}

\* Faulty variants of CursorOf: columns without a value are left out; the
\* cursor forgets the status.
CursorShort(q, r) == [c \in SortedBy(q) \cup {"id"} |-> r[c]]

CursorBare(q, r) ==
    [c \in SortField \cup {"id"} |->
        IF c \in (SortedBy(q) \ {"status"}) \cup {"id"} THEN r[c] ELSE None]

CursorOf(q, r) ==
    [c \in SortField \cup {"id"} |->
        IF c \in SortedBy(q) \cup {"id"} THEN r[c] ELSE None]

-----------------------------------------------------------------------------
Init ==
    /\ account \in [Ids -> UNION {Row(i) : i \in Ids} \cup {None}]
    /\ \A i \in Ids : account[i] \in Row(i) \cup {None}
    /\ changed = {}
    /\ query \in Queries
    /\ cursor = None
    /\ listed = {}
    /\ pages = 0
    /\ done = FALSE

\* list_all, for a client that asks until there is no cursor.
Fetch ==
    LET page == Page(query, cursor)
        full == Cardinality(page) = Limit(query)
    IN  /\ ~done
        /\ pages < MaxPages
        /\ listed' = listed \cup {[page |-> pages, row |-> r] : r \in page}
        /\ pages' = pages + 1
        /\ done' = ~full
        /\ IF full
           THEN \E last \in page :
                   /\ \A r \in page : r = last \/ Ordered(Ordering(query), r, last)
                   /\ cursor' = CursorOf(query, last)
           ELSE cursor' = None
        /\ UNCHANGED <<account, changed, query>>

\* POST, PATCH and DELETE of other requests.  created_at is set before the
\* row is committed, so a new row may have any.
Write(i, row) ==
    /\ ~done
    /\ Cardinality(changed \cup {i}) <= MaxChanges
    /\ changed' = changed \cup {i}
    /\ account' = [account EXCEPT ![i] = row]
    /\ UNCHANGED <<query, cursor, listed, pages, done>>

Create(i) ==
    /\ account[i] = None
    /\ \E row \in Row(i) : Write(i, row)

\* Faulty variant of Change: an update touches created_at.
ChangeCreated(i) ==
    /\ account[i] # None
    /\ \E v \in Values["created_at"] : Write(i, [account[i] EXCEPT !["created_at"] = v])

Change(i) ==
    /\ account[i] # None
    /\ i \notin changed
    /\ \E c \in {"name", "status"} \cap Columns : \E v \in Values[c] :
          Write(i, [account[i] EXCEPT ![c] = v])

Next ==
    \/ Fetch
    \/ \E i \in Ids : Create(i) \/ Change(i)

Spec == Init /\ [][Next]_vars

\* The client goes on to the last page.
FairSpec == Spec /\ WF_vars(Fetch)

-----------------------------------------------------------------------------
TypeOK ==
    /\ DOMAIN account = Ids
    /\ \A i \in Ids : account[i] \in Row(i) \cup {None}
    /\ changed \subseteq Ids
    /\ query \in Queries
    /\ cursor # None => cursor \in [SortField \cup {"id"} -> Int \cup {None}]
    /\ \A e \in listed : e.page \in 0 .. pages - 1 /\ \E i \in Ids : e.row \in Row(i)
    /\ pages \in Nat
    /\ done \in BOOLEAN

\* The client sees the accounts in the order it asked for, across pages, as
\* they were when it got them, whatever is created and changed meanwhile.
ListedInOrder ==
    \A e, f \in listed :
        e.page < f.page => Ordered(Ordering(query), e.row, f.row)

\* No account is skipped or listed twice because of what happens to others:
\* one that is there from the first page to the last, and is not changed, is
\* listed once if it matches the query and never if it does not.
SteadyListedOnce ==
    done => \A i \in Ids \ changed :
        Cardinality({e \in listed : e.row["id"] = i}) =
            IF account[i] # None /\ Matches(query, account[i]) THEN 1 ELSE 0

\* Only a change of a column the list is sorted by moves an account to a later
\* page: for the default sort, by created_at, no account is listed twice.
OnlyTheMovedRepeat ==
    \A e, f \in listed :
        e.row["id"] = f.row["id"] /\ e.page # f.page => "status" \in SortedBy(query)

\* Every walk ends: no cursor leads back to a page that was read already.
WalkEnds == <>done

=============================================================================
