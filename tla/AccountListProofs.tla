------------------------- MODULE AccountListProofs --------------------------
(***************************************************************************)
(* Proofs about AccountList, for any accounts, columns, values, queries,   *)
(* page sizes and changes: a walk lists the accounts in the order of its   *)
(* query, and misses or repeats none that stays as it is.                  *)
(*                                                                         *)
(* Two things carry the argument.  The order of a query is a strict order  *)
(* that is total on rows with different ids, so a page, the rows with few  *)
(* enough before them, is an initial part of what was selected (PageIs-    *)
(* Initial).  And the cursor bounds the listed rows from above and the     *)
(* rows that are still to come from below (Passed, Ahead).                 *)
(***************************************************************************)
EXTENDS AccountList, FiniteSetTheorems, SequenceTheorems, TLAPS

-----------------------------------------------------------------------------
(* The order of a query.                                                   *)

Fields == SortField \cup {"id"}
Orderings == Seq([field : Fields, dir : {"asc", "desc"}])

\* x has a number in every column of the order; x and y have the same ones.
Keyed(ord, x) == \A i \in DOMAIN ord : x[ord[i].field] \in Int
SameKey(ord, x, y) == \A i \in DOMAIN ord : x[ord[i].field] = y[ord[i].field]

\* The sort columns of a query, and then the id.
LEMMA OrderingFacts ==
    ASSUME NEW q \in Queries
    PROVE  LET ord == Ordering(q)
           IN  /\ ord \in Orderings
               /\ DOMAIN ord = 1 .. Len(q.sort) + 1
               /\ Len(q.sort) \in Nat
               /\ \A i \in DOMAIN q.sort : ord[i] = q.sort[i]
               /\ ord[Len(q.sort) + 1] = [field |-> "id", dir |-> "desc"]
               /\ DOMAIN q.sort = 1 .. Len(q.sort)
               /\ \A i \in DOMAIN q.sort : q.sort[i].field \in SortField
<1> DEFINE S == [field : SortField, dir : {"asc", "desc"}]
           T == [field : Fields, dir : {"asc", "desc"}]
           last == [field |-> "id", dir |-> "desc"]
<1>1. q.sort \in Seq(S)
    BY ListAssumption
<1>2. S \subseteq T /\ last \in T
    BY DEF Fields
<1>3. \A i \in DOMAIN q.sort : q.sort[i] \in S
    <2> HIDE DEF S
    <2> QED
        BY <1>1, ElementOfSeq
<1>4. \A i \in DOMAIN q.sort : q.sort[i].field \in SortField
    BY <1>3
<1>5. q.sort \in Seq(T)
    <2> HIDE DEF S, T
    <2> QED
        BY <1>1, <1>2, <1>3, SeqDef
<1> HIDE DEF S, T, last
<1>6. /\ Append(q.sort, last) \in Seq(T)
      /\ Len(q.sort) \in Nat /\ DOMAIN q.sort = 1 .. Len(q.sort)
      /\ DOMAIN Append(q.sort, last) = 1 .. Len(q.sort) + 1
      /\ \A i \in 1 .. Len(q.sort) : Append(q.sort, last)[i] = q.sort[i]
      /\ Append(q.sort, last)[Len(q.sort) + 1] = last
    BY <1>2, <1>5
<1> QED
    BY <1>4, <1>6 DEF Ordering, Orderings, S, T, last

\* What an order says of each of its columns.
LEMMA ColumnFacts ==
    ASSUME NEW ord \in Orderings
    PROVE  /\ DOMAIN ord = 1 .. Len(ord) /\ Len(ord) \in Nat
           /\ \A i \in DOMAIN ord : ord[i].field \in Fields /\ ord[i].dir \in {"asc", "desc"}
<1> DEFINE T == [field : Fields, dir : {"asc", "desc"}]
<1>1. ord \in Seq(T)
    BY DEF Orderings
<1>2. \A i \in DOMAIN ord : ord[i] \in T
    <2> HIDE DEF T
    <2> QED
        BY <1>1, ElementOfSeq
<1>3. DOMAIN ord = 1 .. Len(ord) /\ Len(ord) \in Nat
    BY <1>1, LenProperties
<1> QED
    BY <1>2, <1>3

\* No row comes before itself, nor before one with the same keys.
LEMMA OrderIrreflexive ==
    ASSUME NEW ord \in Orderings, NEW x, NEW y, Keyed(ord, x), SameKey(ord, x, y)
    PROVE  ~Ordered(ord, x, y)
BY DEF Ordered, Before, Keyed, SameKey

\* A lexicographic order is transitive.
LEMMA OrderTransitive ==
    ASSUME NEW ord \in Orderings, NEW x, NEW y, NEW z,
           Keyed(ord, x), Keyed(ord, y), Keyed(ord, z),
           Ordered(ord, x, y), Ordered(ord, y, z)
    PROVE  Ordered(ord, x, z)
<1>1. PICK i \in DOMAIN ord :
         /\ \A k \in 1 .. i - 1 : x[ord[k].field] = y[ord[k].field]
         /\ Before(ord[i].dir, x[ord[i].field], y[ord[i].field])
    BY DEF Ordered
<1>2. PICK j \in DOMAIN ord :
         /\ \A k \in 1 .. j - 1 : y[ord[k].field] = z[ord[k].field]
         /\ Before(ord[j].dir, y[ord[j].field], z[ord[j].field])
    BY DEF Ordered
<1>3. DOMAIN ord = 1 .. Len(ord) /\ Len(ord) \in Nat
    BY DEF Orderings
<1>4. CASE i < j
    <2>1. y[ord[i].field] = z[ord[i].field]
        BY <1>2, <1>3, <1>4
    <2>2. \A k \in 1 .. i - 1 : x[ord[k].field] = z[ord[k].field]
        BY <1>1, <1>2, <1>3, <1>4
    <2> QED
        BY <1>1, <2>1, <2>2 DEF Ordered
<1>5. CASE j < i
    <2>1. x[ord[j].field] = y[ord[j].field]
        BY <1>1, <1>3, <1>5
    <2>2. \A k \in 1 .. j - 1 : x[ord[k].field] = z[ord[k].field]
        BY <1>1, <1>2, <1>3, <1>5
    <2> QED
        BY <1>2, <2>1, <2>2 DEF Ordered
<1>6. CASE i = j
    <2>1. \A k \in 1 .. i - 1 : x[ord[k].field] = z[ord[k].field]
        BY <1>1, <1>2, <1>6
    <2>2. Before(ord[i].dir, x[ord[i].field], z[ord[i].field])
        BY <1>1, <1>2, <1>6 DEF Before, Keyed
    <2> QED
        BY <2>1, <2>2 DEF Ordered
<1> QED
    BY <1>3, <1>4, <1>5, <1>6

\* Rows with the same keys are in the same place of the order.
LEMMA OrderOfSameKey ==
    ASSUME NEW ord \in Orderings, NEW x, NEW y, NEW z, SameKey(ord, x, y)
    PROVE  /\ Ordered(ord, x, z) <=> Ordered(ord, y, z)
           /\ Ordered(ord, z, x) <=> Ordered(ord, z, y)
<1>1. \A i \in DOMAIN ord : \A j \in 1 .. i - 1 : j \in DOMAIN ord
    BY DEF Orderings
<1> QED
    BY <1>1 DEF Ordered, SameKey

\* Every set of natural numbers has a least element.
LEMMA LeastElement ==
    ASSUME NEW T, T \subseteq Nat, T # {}
    PROVE  \E m \in T : \A k \in T : m <= k
<1>1. \E m \in T : \A k \in T : <<k, m>> \notin OpToRel(<, Nat)
    BY NatLessThanWellFounded, WFMin
<1>2. \A k, m \in T : <<k, m>> \notin OpToRel(<, Nat) => m <= k
    BY DEF OpToRel
<1> QED
    BY <1>1, <1>2

\* Of two rows that differ in some column of the order, one is first.
LEMMA OrderTotal ==
    ASSUME NEW ord \in Orderings, NEW x, NEW y, Keyed(ord, x), Keyed(ord, y),
           ~SameKey(ord, x, y)
    PROVE  Ordered(ord, x, y) \/ Ordered(ord, y, x)
<1> DEFINE T == {i \in DOMAIN ord : x[ord[i].field] # y[ord[i].field]}
<1>1. DOMAIN ord = 1 .. Len(ord) /\ Len(ord) \in Nat
    BY ColumnFacts
<1>2. PICK i \in T : \A k \in T : i <= k
    <2>1. T \subseteq Nat /\ T # {}
        BY <1>1 DEF SameKey
    <2> HIDE DEF T
    <2> QED
        BY <2>1, LeastElement
<1>3. \A j \in 1 .. i - 1 : x[ord[j].field] = y[ord[j].field]
    BY <1>1, <1>2
<1>4. \/ Before(ord[i].dir, x[ord[i].field], y[ord[i].field])
      \/ Before(ord[i].dir, y[ord[i].field], x[ord[i].field])
    BY <1>2 DEF Before, Keyed
<1> QED
    BY <1>2, <1>3, <1>4 DEF Ordered

-----------------------------------------------------------------------------
(* Pages.                                                                  *)

\* r comes before s only if fewer rows come before r, and a page has its
\* number of rows: it is an initial part of the sorted selection.
LEMMA PageIsInitial ==
    ASSUME NEW S, IsFiniteSet(S), NEW ord \in Orderings, NEW n \in Nat \ {0},
           \A r \in S : Keyed(ord, r),
           \A r, s \in S : r # s => ~SameKey(ord, r, s)
    PROVE  LET page == {r \in S : Cardinality({s \in S : Ordered(ord, s, r)}) < n}
           IN  /\ IsFiniteSet(page) /\ Cardinality(page) <= n
               /\ \A x \in page : \A r \in S \ page : Ordered(ord, x, r)
               /\ Cardinality(page) # n => page = S
<1> DEFINE P == [r \in S |-> {s \in S : Ordered(ord, s, r)}]
           R == [r \in S |-> Cardinality(P[r])]
           page == {r \in S : R[r] < n}
<1>1. \A r \in S : P[r] \subseteq S /\ IsFiniteSet(P[r]) /\ R[r] \in Nat
    <2>1. TAKE r \in S
    <2>2. P[r] \in SUBSET S
        OBVIOUS
    <2> QED
        BY <2>2, FS_Subset, FS_CardinalityType
<1>2. \A r \in S : r \notin P[r]
    BY OrderIrreflexive DEF SameKey
<1>3. \A r, s \in S : Ordered(ord, s, r) => R[s] < R[r]
    <2> SUFFICES ASSUME NEW r \in S, NEW s \in S, Ordered(ord, s, r)
                 PROVE  R[s] < R[r]
        OBVIOUS
    <2>1. P[s] \subseteq P[r]
        BY OrderTransitive
    <2>2. s \in P[r] /\ s \notin P[s]
        BY <1>2
    <2>3. R[s] <= R[r] /\ (R[r] = R[s] => P[r] = P[s])
        <3> HIDE DEF P
        <3> QED
            BY <1>1, <2>1, FS_Subset
    <2> HIDE DEF R, P
    <2> QED
        BY <1>1, <2>2, <2>3
<1>4. \A r, s \in S : r = s \/ Ordered(ord, r, s) \/ Ordered(ord, s, r)
    BY OrderTotal
<1>5. page \in SUBSET S
    OBVIOUS
<1>6. IsFiniteSet(page) /\ Cardinality(page) \in Nat
    <2> HIDE DEF page
    <2> QED
        BY <1>5, FS_Subset, FS_CardinalityType
<1>7. ASSUME NEW x \in page, NEW r \in S \ page
      PROVE  Ordered(ord, x, r)
    <2>1. R[x] < n /\ ~(R[r] < n) /\ x \in S /\ x # r
        OBVIOUS
    <2> HIDE DEF P, R, page
    <2> QED
        BY <1>1, <1>3, <1>4, <2>1
<1>8. Cardinality(page) <= n
    <2>1. CASE page = {}
        <3> HIDE DEF page
        <3> QED
            BY <2>1, FS_EmptySet
    <2>2. CASE page # {}
        <3> DEFINE T == {n - R[x] : x \in page}
        <3>1. T \subseteq Nat /\ T # {}
            <4>1. \A x \in page : R[x] < n /\ R[x] \in Nat
                BY <1>1
            <4> HIDE DEF P, R, page
            <4> QED
                BY <2>2, <4>1
        <3>2. PICK m \in T : \A k \in T : m <= k
            <4> HIDE DEF T
            <4> QED
                BY <3>1, LeastElement
        <3>3. PICK x \in page : m = n - R[x]
            OBVIOUS
        <3>4. \A y \in page : R[y] <= R[x]
            <4> SUFFICES ASSUME NEW y \in page PROVE R[y] <= R[x]
                OBVIOUS
            <4>1. n - R[x] <= n - R[y] /\ x \in S /\ y \in S
                BY <3>2, <3>3
            <4> HIDE DEF P, R, page, T
            <4> QED
                BY <1>1, <4>1
        <3>5. page \subseteq P[x] \cup {x}
            <4> SUFFICES ASSUME NEW y \in page, y # x PROVE Ordered(ord, y, x)
                OBVIOUS
            <4>1. x \in S /\ y \in S /\ R[y] <= R[x]
                BY <3>4
            <4> HIDE DEF P, R, page
            <4> QED
                BY <1>1, <1>3, <1>4, <4>1
        <3>6. x \in S /\ R[x] < n /\ R[x] \in Nat
            BY <1>1
        <3>7. /\ IsFiniteSet(P[x] \cup {x})
              /\ Cardinality(P[x] \cup {x}) = R[x] + 1
            <4>1. x \notin P[x] /\ IsFiniteSet(P[x])
                BY <1>1, <1>2
            <4> HIDE DEF P
            <4> QED
                BY <4>1, FS_AddElement
        <3>8. Cardinality(page) <= Cardinality(P[x] \cup {x})
            <4> HIDE DEF P, page
            <4> QED
                BY <3>5, <3>7, FS_Subset
        <3> HIDE DEF R, P, page
        <3> QED
            BY <1>6, <3>6, <3>7, <3>8
    <2> QED
        BY <2>1, <2>2
<1>9. ASSUME Cardinality(page) # n PROVE page = S
    <2> SUFFICES ASSUME S \ page # {} PROVE FALSE
        BY <1>5
    <2> DEFINE T == {R[r] : r \in S \ page}
    <2>1. T \subseteq Nat /\ T # {}
        <3> HIDE DEF P, R, page
        <3> QED
            BY <1>1
    <2>2. PICK m \in T : \A k \in T : m <= k
        <3> HIDE DEF T
        <3> QED
            BY <2>1, LeastElement
    <2>3. PICK r \in S \ page : m = R[r]
        OBVIOUS
    <2>4. P[r] \in SUBSET page
        <3> SUFFICES ASSUME NEW s \in P[r], s \notin page PROVE FALSE
            OBVIOUS
        <3>1. s \in S /\ Ordered(ord, s, r)
            OBVIOUS
        <3>2. R[r] <= R[s]
            BY <2>2, <2>3, <3>1
        <3> HIDE DEF P, R, page, T
        <3> QED
            BY <1>1, <1>3, <3>1, <3>2
    <2>5. R[r] <= Cardinality(page)
        <3> HIDE DEF P, page
        <3> QED
            BY <1>6, <2>4, FS_Subset
    <2>6. R[r] \in Nat /\ ~(R[r] < n)
        BY <1>1
    <2> HIDE DEF P, R, page, T
    <2> QED
        BY <1>6, <1>8, <1>9, <2>5, <2>6
<1> QED
    <2>1. page = {r \in S : Cardinality({s \in S : Ordered(ord, s, r)}) < n}
        OBVIOUS
    <2> HIDE DEF page
    <2> QED
        BY <1>6, <1>7, <1>8, <1>9, <2>1

-----------------------------------------------------------------------------
(* Rows, the cursor and the selection.                                     *)

\* A row has the id of its account and numbers in its columns.
LEMMA RowFacts ==
    ASSUME NEW i \in Ids, NEW r \in Row(i)
    PROVE  /\ r \in [Columns \cup {"id"} -> Int]
           /\ r["id"] = i
           /\ \A c \in Columns : r[c] \in Values[c]
           /\ r # None
BY ListAssumption DEF Row

\* A row is given by its id and the values of its columns.
LEMMA RowMade ==
    ASSUME NEW i \in Ids, NEW r \in [Columns \cup {"id"} -> Int],
           r["id"] = i, \A c \in Columns : r[c] \in Values[c]
    PROVE  r \in Row(i)
<1> DEFINE f == [c \in Columns |-> r[c]]
<1>1. /\ f \in [Columns -> UNION {Values[c] : c \in Columns}]
      /\ \A c \in Columns : f[c] \in Values[c]
    OBVIOUS
<1>2. r = [c \in Columns \cup {"id"} |-> IF c = "id" THEN i ELSE f[c]]
    BY ListAssumption
<1> HIDE DEF f
<1> QED
    BY <1>1, <1>2 DEF Row

\* A row has a number in every column of an order.
LEMMA RowKeyed ==
    ASSUME NEW q \in Queries, NEW i \in Ids, NEW r \in Row(i)
    PROVE  Keyed(Ordering(q), r)
<1>1. \A f \in Fields : r[f] \in Int
    BY RowFacts, ListAssumption DEF Fields
<1> QED
    BY <1>1, OrderingFacts, ColumnFacts DEF Keyed

\* Rows with the same keys belong to the same account.
LEMMA SameAccount ==
    ASSUME NEW q \in Queries, NEW x, NEW y, SameKey(Ordering(q), x, y)
    PROVE  x["id"] = y["id"]
BY OrderingFacts DEF SameKey

\* What the columns of an order are.
LEMMA OrderedBy ==
    ASSUME NEW q \in Queries, NEW i \in DOMAIN Ordering(q)
    PROVE  Ordering(q)[i].field \in SortedBy(q) \cup {"id"}
<1>1. CASE i = Len(q.sort) + 1
    BY <1>1, OrderingFacts
<1>2. CASE i # Len(q.sort) + 1
    <2>1. i \in DOMAIN q.sort /\ Ordering(q)[i] = q.sort[i]
        BY <1>2, OrderingFacts
    <2> QED
        BY <2>1 DEF SortedBy
<1> QED
    BY <1>1, <1>2

\* A cursor has the keys of the row it was made of.
LEMMA CursorFacts ==
    ASSUME NEW q \in Queries, NEW i \in Ids, NEW r \in Row(i)
    PROVE  LET c == CursorOf(q, r)
           IN  /\ c \in [SortField \cup {"id"} -> Int \cup {None}]
               /\ c # None
               /\ \A f \in SortedBy(q) \cup {"id"} : c[f] \in Int
               /\ SameKey(Ordering(q), r, c)
<1>1. \A f \in Fields : r[f] \in Int
    BY RowFacts, ListAssumption DEF Fields
<1>2. SortedBy(q) \subseteq SortField
    BY OrderingFacts DEF SortedBy
<1>3. \A f \in SortedBy(q) \cup {"id"} : CursorOf(q, r)[f] = r[f]
    BY <1>2 DEF CursorOf
<1>4. CursorOf(q, r) \in [SortField \cup {"id"} -> Int \cup {None}]
    BY <1>1 DEF CursorOf, Fields
<1>5. SameKey(Ordering(q), r, CursorOf(q, r))
    BY <1>3, OrderedBy DEF SameKey
<1>6. \A f \in SortedBy(q) \cup {"id"} : CursorOf(q, r)[f] \in Int
    BY <1>1, <1>2, <1>3 DEF Fields
<1> QED
    BY <1>4, <1>5, <1>6, ListAssumption

\* What a cursor may be: none, or one made of a row.
Usable(q, c) == c # None => \A f \in SortedBy(q) \cup {"id"} : c[f] \in Int

\* The rows that come after the cursor.
After(q, c, r) == c # None => Ordered(Ordering(q), c, r)

\* The condition on the cursor selects the rows that the order puts after it.
LEMMA SelectedIsAfter ==
    ASSUME NEW q \in Queries, NEW c, Usable(q, c)
    PROVE  Selected(q, c) =
             {r \in {account[i] : i \in Ids} \ {None} : After(q, c, r) /\ Matches(q, r)}
<1>1. c # None => CursorAccepted(q, c)
    <2>1. \A i \in DOMAIN q.sort : q.sort[i].field \in SortedBy(q)
        BY DEF SortedBy
    <2> QED
        BY <2>1, ListAssumption DEF Usable, CursorAccepted
<1>2. \A r : CursorCondition(Ordering(q), c, r) <=> Ordered(Ordering(q), c, r)
    BY DEF CursorCondition, Ordered, Before
<1> QED
    BY <1>1, <1>2 DEF Selected, After, CursorAccepted

\* A page is an initial part of the rows after the cursor.
LEMMA PageFacts ==
    ASSUME NEW q \in Queries, NEW c, Usable(q, c),
           \A i \in Ids : account[i] \in Row(i) \cup {None}
    PROVE  LET page == Page(q, c)
               rest == {r \in {account[i] : i \in Ids} \ {None} :
                           After(q, c, r) /\ Matches(q, r)}
           IN  /\ page \subseteq rest
               /\ \A x \in page : \A r \in rest \ page : Ordered(Ordering(q), x, r)
               /\ Cardinality(page) # Limit(q) => page = rest
<1> DEFINE T == {account[i] : i \in Ids}
           f == [i \in Ids |-> account[i]]
           ord == Ordering(q)
           S == Selected(q, c)
<1>1. S \in SUBSET T
    BY DEF Selected
<1>2. IsFiniteSet(S)
    <2>1. f \in Surjection(Ids, T)
        BY DEF Surjection
    <2>2. IsFiniteSet(T)
        <3> HIDE DEF f, T
        <3> QED
            BY <2>1, FS_Surjection, ListAssumption
    <2> HIDE DEF S, T
    <2> QED
        BY <1>1, <2>2, FS_Subset
<1>3. \A r \in S : \E i \in Ids : r \in Row(i) /\ r = account[i]
    BY DEF Selected
<1>4. \A r \in S : Keyed(ord, r)
    BY <1>3, RowKeyed
<1>5. \A r, s \in S : r # s => ~SameKey(ord, r, s)
    BY <1>3, SameAccount, RowFacts
<1>6. ord \in Orderings /\ Limit(q) \in Nat \ {0}
    BY OrderingFacts, ListAssumption DEF Limit
<1>7. Page(q, c) = {r \in S : Cardinality({s \in S : Ordered(ord, s, r)}) < Limit(q)}
    BY DEF Page
<1>8. /\ Page(q, c) \subseteq S
      /\ \A x \in Page(q, c) : \A r \in S \ Page(q, c) : Ordered(ord, x, r)
      /\ Cardinality(Page(q, c)) # Limit(q) => Page(q, c) = S
    <2> HIDE DEF S, ord
    <2> QED
        BY <1>2, <1>4, <1>5, <1>6, <1>7, PageIsInitial
<1> QED
    BY <1>8, SelectedIsAfter

-----------------------------------------------------------------------------
(* The invariant of a walk.                                                *)

\* What is listed was a row with a place in the pages.
Entries == \A e \in listed : e = [page |-> e.page, row |-> e.row]

\* A listed row is one of an account that is still there, and only a change
\* of the account tells them apart, in its name or its status.
Known ==
    \A e \in listed : LET i == e.row["id"]
                      IN  /\ account[i] # None
                          /\ i \notin changed => e.row = account[i]
                          /\ Matches(query, e.row)
                          /\ \A c \in Columns \ {"name", "status"} : e.row[c] = account[i][c]

\* The cursor is not before any listed row.
Passed ==
    /\ Usable(query, cursor)
    /\ cursor = None => listed = {} \/ done
    /\ cursor # None =>
          \A e \in listed : \/ Ordered(Ordering(query), e.row, cursor)
                            \/ SameKey(Ordering(query), e.row, cursor)

\* An account that matches and was not changed is listed, or comes after the
\* cursor.
Ahead ==
    \A i \in Ids \ changed :
        account[i] # None /\ Matches(query, account[i]) =>
            \/ \E e \in listed : e.row = account[i]
            \/ ~done /\ After(query, cursor, account[i])

IInv == TypeOK /\ Entries /\ Known /\ Passed /\ Ahead /\ ListedInOrder

\* A walk starts with an empty list.
LEMMA InitIInv == Init => IInv
<1> SUFFICES ASSUME Init PROVE IInv
    OBVIOUS
<1> USE DEF Init
<1>1. TypeOK
    BY DEF TypeOK
<1>2. Entries /\ Known /\ Passed /\ Ahead /\ ListedInOrder
    BY DEF Entries, Known, Passed, Ahead, ListedInOrder, Usable, After
<1> QED
    BY <1>1, <1>2 DEF IInv

\* Writing a row that differs from the listed ones in name and status only
\* preserves the invariant.
LEMMA WriteIInv ==
    ASSUME IInv, NEW i \in Ids, NEW row \in Row(i), Write(i, row),
           \/ account[i] = None
           \/ \A c \in Columns \ {"name", "status"} : row[c] = account[i][c]
    PROVE  IInv'
<1>1. /\ changed' = changed \cup {i}
      /\ account' = [account EXCEPT ![i] = row]
      /\ UNCHANGED <<query, cursor, listed, pages, done>>
    BY DEF Write
<1>2. /\ DOMAIN account' = Ids /\ account'[i] = row /\ row # None
      /\ \A j \in Ids : j # i => account'[j] = account[j]
    BY <1>1, RowFacts DEF IInv, TypeOK
<1>3. TypeOK'
    BY <1>1, <1>2 DEF IInv, TypeOK
<1>4. (Entries /\ ListedInOrder /\ Passed)'
    BY <1>1 DEF IInv, Entries, ListedInOrder, Passed, Usable
<1>5. Known'
    <2> SUFFICES ASSUME NEW e \in listed
                 PROVE  LET j == e.row["id"]
                        IN  /\ account'[j] # None
                            /\ j \notin changed' => e.row = account'[j]
                            /\ Matches(query, e.row)
                            /\ \A c \in Columns \ {"name", "status"} :
                                  e.row[c] = account'[j][c]
        BY <1>1 DEF Known, Matches
    <2> DEFINE j == e.row["id"]
    <2>1. /\ account[j] # None /\ (j \notin changed => e.row = account[j])
          /\ Matches(query, e.row)
          /\ \A c \in Columns \ {"name", "status"} : e.row[c] = account[j][c]
        BY DEF IInv, Known
    <2>2. j \in Ids
        BY RowFacts DEF IInv, TypeOK
    <2>3. CASE j = i
        BY <1>1, <1>2, <2>1, <2>3
    <2>4. CASE j # i
        BY <1>1, <1>2, <2>1, <2>2, <2>4
    <2> QED
        BY <2>3, <2>4 DEF j
<1>6. Ahead'
    <2> SUFFICES ASSUME NEW j \in Ids, j \notin changed', account'[j] # None,
                        Matches(query', account'[j])
                 PROVE  \/ \E e \in listed' : e.row = account'[j]
                        \/ ~done' /\ After(query', cursor', account'[j])
        BY DEF Ahead
    <2>1. j \notin changed /\ account'[j] = account[j]
        BY <1>1, <1>2
    <2> QED
        BY <1>1, <2>1 DEF IInv, Ahead
<1> QED
    BY <1>3, <1>4, <1>5, <1>6 DEF IInv

\* A page continues the list, and moves the cursor behind it.
LEMMA FetchIInv == IInv /\ Fetch => IInv'
<1> SUFFICES ASSUME IInv, Fetch PROVE IInv'
    OBVIOUS
<1> DEFINE ord == Ordering(query)
           rest == {r \in {account[i] : i \in Ids} \ {None} :
                       After(query, cursor, r) /\ Matches(query, r)}
<1>1. PICK page : page = Page(query, cursor)
    OBVIOUS
<1>2. /\ ~done /\ pages' = pages + 1 /\ UNCHANGED <<account, changed, query>>
      /\ listed' = listed \cup {[page |-> pages, row |-> r] : r \in page}
    BY <1>1 DEF Fetch
<1>3. \/ /\ done' = FALSE
         /\ \E last \in page :
               /\ \A r \in page : r = last \/ Ordered(ord, r, last)
               /\ cursor' = CursorOf(query, last)
      \/ /\ done' = TRUE /\ cursor' = None
         /\ Cardinality(page) # Limit(query)
    BY <1>1 DEF Fetch
<1>4. /\ query \in Queries /\ pages \in Nat /\ Usable(query, cursor)
      /\ \A i \in Ids : account[i] \in Row(i) \cup {None}
    BY DEF IInv, TypeOK, Passed
<1>5. /\ page \subseteq rest
      /\ \A x \in page : \A r \in rest \ page : Ordered(ord, x, r)
      /\ Cardinality(page) # Limit(query) => page = rest
    BY <1>1, <1>4, PageFacts
<1>6. \A r \in page : \E i \in Ids : /\ r \in Row(i) /\ r = account[i] /\ r # None
                                     /\ r["id"] = i
                                     /\ After(query, cursor, r) /\ Matches(query, r)
    BY <1>4, <1>5, RowFacts
<1>7. \A e \in listed : e.page \in Nat /\ e.page < pages /\ \E i \in Ids : e.row \in Row(i)
    BY DEF IInv, TypeOK
<1>8. \A e \in listed : \A r \in page : Ordered(ord, e.row, r)
    <2> SUFFICES ASSUME NEW e \in listed, NEW r \in page PROVE Ordered(ord, e.row, r)
        OBVIOUS
    <2>1. /\ cursor # None /\ Ordered(ord, cursor, r)
          /\ Ordered(ord, e.row, cursor) \/ SameKey(ord, e.row, cursor)
        BY <1>2, <1>6 DEF IInv, Passed, After
    <2>2. Keyed(ord, e.row) /\ Keyed(ord, r) /\ Keyed(ord, cursor) /\ ord \in Orderings
        <3>1. Keyed(ord, cursor)
            BY <1>4, <2>1, OrderedBy DEF Usable, Keyed
        <3> QED
            BY <1>4, <1>6, <1>7, <3>1, RowKeyed, OrderingFacts
    <2> HIDE DEF ord
    <2> QED
        BY <2>1, <2>2, OrderTransitive, OrderOfSameKey
<1>9. (Entries /\ ListedInOrder)'
    <2>1. Entries'
        BY <1>2 DEF IInv, Entries
    <2>2. ListedInOrder'
        <3> SUFFICES ASSUME NEW e \in listed', NEW f \in listed', e.page < f.page
                     PROVE  Ordered(ord, e.row, f.row)
            BY <1>2 DEF ListedInOrder
        <3>1. CASE f \in listed
            <4>1. e \in listed
                BY <1>2, <1>4, <1>7, <3>1
            <4> QED
                BY <3>1, <4>1 DEF IInv, ListedInOrder
        <3>2. CASE f \notin listed
            <4>1. f.page = pages /\ f.row \in page /\ e \in listed
                BY <1>2, <1>4, <1>7, <3>2
            <4> QED
                BY <1>8, <4>1
        <3> QED
            BY <3>1, <3>2
    <2> QED
        BY <2>1, <2>2
<1>10. Known'
    <2> SUFFICES ASSUME NEW e \in listed'
                 PROVE  LET j == e.row["id"]
                        IN  /\ account[j] # None
                            /\ j \notin changed => e.row = account[j]
                            /\ Matches(query, e.row)
                            /\ \A c \in Columns \ {"name", "status"} :
                                  e.row[c] = account[j][c]
        BY <1>2 DEF Known, Matches
    <2>1. CASE e \in listed
        BY <2>1 DEF IInv, Known
    <2>2. CASE e \notin listed
        <3>1. e.row \in page
            BY <1>2, <2>2
        <3> QED
            BY <1>6, <3>1
    <2> QED
        BY <2>1, <2>2
<1>11. CASE done' = FALSE
    <2>1. PICK last \in page : /\ \A r \in page : r = last \/ Ordered(ord, r, last)
                               /\ cursor' = CursorOf(query, last)
        BY <1>3, <1>11
    <2>2. /\ cursor' \in [SortField \cup {"id"} -> Int \cup {None}]
          /\ cursor' # None
          /\ \A f \in SortedBy(query) \cup {"id"} : cursor'[f] \in Int
          /\ SameKey(ord, last, cursor')
        BY <1>4, <1>6, <2>1, CursorFacts
    <2>3. PICK c : c = cursor'
        OBVIOUS
    <2>4. ord \in Orderings
        BY <1>4, OrderingFacts
    <2>5. \A r : /\ Ordered(ord, r, last) => Ordered(ord, r, c)
                 /\ Ordered(ord, last, r) => Ordered(ord, c, r)
        <3> HIDE DEF ord
        <3> QED
            BY <2>2, <2>3, <2>4, OrderOfSameKey
    <2>6. Passed'
        <3>1. Usable(query, c) /\ cursor' # None
            BY <2>2, <2>3 DEF Usable
        <3>2. \A e \in listed' : Ordered(ord, e.row, c) \/ SameKey(ord, e.row, c)
            <4> SUFFICES ASSUME NEW e \in listed'
                         PROVE  Ordered(ord, e.row, c) \/ SameKey(ord, e.row, c)
                OBVIOUS
            <4>1. CASE e \in listed
                BY <1>8, <2>5, <4>1
            <4>2. CASE e \notin listed
                <5>1. e.row \in page
                    BY <1>2, <4>2
                <5> QED
                    BY <2>1, <2>2, <2>3, <2>5, <5>1
            <4> QED
                BY <4>1, <4>2
        <3> QED
            BY <1>2, <2>3, <3>1, <3>2 DEF Passed, Usable
    <2>7. Ahead'
        <3> SUFFICES ASSUME NEW i \in Ids, i \notin changed, account[i] # None,
                            Matches(query, account[i])
                     PROVE  \/ \E e \in listed' : e.row = account[i]
                            \/ After(query, c, account[i])
            BY <1>2, <1>11, <2>3 DEF Ahead, Matches, After
        <3>1. CASE \E e \in listed : e.row = account[i]
            BY <1>2, <3>1
        <3>2. CASE After(query, cursor, account[i])
            <4>1. account[i] \in rest
                BY <3>2
            <4>2. CASE account[i] \in page
                <5>1. [page |-> pages, row |-> account[i]] \in listed'
                    BY <1>2, <4>2
                <5> QED
                    BY <5>1
            <4>3. CASE account[i] \notin page
                BY <1>5, <2>5, <4>1, <4>3 DEF After
            <4> QED
                BY <4>2, <4>3
        <3> QED
            BY <3>1, <3>2 DEF IInv, Ahead
    <2>8. TypeOK'
        <3>1. \A e \in listed' : e.page \in 0 .. pages /\ \E i \in Ids : e.row \in Row(i)
            BY <1>2, <1>4, <1>6, <1>7 DEF IInv, TypeOK
        <3>2. \A e \in listed' : e.page \in 0 .. pages' - 1
            BY <1>2, <1>4, <3>1
        <3>3. (cursor # None => cursor \in [SortField \cup {"id"} -> Int \cup {None}])'
            BY <2>2
        <3>4. done' \in BOOLEAN
            BY <1>11
        <3>5. (/\ DOMAIN account = Ids /\ \A i \in Ids : account[i] \in Row(i) \cup {None}
               /\ changed \subseteq Ids /\ query \in Queries /\ pages \in Nat)'
            BY <1>2 DEF IInv, TypeOK
        <3> QED
            BY <3>1, <3>2, <3>3, <3>4, <3>5, <1>2 DEF TypeOK
    <2> QED
        BY <1>9, <1>10, <2>6, <2>7, <2>8 DEF IInv
<1>12. CASE done' = TRUE
    <2>1. cursor' = None /\ page = rest
        BY <1>3, <1>5, <1>12
    <2>2. Passed'
        BY <1>12, <2>1 DEF Passed, Usable
    <2>3. Ahead'
        <3> SUFFICES ASSUME NEW i \in Ids, i \notin changed, account[i] # None,
                            Matches(query, account[i])
                     PROVE  \E e \in listed' : e.row = account[i]
            BY <1>2 DEF Ahead, Matches
        <3>1. CASE \E e \in listed : e.row = account[i]
            BY <1>2, <3>1
        <3>2. CASE After(query, cursor, account[i])
            <4>1. account[i] \in page
                BY <2>1, <3>2
            <4>2. [page |-> pages, row |-> account[i]] \in listed'
                BY <1>2, <4>1
            <4> QED
                BY <4>2
        <3> QED
            BY <3>1, <3>2 DEF IInv, Ahead
    <2>4. TypeOK'
        <3>1. \A e \in listed' : e.page \in 0 .. pages /\ \E i \in Ids : e.row \in Row(i)
            BY <1>2, <1>4, <1>6, <1>7 DEF IInv, TypeOK
        <3> QED
            BY <1>2, <1>4, <1>12, <2>1, <3>1 DEF IInv, TypeOK
    <2> QED
        BY <1>9, <1>10, <2>2, <2>3, <2>4 DEF IInv
<1> QED
    BY <1>3, <1>11, <1>12

\* Every step preserves the invariant.
LEMMA NextIInv == IInv /\ [Next]_vars => IInv'
<1> SUFFICES ASSUME IInv, [Next]_vars PROVE IInv'
    OBVIOUS
<1>1. CASE Fetch
    BY <1>1, FetchIInv
<1>2. ASSUME NEW i \in Ids, Create(i) PROVE IInv'
    <2>1. PICK row \in Row(i) : account[i] = None /\ Write(i, row)
        BY <1>2 DEF Create
    <2> QED
        BY <2>1, WriteIInv
<1>3. ASSUME NEW i \in Ids, Change(i) PROVE IInv'
    <2>1. PICK c \in {"name", "status"} \cap Columns :
            \E v \in Values[c] :
               account[i] # None /\ Write(i, [account[i] EXCEPT ![c] = v])
        BY <1>3 DEF Change
    <2> PICK v \in Values[c] : account[i] # None /\ Write(i, [account[i] EXCEPT ![c] = v])
        BY <2>1
    <2>2. account[i] \in Row(i)
        BY <2>1 DEF IInv, TypeOK
    <2>3. PICK row : row = [account[i] EXCEPT ![c] = v]
        OBVIOUS
    <2>4. row \in Row(i)
        <3>1. c # "id" /\ v \in Int
            BY ListAssumption
        <3>2. /\ row \in [Columns \cup {"id"} -> Int] /\ row["id"] = i
              /\ \A d \in Columns : row[d] \in Values[d]
            BY <2>2, <2>3, <3>1, RowFacts
        <3> QED
            BY <3>2, RowMade
    <2>5. \A d \in Columns \ {"name", "status"} : row[d] = account[i][d]
        BY <2>2, <2>3, RowFacts
    <2> QED
        BY <2>3, <2>4, <2>5, WriteIInv
<1>4. CASE UNCHANGED vars
    BY <1>4 DEF vars, IInv, TypeOK, Entries, Known, Passed, Ahead, ListedInOrder,
                Usable, After, Matches
<1> QED
    BY <1>1, <1>2, <1>3, <1>4 DEF Next

\* The invariant holds in every reachable state.
THEOREM ListInvariance == Spec => []IInv
<1>1. Init => IInv
    BY InitIInv
<1>2. IInv /\ [Next]_vars => IInv'
    BY NextIInv
<1> QED
    BY <1>1, <1>2, PTL DEF Spec

-----------------------------------------------------------------------------
(* The properties.                                                         *)

\* Rows, cursors and the list are what the code makes of them.
THEOREM ListTypeCorrect == Spec => []TypeOK
<1>1. IInv => TypeOK
    BY DEF IInv
<1> QED
    BY <1>1, ListInvariance, PTL

\* list_all keeps the order of the query from page to page, while accounts
\* are created and changed between the pages.
THEOREM OrderCorrect == Spec => []ListedInOrder
<1>1. IInv => ListedInOrder
    BY DEF IInv
<1> QED
    BY <1>1, ListInvariance, PTL

\* Rows of one account with the same sort columns are never on two pages:
\* created_at and currency do not change, so without status in the sort no
\* account repeats.
THEOREM RepeatCorrect == Spec => []OnlyTheMovedRepeat
<1>1. IInv => OnlyTheMovedRepeat
    <2> SUFFICES ASSUME IInv, NEW e \in listed, NEW f \in listed,
                        e.row["id"] = f.row["id"], e.page # f.page,
                        "status" \notin SortedBy(query)
                 PROVE  FALSE
        BY DEF OnlyTheMovedRepeat
    <2> DEFINE ord == Ordering(query)
    <2>1. query \in Queries /\ ord \in Orderings
        BY OrderingFacts DEF IInv, TypeOK
    <2>2. \A g \in listed : g.page \in Int /\ \E i \in Ids : g.row \in Row(i)
        BY DEF IInv, TypeOK
    <2>3. Keyed(ord, e.row) /\ Keyed(ord, f.row)
        BY <2>1, <2>2, RowKeyed
    <2>4. SameKey(ord, e.row, f.row)
        <3>1. SortedBy(query) \subseteq Columns \ {"name", "status"}
            BY <2>1, OrderingFacts, ListAssumption DEF SortedBy, SortField
        <3>2. \A c \in SortedBy(query) \cup {"id"} : e.row[c] = f.row[c]
            BY <3>1 DEF IInv, Known
        <3> QED
            BY <2>1, <3>2, OrderedBy DEF SameKey
    <2>5. Ordered(ord, e.row, f.row) \/ Ordered(ord, f.row, e.row)
        BY <2>2 DEF IInv, ListedInOrder
    <2>6. SameKey(ord, f.row, e.row)
        BY <2>4 DEF SameKey
    <2> QED
        <3> HIDE DEF ord
        <3> QED
            BY <2>1, <2>3, <2>4, <2>5, <2>6, OrderIrreflexive
<1> QED
    BY <1>1, ListInvariance, PTL

\* An account that nobody touches during a walk is listed exactly once if it
\* matches the filters, whatever happens to the others between the pages.
THEOREM SteadyCorrect == Spec => []SteadyListedOnce
<1>1. IInv => SteadyListedOnce
    <2> SUFFICES ASSUME IInv, done, NEW i \in Ids \ changed
                 PROVE  Cardinality({e \in listed : e.row["id"] = i}) =
                            IF account[i] # None /\ Matches(query, account[i])
                            THEN 1 ELSE 0
        BY DEF SteadyListedOnce
    <2>1. PICK T : T = {e \in listed : e.row["id"] = i}
        OBVIOUS
    <2>2. \A e \in T : /\ e.row = account[i] /\ account[i] # None
                       /\ Matches(query, account[i])
        BY <2>1 DEF IInv, Known
    <2>3. CASE account[i] # None /\ Matches(query, account[i])
        <3>1. PICK e \in listed : e.row = account[i]
            BY <2>3 DEF IInv, Ahead
        <3>2. account[i] \in Row(i)
            BY <2>3 DEF IInv, TypeOK
        <3>3. e \in T
            BY <2>1, <3>1, <3>2, RowFacts
        <3>4. ~Ordered(Ordering(query), account[i], account[i])
            <4>1. query \in Queries
                BY DEF IInv, TypeOK
            <4>2. SameKey(Ordering(query), account[i], account[i])
                BY DEF SameKey
            <4> QED
                BY <3>2, <4>1, <4>2, RowKeyed, OrderingFacts, OrderIrreflexive
        <3>5. \A f \in T : f = e
            <4> SUFFICES ASSUME NEW f \in T PROVE f = e
                OBVIOUS
            <4>1. f \in listed /\ f.row = account[i]
                BY <2>1, <2>2
            <4>2. e.page \in Int /\ f.page \in Int
                BY <4>1 DEF IInv, TypeOK
            <4>3. e.page = f.page
                BY <3>1, <3>4, <4>1, <4>2 DEF IInv, ListedInOrder
            <4> QED
                BY <3>1, <4>1, <4>3 DEF IInv, Entries
        <3>6. T = {e}
            BY <3>3, <3>5
        <3> QED
            BY <2>1, <2>3, <3>6, FS_Singleton
    <2>4. CASE ~(account[i] # None /\ Matches(query, account[i]))
        <3>1. T = {}
            BY <2>2, <2>4
        <3> QED
            BY <2>1, <2>4, <3>1, FS_EmptySet
    <2> QED
        BY <2>3, <2>4
<1> QED
    BY <1>1, ListInvariance, PTL

=============================================================================
