-------------------------- MODULE ChainCheckProofs --------------------------
(***************************************************************************)
(* Lemmas about the query of the ledger verification, for any ledger, any  *)
(* anchor and any window: what the window holds, what a row is compared    *)
(* with, and what the answer says of the ledger.  ChainQueryProofs and     *)
(* VerificationProofs rest on them.                                        *)
(***************************************************************************)
EXTENDS ChainCheck, FiniteSetTheorems, NaturalsInduction, WellFoundedInduction,
        TLAPS

IsPoint(p) == p \in [no : Nat, balance : Int]

\* A ledger as the table holds it: numbers are unique per account.
IsLedger(rows) ==
    /\ IsFiniteSet(rows)
    /\ rows \subseteq [no : Nat \ {0}, amount : Int, balance : Int]
    /\ \A r, s \in rows : r.no = s.no => r = s

Point(r) == [no |-> r.no, balance |-> r.balance]

-----------------------------------------------------------------------------
(* Least and greatest elements.                                            *)

\* Every set of natural numbers has a least element.
LEMMA LeastNumber ==
    ASSUME NEW T, T \subseteq Nat, T # {}
    PROVE  \E m \in T : \A k \in T : m <= k
<1>1. \E m \in T : \A k \in T : <<k, m>> \notin OpToRel(<, Nat)
    BY NatLessThanWellFounded, WFMin
<1>2. \A k, m \in T : <<k, m>> \notin OpToRel(<, Nat) => m <= k
    BY DEF OpToRel
<1> QED
    BY <1>1, <1>2

\* Lowest finds the element of the lowest number.
LEMMA LowestFacts ==
    ASSUME NEW S, S # {}, \A s \in S : s.no \in Nat
    PROVE  Lowest(S) \in S /\ \A s \in S : Lowest(S).no <= s.no
<1>1. PICK m \in {s.no : s \in S} : \A k \in {s.no : s \in S} : m <= k
    <2> DEFINE T == {s.no : s \in S}
    <2>1. T \subseteq Nat /\ T # {}
        OBVIOUS
    <2> HIDE DEF T
    <2>2. \E m \in T : \A k \in T : m <= k
        BY <2>1, LeastNumber
    <2> QED
        BY <2>2 DEF T
<1>2. \E r \in S : \A s \in S : r.no <= s.no
    BY <1>1
<1> QED
    BY <1>2 DEF Lowest

\* Highest finds the element of the highest number of a finite set: the one
\* with the fewest elements above it.
LEMMA HighestFacts ==
    ASSUME NEW S, IsFiniteSet(S), S # {}, \A s \in S : s.no \in Nat
    PROVE  Highest(S) \in S /\ \A s \in S : s.no <= Highest(S).no
<1> DEFINE A == [r \in S |-> {s \in S : s.no > r.no}]
           C == [r \in S |-> Cardinality(A[r])]
           T == {C[r] : r \in S}
<1>1. \A r \in S : A[r] \in SUBSET S /\ IsFiniteSet(A[r]) /\ C[r] \in Nat
    <2>1. TAKE r \in S
    <2>2. A[r] \in SUBSET S
        OBVIOUS
    <2> QED
        BY <2>2, FS_Subset, FS_CardinalityType
<1>2. \A r, s \in S : s.no > r.no => C[s] < C[r]
    <2> SUFFICES ASSUME NEW r \in S, NEW s \in S, s.no > r.no
                 PROVE  C[s] < C[r]
        OBVIOUS
    <2>1. A[s] \subseteq A[r] /\ s \in A[r] /\ s \notin A[s]
        OBVIOUS
    <2> HIDE DEF A
    <2>2. /\ Cardinality(A[s]) <= Cardinality(A[r])
          /\ Cardinality(A[r]) # Cardinality(A[s])
        BY <1>1, <2>1, FS_Subset
    <2> QED
        BY <1>1, <2>2
<1>3. T \subseteq Nat /\ T # {}
    BY <1>1
<1>4. \E m \in T : \A k \in T : m <= k
    <2> HIDE DEF T
    <2> QED
        BY <1>3, LeastNumber
<1>5. \E r \in S : \A s \in S : C[r] <= C[s]
    BY <1>4
<1> HIDE DEF A, C, T
<1>6. \E r \in S : \A s \in S : s.no <= r.no
    <2>1. PICK r \in S : \A s \in S : C[r] <= C[s]
        BY <1>5
    <2>2. \A s \in S : ~(s.no > r.no)
        BY <1>1, <1>2, <2>1
    <2> QED
        BY <2>2
<1> QED
    BY <1>6 DEF Highest

-----------------------------------------------------------------------------
(* The window.                                                             *)

\* The window is an initial part of the ledger from the anchor on, and two
\* rows or more reach past the anchor if the ledger does.
LEMMA WindowFacts ==
    ASSUME NEW rows, IsLedger(rows), NEW anchor, IsPoint(anchor),
           NEW limit \in Nat, limit >= 2
    PROVE  LET window == Window(rows, anchor, limit)
           IN  /\ window \subseteq rows
               /\ IsFiniteSet(window)
               /\ \A r \in window : r.no >= anchor.no
               /\ \A r \in window : \A s \in rows :
                     anchor.no <= s.no /\ s.no <= r.no => s \in window
               /\ \A r \in rows : r.no = anchor.no => r \in window
               /\ (\E r \in rows : r.no > anchor.no)
                     => \E r \in window : r.no > anchor.no
<1> DEFINE B == [r \in rows |-> {s \in rows : anchor.no <= s.no /\ s.no < r.no}]
           C == [r \in rows |-> Cardinality(B[r])]
           window == {r \in rows : r.no >= anchor.no /\ C[r] < limit}
<1>1. Window(rows, anchor, limit) = window
    BY DEF Window
<1>2. \A r \in rows : B[r] \in SUBSET rows /\ IsFiniteSet(B[r]) /\ C[r] \in Nat
    <2>1. TAKE r \in rows
    <2>2. B[r] \in SUBSET rows
        OBVIOUS
    <2> QED
        BY <2>2, FS_Subset, FS_CardinalityType DEF IsLedger
<1>3. \A r \in rows : r.no \in Nat
    BY DEF IsLedger
<1>4. anchor.no \in Nat
    BY DEF IsPoint
<1>5. window \subseteq rows /\ IsFiniteSet(window)
    <2>1. window \in SUBSET rows
        OBVIOUS
    <2> HIDE DEF window
    <2> QED
        BY <2>1, FS_Subset DEF IsLedger
<1>6. \A r, s \in rows : s.no <= r.no => C[s] <= C[r]
    <2> SUFFICES ASSUME NEW r \in rows, NEW s \in rows, s.no <= r.no
                 PROVE  C[s] <= C[r]
        OBVIOUS
    <2>1. B[s] \in SUBSET B[r]
        BY <1>3, <1>4
    <2>2. IsFiniteSet(B[r])
        BY <1>2
    <2> HIDE DEF B
    <2> QED
        BY <2>1, <2>2, FS_Subset
<1>7. \A r \in rows : r.no = anchor.no => C[r] = 0
    <2> SUFFICES ASSUME NEW r \in rows, r.no = anchor.no
                 PROVE  C[r] = 0
        OBVIOUS
    <2>1. B[r] = {}
        BY <1>3, <1>4
    <2> HIDE DEF B
    <2> QED
        BY <2>1, FS_EmptySet
<1>8. ASSUME \E r \in rows : r.no > anchor.no
      PROVE  \E r \in window : r.no > anchor.no
    <2> DEFINE later == {r \in rows : r.no > anchor.no}
    <2>1. later # {} /\ \A r \in later : r.no \in Nat
        BY <1>3, <1>8
    <2>2. PICK r \in later : \A s \in later : r.no <= s.no
        <3> HIDE DEF later
        <3> QED
            BY <2>1, LowestFacts
    <2>3. \A s, t \in B[r] : s = t
        <3> SUFFICES ASSUME NEW s \in B[r], NEW t \in B[r]
                     PROVE  s = t
            OBVIOUS
        <3>1. s \in rows /\ t \in rows /\ s.no = anchor.no /\ t.no = anchor.no
            BY <1>3, <1>4, <2>2
        <3> QED
            BY <3>1 DEF IsLedger
    <2>4. C[r] <= 1
        <3>1. r \in rows
            BY <2>2
        <3> HIDE DEF B, later
        <3>2. B[r] = {} \/ \E s : B[r] = {s}
            BY <2>3
        <3>3. Cardinality(B[r]) = 0 \/ Cardinality(B[r]) = 1
            BY <3>2, FS_EmptySet, FS_Singleton
        <3> QED
            BY <3>1, <3>3
    <2>5. r.no >= anchor.no /\ C[r] < limit
        <3>1. r \in rows /\ r.no > anchor.no
            BY <2>2
        <3> HIDE DEF B, C, later
        <3>2. r.no \in Nat /\ C[r] \in Nat
            BY <1>2, <1>3, <3>1
        <3> QED
            BY <1>4, <2>4, <3>1, <3>2
    <2> QED
        BY <2>2, <2>5
<1> HIDE DEF B, C
<1>9. \A r \in window : \A s \in rows :
         anchor.no <= s.no /\ s.no <= r.no => s \in window
    BY <1>2, <1>3, <1>4, <1>6
<1>10. \A r \in rows : r.no = anchor.no => r \in window
    BY <1>3, <1>4, <1>7
<1> QED
    BY <1>1, <1>5, <1>8, <1>9, <1>10

-----------------------------------------------------------------------------
(* Rows and what they are compared with.                                   *)

\* A window as WindowFacts describes it.
IsWindow(window, anchor) ==
    /\ IsFiniteSet(window)
    /\ \A r \in window : /\ r.no \in Nat /\ r.amount \in Int /\ r.balance \in Int
                         /\ r.no >= anchor.no

\* The predecessor of a row is the row before it in the window; the first one
\* has the anchor.
LEMMA PredecessorFacts ==
    ASSUME NEW window, NEW anchor, IsPoint(anchor), IsWindow(window, anchor),
           NEW r \in window
    PROVE  LET p == Predecessor(window, anchor, r)
           IN  \/ /\ p = Point(anchor)
                  /\ \A s \in window : s.no >= r.no
               \/ \E s \in window :
                     /\ p = Point(s)
                     /\ s.no < r.no
                     /\ \A t \in window : t.no < r.no => t.no <= s.no
<1> DEFINE before == {s \in window : s.no < r.no}
<1>1. before \in SUBSET window /\ \A s \in before : s.no \in Nat
    BY DEF IsWindow
<1>2. IsFiniteSet(before)
    BY <1>1, FS_Subset DEF IsWindow
<1>3. CASE before = {}
    <2>1. Predecessor(window, anchor, r) = Point(anchor)
        BY <1>3 DEF Predecessor, Point
    <2>2. \A s \in window : ~(s.no < r.no)
        BY <1>3
    <2> QED
        BY <2>1, <2>2 DEF IsWindow
<1>4. CASE before # {}
    <2>1. Highest(before) \in before /\ \A t \in before : t.no <= Highest(before).no
        <3> HIDE DEF before
        <3> QED
            BY <1>1, <1>2, <1>4, HighestFacts
    <2>2. PICK s : s = Highest(before)
        OBVIOUS
    <2>3. Predecessor(window, anchor, r) = Point(s)
        BY <1>4, <2>2 DEF Predecessor, Point
    <2>4. s \in window /\ s.no < r.no /\ \A t \in window : t.no < r.no => t.no <= s.no
        BY <2>1, <2>2
    <2> QED
        BY <2>3, <2>4
<1> QED
    BY <1>3, <1>4

\* A predecessor is a point of the ledger between the anchor and its row.
LEMMA PredecessorType ==
    ASSUME NEW window, NEW anchor, IsPoint(anchor), IsWindow(window, anchor),
           NEW r \in window
    PROVE  LET p == Predecessor(window, anchor, r)
           IN  /\ IsPoint(p)
               /\ anchor.no <= p.no /\ p.no <= r.no
               /\ r.no > anchor.no => p.no < r.no
               /\ r.no = anchor.no => p = Point(anchor)
<1>1. PICK p : p = Predecessor(window, anchor, r)
    OBVIOUS
<1>2. CASE p = Point(anchor)
    BY <1>1, <1>2 DEF IsPoint, IsWindow, Point
<1>3. CASE \E s \in window : p = Point(s) /\ s.no < r.no
    <2>1. PICK s \in window : p = Point(s) /\ s.no < r.no
        BY <1>3
    <2>2. /\ s.no \in Nat /\ s.balance \in Int /\ anchor.no <= s.no
          /\ r.no \in Nat /\ anchor.no \in Nat
        BY DEF IsWindow, IsPoint
    <2>3. p.no = s.no /\ p.balance = s.balance /\ IsPoint(p)
        BY <2>1, <2>2 DEF Point, IsPoint
    <2> QED
        BY <1>1, <2>1, <2>2, <2>3
<1> QED
    BY <1>1, <1>2, <1>3, PredecessorFacts

BreakKinds == {"gap", "balance", "gap_balance", "anchor_balance"}

\* A row is in order if and only if it repeats the anchor or continues its
\* predecessor; only the anchor's own row breaks the anchor.
LEMMA KindFacts ==
    ASSUME NEW anchor, IsPoint(anchor), NEW p, IsPoint(p), NEW r, r.no \in Nat,
           r.no >= anchor.no
    PROVE  /\ Kind(anchor, r, p) \in BreakKinds \cup {"none"}
           /\ r.no = anchor.no =>
                 /\ Kind(anchor, r, p) = "none" <=> r.balance = anchor.balance
                 /\ Kind(anchor, r, p) # "none" => Kind(anchor, r, p) = "anchor_balance"
           /\ r.no > anchor.no =>
                 /\ Kind(anchor, r, p) = "none" <=>
                       r.no = p.no + 1 /\ r.balance = p.balance + r.amount
                 /\ Kind(anchor, r, p) # "anchor_balance"
                 /\ Kind(anchor, r, p) \in {"gap", "gap_balance"} <=> r.no # p.no + 1
<1>1. anchor.no \in Nat
    BY DEF IsPoint
<1>2. CASE r.no = anchor.no
    <2>1. ~(r.no > anchor.no)
        BY <1>1, <1>2
    <2> QED
        BY <1>2, <2>1 DEF Kind, BreakKinds
<1>3. CASE r.no > anchor.no
    <2>1. r.no # anchor.no
        BY <1>1, <1>3
    <2>2. Kind(anchor, r, p) =
             IF r.no # p.no + 1
             THEN IF r.balance # p.balance + r.amount THEN "gap_balance" ELSE "gap"
             ELSE IF r.balance # p.balance + r.amount THEN "balance" ELSE "none"
        BY <1>3, <2>1 DEF Kind
    <2> QED
        BY <1>3, <2>1, <2>2 DEF BreakKinds
<1> QED
    BY <1>1, <1>2, <1>3

InOrder(window, anchor, r) == Kind(anchor, r, Predecessor(window, anchor, r)) = "none"

\* The first break is the flag of the first row that is not in order.
LEMMA BreakFacts ==
    ASSUME NEW window, NEW anchor, IsPoint(anchor), IsWindow(window, anchor)
    PROVE  \/ /\ FirstBreak(window, anchor) = NoBreak
              /\ \A r \in window : InOrder(window, anchor, r)
           \/ \E r \in window :
                 /\ FirstBreak(window, anchor)
                       = Flag(anchor, r, Predecessor(window, anchor, r))
                 /\ ~InOrder(window, anchor, r)
                 /\ \A s \in window : s.no < r.no => InOrder(window, anchor, s)
<1> DEFINE P == [r \in window |-> Predecessor(window, anchor, r)]
           F == [r \in window |-> Flag(anchor, r, P[r])]
           bad == {r \in window : ~InOrder(window, anchor, r)}
           breaks == {f \in Flagged(window, anchor) : f.kind # "none"}
<1>1. \A r \in window : F[r].no = r.no /\ F[r].kind = Kind(anchor, r, P[r])
    BY DEF Flag
<1>2. \A r \in window : F[r].kind = "none" <=> InOrder(window, anchor, r)
    BY DEF Flag, InOrder
<1>3. Flagged(window, anchor) = {F[r] : r \in window}
    BY DEF Flagged
<1>4. FirstBreak(window, anchor) = IF breaks = {} THEN NoBreak ELSE Lowest(breaks)
    BY DEF FirstBreak
<1>5. \A r \in window : F[r] = Flag(anchor, r, Predecessor(window, anchor, r))
    OBVIOUS
<1>6. \A r \in window : r.no \in Nat
    BY DEF IsWindow
<1> HIDE DEF P, F
<1>7. breaks = {F[r] : r \in bad}
    BY <1>2, <1>3
<1>8. CASE breaks = {}
    <2>1. bad = {}
        BY <1>7, <1>8
    <2> QED
        BY <1>4, <1>8, <2>1
<1>9. CASE breaks # {}
    <2>1. \A f \in breaks : f.no \in Nat
        BY <1>1, <1>6, <1>7
    <2>2. Lowest(breaks) \in breaks /\ \A f \in breaks : Lowest(breaks).no <= f.no
        <3> HIDE DEF breaks
        <3> QED
            BY <1>9, <2>1, LowestFacts
    <2>3. PICK f : f = Lowest(breaks)
        OBVIOUS
    <2>4. PICK r \in bad : f = F[r]
        BY <1>7, <2>2, <2>3
    <2>5. \A s \in bad : r.no <= s.no
        BY <1>1, <1>7, <2>2, <2>3, <2>4
    <2>6. \A s \in window : s.no < r.no => InOrder(window, anchor, s)
        BY <1>6, <2>4, <2>5
    <2>7. FirstBreak(window, anchor) = Flag(anchor, r, Predecessor(window, anchor, r))
        BY <1>4, <1>5, <1>9, <2>3, <2>4
    <2> QED
        BY <2>4, <2>6, <2>7
<1> QED
    BY <1>8, <1>9

\* What the verifier writes after a query with a row past the anchor: without
\* a break a checkpoint at a row past the anchor; with one, an incident at
\* the broken row and, if any, a checkpoint at a row between the two.
LEMMA VerifyFacts ==
    ASSUME NEW rows, IsLedger(rows), NEW anchor, IsPoint(anchor),
           NEW limit \in Nat, limit >= 2, \E r \in rows : r.no > anchor.no
    PROVE  LET found == Verify(rows, anchor, limit)
           IN  /\ found.anchor = anchor.no
               /\ IsPoint(found.lastGood)
               /\ found.lastGood.no >= anchor.no
               /\ ShouldCheckpoint(found) =>
                     \E r \in rows : found.lastGood = Point(r)
               /\ found.break = NoBreak => ShouldCheckpoint(found)
               /\ found.break # NoBreak =>
                     /\ found.break.kind \in BreakKinds
                     /\ found.lastGood.no <= found.break.no
                     /\ ShouldCheckpoint(found) => found.lastGood.no < found.break.no
                     /\ \E r \in rows : r.no = found.break.no /\ r.no >= anchor.no
<1>w. PICK window : window = Window(rows, anchor, limit)
    OBVIOUS
<1>b. PICK break : break = FirstBreak(window, anchor)
    OBVIOUS
<1>f. PICK found : found = Verify(rows, anchor, limit)
    OBVIOUS
<1>1. /\ window \subseteq rows /\ IsFiniteSet(window)
      /\ \A r \in window : r.no >= anchor.no
      /\ \E r \in window : r.no > anchor.no
    BY <1>w, WindowFacts
<1>2. anchor.no \in Nat /\ anchor.balance \in Int
    BY DEF IsPoint
<1>3. IsWindow(window, anchor)
    BY <1>1 DEF IsLedger, IsWindow
<1>4. /\ found.anchor = anchor.no
      /\ found.break = break
      /\ found.lastGood = LastGood(window, break)
    BY <1>w, <1>b, <1>f DEF Verify
<1>5. \A r \in rows : r.no \in Nat /\ r.balance \in Int
    BY DEF IsLedger
<1>6. CASE break = NoBreak
    <2>1. /\ Highest(window) \in window
          /\ \A s \in window : s.no <= Highest(window).no
        BY <1>1, <1>5, HighestFacts
    <2>2. PICK r : r = Highest(window)
        OBVIOUS
    <2>3. r \in rows /\ r.no > anchor.no
        BY <1>1, <1>2, <1>5, <2>1, <2>2
    <2>4. found.lastGood = Point(r)
        BY <1>4, <1>6, <2>2 DEF LastGood, Point
    <2>5. IsPoint(Point(r)) /\ Point(r).no = r.no
        BY <1>5, <2>3 DEF IsPoint, Point
    <2> QED
        BY <1>f, <1>2, <1>4, <1>5, <1>6, <2>3, <2>4, <2>5 DEF ShouldCheckpoint
<1>7. ASSUME NEW r \in window,
             break = Flag(anchor, r, Predecessor(window, anchor, r)),
             ~InOrder(window, anchor, r)
      PROVE  /\ IsPoint(found.lastGood)
             /\ found.lastGood.no >= anchor.no
             /\ ShouldCheckpoint(found) =>
                   \E s \in rows : found.lastGood = Point(s)
             /\ found.break # NoBreak
             /\ found.break.kind \in BreakKinds
             /\ found.lastGood.no <= found.break.no
             /\ ShouldCheckpoint(found) => found.lastGood.no < found.break.no
             /\ \E s \in rows : s.no = found.break.no /\ s.no >= anchor.no
    <2>1. PICK p : p = Predecessor(window, anchor, r)
        OBVIOUS
    <2>2. /\ IsPoint(p) /\ anchor.no <= p.no /\ p.no <= r.no
          /\ r.no > anchor.no => p.no < r.no
          /\ r.no = anchor.no => p = Point(anchor)
        BY <1>3, <2>1, PredecessorType
    <2>3. r \in rows /\ r.no \in Nat /\ r.no >= anchor.no
        BY <1>1, <1>5
    <2>4. Kind(anchor, r, p) \in BreakKinds
        BY <1>7, <2>1, <2>2, <2>3, KindFacts DEF InOrder
    <2>5. found.break = [no |-> r.no, kind |-> Kind(anchor, r, p), prev |-> p.no,
                         prevBalance |-> p.balance]
        BY <1>4, <1>7, <2>1 DEF Flag
    <2>6. found.break # NoBreak
        <3>1. NoBreak.kind = "none"
            BY DEF NoBreak
        <3> QED
            BY <2>4, <2>5, <3>1 DEF BreakKinds
    <2>7. found.lastGood = Point(p) /\ Point(p) = p
        <3>1. Point(p) = p
            BY <2>2 DEF IsPoint, Point
        <3> QED
            BY <1>4, <2>5, <2>6, <3>1 DEF LastGood, Point
    <2>8. ASSUME ShouldCheckpoint(found)
          PROVE  p.no > anchor.no
        BY <1>4, <2>7, <2>8 DEF ShouldCheckpoint
    <2>9. p.no > anchor.no => \E s \in rows : p = Point(s)
        <3>1. Point(anchor).no = anchor.no
            BY DEF Point
        <3> QED
            BY <1>1, <1>2, <1>3, <2>1, <3>1, PredecessorFacts
    <2>10. p.no > anchor.no => p.no < r.no
        BY <1>2, <2>2, <2>3 DEF IsPoint
    <2> QED
        BY <2>2, <2>3, <2>4, <2>5, <2>6, <2>7, <2>8, <2>9, <2>10
<1> QED
    BY <1>b, <1>f, <1>3, <1>4, <1>6, <1>7, BreakFacts

\* What row r has to be compared with: the row before it if there is one,
\* the anchor if there is none.
LEMMA PredecessorIsNext ==
    ASSUME NEW rows, IsLedger(rows), NEW anchor, IsPoint(anchor),
           NEW limit \in Nat, limit >= 2,
           \A r \in rows : r.no = anchor.no => r.balance = anchor.balance,
           NEW r \in Window(rows, anchor, limit), NEW q, IsPoint(q), r.no = q.no + 1,
           q = Point(anchor) \/ \E s \in rows : q = Point(s) /\ s.no >= anchor.no
    PROVE  Predecessor(Window(rows, anchor, limit), anchor, r) = q
<1>w. PICK window : window = Window(rows, anchor, limit)
    OBVIOUS
<1>1. PICK p : p = Predecessor(window, anchor, r)
    OBVIOUS
<1>2. /\ window \subseteq rows /\ IsFiniteSet(window)
      /\ \A s \in window : s.no >= anchor.no
      /\ \A t \in window : \A s \in rows :
            anchor.no <= s.no /\ s.no <= t.no => s \in window
    BY <1>w, WindowFacts
<1>3. IsWindow(window, anchor)
    BY <1>2 DEF IsLedger, IsWindow
<1>4. /\ anchor.no \in Nat /\ q.no \in Nat
      /\ \A s \in rows : s.no \in Nat
    BY DEF IsPoint, IsLedger
<1>5. r \in window
    BY <1>w
<1>6. q.no >= anchor.no
    BY <1>4 DEF Point
<1>7. \A s \in window : s.no = q.no => Point(s) = q
    <2> SUFFICES ASSUME NEW s \in window, s.no = q.no
                 PROVE  Point(s) = q
        OBVIOUS
    <2>1. CASE q = Point(anchor)
        <3>1. s.no = anchor.no /\ s.balance = anchor.balance
            BY <1>2, <2>1 DEF Point
        <3> QED
            BY <2>1, <3>1 DEF Point
    <2>2. CASE \E t \in rows : q = Point(t)
        <3>1. PICK t \in rows : q = Point(t)
            BY <2>2
        <3>2. s = t
            BY <1>2, <3>1 DEF Point, IsLedger
        <3> QED
            BY <3>1, <3>2
    <2> QED
        BY <2>1, <2>2
<1>8. CASE p = Point(anchor) /\ \A s \in window : s.no >= r.no
    <2>1. ASSUME NEW s \in rows, q = Point(s), s.no >= anchor.no
          PROVE  FALSE
        <3>1. s.no = q.no
            BY <2>1 DEF Point
        <3>2. s \in window
            BY <1>2, <1>4, <1>5, <2>1, <3>1
        <3> QED
            BY <1>4, <1>8, <3>1, <3>2
    <2> QED
        BY <1>w, <1>1, <1>8, <2>1
<1>9. ASSUME NEW s \in window, p = Point(s), s.no < r.no,
             \A t \in window : t.no < r.no => t.no <= s.no
      PROVE  p = q
    <2>1. q.no = s.no
        <3>1. s.no <= q.no
            BY <1>2, <1>4, <1>9
        <3>2. CASE q = Point(anchor)
            BY <1>2, <1>4, <3>1, <3>2 DEF Point
        <3>3. ASSUME NEW t \in rows, q = Point(t), t.no >= anchor.no
              PROVE  q.no <= s.no
            <4>1. t.no = q.no
                BY <3>3 DEF Point
            <4>2. t \in window
                BY <1>2, <1>4, <1>5, <3>3, <4>1
            <4> QED
                BY <1>4, <1>9, <4>1, <4>2
        <3> QED
            BY <1>2, <1>4, <3>1, <3>2, <3>3
    <2> QED
        BY <1>7, <1>9, <2>1
<1> QED
    BY <1>w, <1>1, <1>3, <1>5, <1>8, <1>9, PredecessorFacts

\* A chain without a break: the anchor repeats a row, if there is one at its
\* number, and every row past the anchor follows the anchor or another row.
LEMMA ChainHasNoBreak ==
    ASSUME NEW rows, IsLedger(rows), NEW anchor, IsPoint(anchor),
           NEW limit \in Nat, limit >= 2,
           \A r \in rows : r.no = anchor.no => r.balance = anchor.balance,
           \A r \in rows : r.no > anchor.no =>
               \E q : /\ q = Point(anchor) \/ \E s \in rows : q = Point(s) /\ s.no >= anchor.no
                      /\ r.no = q.no + 1 /\ r.balance = q.balance + r.amount
    PROVE  Verify(rows, anchor, limit).break = NoBreak
<1>w. PICK window : window = Window(rows, anchor, limit)
    OBVIOUS
<1>1. /\ window \subseteq rows /\ IsFiniteSet(window)
      /\ \A r \in window : r.no >= anchor.no
    BY <1>w, WindowFacts
<1>2. IsWindow(window, anchor)
    BY <1>1 DEF IsLedger, IsWindow
<1>3. ASSUME NEW r \in window
      PROVE  InOrder(window, anchor, r)
    <2>1. PICK p : p = Predecessor(window, anchor, r)
        OBVIOUS
    <2>2. IsPoint(p)
        BY <1>2, <2>1, PredecessorType
    <2>3. r \in rows /\ r.no \in Nat /\ r.no >= anchor.no /\ anchor.no \in Nat
        BY <1>1 DEF IsLedger, IsPoint
    <2>4. CASE r.no = anchor.no
        <3>1. Kind(anchor, r, p) = "none"
            BY <2>2, <2>3, <2>4, KindFacts
        <3> QED
            BY <2>1, <3>1 DEF InOrder
    <2>5. CASE r.no > anchor.no
        <3>1. PICK q : /\ \/ q = Point(anchor)
                          \/ \E s \in rows : q = Point(s) /\ s.no >= anchor.no
                       /\ r.no = q.no + 1 /\ r.balance = q.balance + r.amount
            BY <2>3, <2>5
        <3>2. IsPoint(q)
            BY <3>1 DEF IsPoint, IsLedger, Point
        <3>3. p = q
            BY <1>w, <2>1, <3>1, <3>2, PredecessorIsNext
        <3>4. Kind(anchor, r, p) = "none"
            BY <2>2, <2>3, <2>5, <3>1, <3>3, KindFacts
        <3> QED
            BY <2>1, <3>4 DEF InOrder
    <2> QED
        BY <2>3, <2>4, <2>5
<1>4. FirstBreak(window, anchor) = NoBreak
    BY <1>2, <1>3, BreakFacts
<1> QED
    BY <1>w, <1>4 DEF Verify

=============================================================================
