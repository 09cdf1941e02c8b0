-------------------------- MODULE ChainQueryProofs --------------------------
(***************************************************************************)
(* Proofs about ChainQuery, for ledgers of any length and any amounts: the *)
(* query, which compares every row with the row before it in a window,     *)
(* finds exactly what the reference, which adds up the amounts from the    *)
(* anchor on, says of the chain.                                           *)
(*                                                                         *)
(* HoldsToIsInOrder carries the argument: at a row of the window the chain *)
(* holds if and only if no row up to it is flagged.                        *)
(***************************************************************************)
EXTENDS ChainQuery, ChainCheckProofs

\* What a query ranges over.
QueryOK ==
    /\ IsLedger(rows)
    /\ \A r \in rows : r.no \in 1 .. MaxNo
    /\ IsPoint(anchor)
    /\ anchor.no <= MaxNo
    /\ limit \in Nat /\ limit >= 2
    /\ \E r \in rows : r.no > anchor.no

\* A state is a query that has no answer or the one of Verify.
Inv == QueryOK /\ answers \subseteq {Verify(rows, anchor, limit)}

-----------------------------------------------------------------------------
(* The running balance of the reference.                                   *)

\* What the definition of BalanceAt asks of a function on 0 .. n.
Running(g, n) ==
    /\ g \in [0 .. n -> Int]
    /\ \A m \in 0 .. n :
          g[m] = IF m <= anchor.no THEN anchor.balance ELSE g[m - 1] + AmountAt(m)

\* The amount at a number is the amount of its row.
LEMMA AmountFacts ==
    ASSUME QueryOK
    PROVE  /\ \A n : AmountAt(n) \in Int
           /\ \A r \in rows : AmountAt(r.no) = r.amount
<1>1. \A r \in rows : (CHOOSE s \in rows : s.no = r.no) = r
    BY DEF QueryOK, IsLedger
<1>2. \A r \in rows : AmountAt(r.no) = r.amount
    BY <1>1 DEF AmountAt
<1>3. \A r \in rows : r.amount \in Int
    BY DEF QueryOK, IsLedger
<1>4. \A n : AmountAt(n) \in Int
    <2>1. TAKE n
    <2>2. CASE \E r \in rows : r.no = n
        BY <1>2, <1>3, <2>2
    <2>3. CASE ~ \E r \in rows : r.no = n
        BY <2>3 DEF AmountAt
    <2> QED
        BY <2>2, <2>3
<1> QED
    BY <1>2, <1>4

\* BalanceAt is what its recursive definition says: otherwise there were a
\* least number up to which no such function exists.
LEMMA BalanceFacts ==
    ASSUME QueryOK
    PROVE  Running(BalanceAt, MaxNo)
<1> DEFINE Bad == {n \in 0 .. MaxNo : ~ \E g : Running(g, n)}
<1>1. MaxNo \in Nat
    BY QueryAssumption
<1>2. anchor.no \in Nat /\ anchor.balance \in Int
    BY DEF QueryOK, IsPoint
<1>3. \A n : AmountAt(n) \in Int
    BY AmountFacts
<1>4. Bad = {}
    <2> SUFFICES ASSUME Bad # {}
                 PROVE  FALSE
        OBVIOUS
    <2>1. Bad \subseteq Nat
        BY <1>1
    <2>2. PICK n \in Bad : \A k \in Bad : n <= k
        <3> HIDE DEF Bad
        <3> QED
            BY <2>1, LeastNumber
    <2>3. n \in 0 .. MaxNo /\ ~ \E g : Running(g, n)
        BY <2>2
    <2>4. CASE n = 0
        <3> DEFINE g == [m \in 0 .. 0 |-> anchor.balance]
        <3>1. Running(g, 0)
            BY <1>2 DEF Running
        <3> QED
            BY <2>3, <2>4, <3>1
    <2>5. CASE n # 0
        <3>1. n - 1 \in 0 .. MaxNo /\ n - 1 \notin Bad
            BY <1>1, <2>2, <2>3, <2>5
        <3>2. PICK h : Running(h, n - 1)
            BY <3>1
        <3> DEFINE g == [m \in 0 .. n |->
                            IF m = n
                            THEN IF n <= anchor.no THEN anchor.balance
                                                   ELSE h[n - 1] + AmountAt(n)
                            ELSE h[m]]
        <3>3. h[n - 1] \in Int
            BY <2>3, <2>5, <3>1, <3>2 DEF Running
        <3>4. \A m \in 0 .. n : g[m] \in Int
            BY <1>2, <1>3, <2>3, <3>2, <3>3 DEF Running
        <3>5. \A m \in 0 .. n :
                 g[m] = IF m <= anchor.no THEN anchor.balance ELSE g[m - 1] + AmountAt(m)
            <4>1. TAKE m \in 0 .. n
            <4>2. CASE m = n
                BY <1>2, <2>3, <2>5, <4>2
            <4>3. CASE m # n
                <5>1. m \in 0 .. n - 1 /\ g[m] = h[m]
                    BY <2>3, <4>3
                <5>2. ~(m <= anchor.no) => m - 1 \in 0 .. n - 1 /\ g[m - 1] = h[m - 1]
                    BY <1>2, <2>3, <4>3
                <5> QED
                    BY <3>2, <5>1, <5>2 DEF Running
            <4> QED
                BY <4>2, <4>3
        <3>6. g \in [0 .. n -> Int]
            BY <3>4
        <3> HIDE DEF g
        <3>7. Running(g, n)
            BY <3>5, <3>6 DEF Running
        <3> QED
            BY <2>3, <3>7
    <2> QED
        BY <2>4, <2>5
<1>5. PICK g : Running(g, MaxNo)
    BY <1>1, <1>4
<1> DEFINE Step(h) == [n \in 0 .. MaxNo |->
                          IF n <= anchor.no THEN anchor.balance
                                            ELSE h[n - 1] + AmountAt(n)]
<1>6. g = Step(g)
    BY <1>5 DEF Running
<1>7. BalanceAt = CHOOSE h : h = Step(h)
    BY DEF BalanceAt
<1>8. BalanceAt = Step(BalanceAt)
    <2> HIDE DEF Step
    <2> QED
        BY <1>6, <1>7
<1>9. \A m \in 0 .. MaxNo :
         BalanceAt[m] = IF m <= anchor.no THEN anchor.balance
                                          ELSE BalanceAt[m - 1] + AmountAt(m)
    BY <1>8
<1>10. \A m \in 0 .. MaxNo : BalanceAt[m] = g[m]
    <2> DEFINE T == {m \in 0 .. MaxNo : BalanceAt[m] # g[m]}
    <2> SUFFICES ASSUME T # {}
                 PROVE  FALSE
        OBVIOUS
    <2>1. T \subseteq Nat
        BY <1>1
    <2>2. PICK m \in T : \A k \in T : m <= k
        <3> HIDE DEF T
        <3> QED
            BY <2>1, LeastNumber
    <2>3. g[m] = IF m <= anchor.no THEN anchor.balance ELSE g[m - 1] + AmountAt(m)
        BY <1>5, <2>2 DEF Running
    <2>4. ~(m <= anchor.no) => m - 1 \in 0 .. MaxNo /\ m - 1 \notin T
        BY <1>1, <1>2, <2>1, <2>2
    <2> QED
        BY <1>9, <2>2, <2>3, <2>4
<1>11. DOMAIN BalanceAt = 0 .. MaxNo /\ BalanceAt = [m \in 0 .. MaxNo |-> BalanceAt[m]]
    BY <1>8
<1>12. \A m \in 0 .. MaxNo : BalanceAt[m] \in Int
    BY <1>5, <1>10 DEF Running
<1> QED
    BY <1>9, <1>11, <1>12 DEF Running

-----------------------------------------------------------------------------
(* The reference and the query.                                            *)

\* A row of the ledger where the chain holds has the reference's balance.
LEMMA HoldsAtRow ==
    ASSUME QueryOK, NEW r \in rows, r.no > anchor.no, HoldsTo(r.no)
    PROVE  r.balance = BalanceAt[r.no]
<1>1. r.no \in anchor.no + 1 .. r.no
    BY DEF QueryOK, IsPoint, IsLedger
<1>2. PICK s \in rows : s.no = r.no /\ s.balance = BalanceAt[r.no]
    BY <1>1 DEF HoldsTo
<1>3. s = r
    BY <1>2 DEF QueryOK, IsLedger
<1> QED
    BY <1>2, <1>3

\* If the chain holds right up to a row, the row is compared with the number
\* before it and the balance of the reference at that number.
LEMMA PredecessorAt ==
    ASSUME QueryOK, NEW r \in Window(rows, anchor, limit), r.no > anchor.no,
           AnchorOK,
           \A m \in anchor.no + 1 .. r.no - 1 :
              \E s \in rows : s.no = m /\ s.balance = BalanceAt[m]
    PROVE  Predecessor(Window(rows, anchor, limit), anchor, r)
              = [no |-> r.no - 1, balance |-> BalanceAt[r.no - 1]]
<1> DEFINE q == [no |-> r.no - 1, balance |-> BalanceAt[r.no - 1]]
<1>1. r \in rows /\ r.no \in 1 .. MaxNo /\ anchor.no \in Nat /\ MaxNo \in Nat
    BY WindowFacts, QueryAssumption DEF QueryOK, IsPoint
<1>2. IsPoint(q) /\ r.no = q.no + 1
    <2>1. r.no - 1 \in 0 .. MaxNo
        BY <1>1
    <2>2. BalanceAt[r.no - 1] \in Int
        BY <2>1, BalanceFacts DEF Running
    <2> QED
        BY <1>1, <2>2 DEF IsPoint
<1>3. q = Point(anchor) \/ \E s \in rows : q = Point(s) /\ s.no >= anchor.no
    <2>1. CASE r.no - 1 = anchor.no
        <3>1. r.no - 1 \in 0 .. MaxNo /\ r.no - 1 <= anchor.no
            BY <1>1, <2>1
        <3>2. BalanceAt[r.no - 1] = anchor.balance
            BY <3>1, BalanceFacts DEF Running
        <3> QED
            BY <2>1, <3>2 DEF Point
    <2>2. CASE r.no - 1 # anchor.no
        <3>1. r.no - 1 \in anchor.no + 1 .. r.no - 1
            BY <1>1, <2>2
        <3>2. PICK s \in rows : s.no = r.no - 1 /\ s.balance = BalanceAt[r.no - 1]
            BY <3>1
        <3> QED
            BY <1>1, <3>1, <3>2 DEF Point
    <2> QED
        BY <2>1, <2>2
<1> HIDE DEF q
<1>4. Predecessor(Window(rows, anchor, limit), anchor, r) = q
    BY <1>2, <1>3, PredecessorIsNext DEF QueryOK, AnchorOK
<1> QED
    BY <1>4 DEF q

\* At a row of the window the chain holds if and only if no row up to it is
\* flagged: what the query finds locally, row by row, is the global chain.
LEMMA HoldsToIsInOrder ==
    ASSUME QueryOK, NEW window, window = Window(rows, anchor, limit), NEW r \in window
    PROVE  HoldsTo(r.no) <=>
              \A s \in window : s.no <= r.no => InOrder(window, anchor, s)
<1>1. /\ window \subseteq rows /\ IsFiniteSet(window)
      /\ \A s \in window : s.no >= anchor.no
      /\ \A t \in window : \A s \in rows :
            anchor.no <= s.no /\ s.no <= t.no => s \in window
      /\ \A s \in rows : s.no = anchor.no => s \in window
    BY WindowFacts DEF QueryOK
<1>2. IsWindow(window, anchor)
    BY <1>1 DEF QueryOK, IsLedger, IsWindow
<1>3. /\ anchor.no \in Nat /\ MaxNo \in Nat
      /\ \A s \in rows : s.no \in 1 .. MaxNo
    BY QueryAssumption DEF QueryOK, IsPoint
<1>4. IsPoint(anchor)
    BY DEF QueryOK
<1>5. \A s \in window : IsPoint(Predecessor(window, anchor, s))
    BY <1>2, <1>4, PredecessorType
<1>6. ASSUME NEW s \in window, s.no > anchor.no, AnchorOK,
             \A m \in anchor.no + 1 .. s.no - 1 :
                \E t \in rows : t.no = m /\ t.balance = BalanceAt[m]
      PROVE  InOrder(window, anchor, s) <=> s.balance = BalanceAt[s.no]
    <2>1. PICK p : p = Predecessor(window, anchor, s)
        OBVIOUS
    <2>2. p = [no |-> s.no - 1, balance |-> BalanceAt[s.no - 1]]
        BY <1>6, <2>1, PredecessorAt
    <2>3. s \in rows /\ s.no \in 0 .. MaxNo /\ ~(s.no <= anchor.no)
        BY <1>1, <1>3, <1>6
    <2>4. BalanceAt[s.no] = BalanceAt[s.no - 1] + s.amount
        BY <2>3, BalanceFacts, AmountFacts DEF Running
    <2>5. Kind(anchor, s, p) = "none" <=>
             s.no = p.no + 1 /\ s.balance = p.balance + s.amount
        BY <1>3, <1>4, <1>5, <1>6, <2>1, <2>3, KindFacts
    <2> QED
        BY <2>1, <2>2, <2>3, <2>4, <2>5 DEF InOrder
<1>7. ASSUME NEW s \in window, s.no = anchor.no
      PROVE  InOrder(window, anchor, s) <=> s.balance = anchor.balance
    <2>1. s.no \in Nat /\ s.no >= anchor.no
        BY <1>1, <1>3
    <2> QED
        BY <1>4, <1>5, <1>7, <2>1, KindFacts DEF InOrder
<1>8. ASSUME HoldsTo(r.no), NEW s \in window, s.no <= r.no
      PROVE  InOrder(window, anchor, s)
    <2>1. AnchorOK
        BY <1>8 DEF HoldsTo
    <2>2. s \in rows /\ r \in rows /\ s.no >= anchor.no
        BY <1>1
    <2>3. CASE s.no = anchor.no
        BY <1>7, <2>1, <2>2, <2>3 DEF AnchorOK
    <2>4. CASE s.no > anchor.no
        <3>1. anchor.no + 1 .. s.no \subseteq anchor.no + 1 .. r.no
            BY <1>3, <1>8, <2>2
        <3>2. HoldsTo(s.no)
            BY <1>8, <3>1 DEF HoldsTo
        <3>3. s.balance = BalanceAt[s.no]
            BY <2>2, <2>4, <3>2, HoldsAtRow
        <3>4. \A m \in anchor.no + 1 .. s.no - 1 : m \in anchor.no + 1 .. s.no
            BY <1>3, <2>2
        <3>5. \A m \in anchor.no + 1 .. s.no - 1 :
                 \E t \in rows : t.no = m /\ t.balance = BalanceAt[m]
            BY <3>2, <3>4 DEF HoldsTo
        <3> QED
            BY <1>6, <2>1, <2>4, <3>3, <3>5
    <2> QED
        BY <1>3, <2>2, <2>3, <2>4
<1>9. ASSUME \A s \in window : s.no <= r.no => InOrder(window, anchor, s)
      PROVE  HoldsTo(r.no)
    <2>1. AnchorOK
        <3> SUFFICES ASSUME NEW s \in rows, s.no = anchor.no
                     PROVE  s.balance = anchor.balance
            BY DEF AnchorOK
        <3>1. s \in window /\ s.no <= r.no
            BY <1>1, <1>3
        <3> QED
            BY <1>7, <1>9, <3>1
    <2> DEFINE Good(m) == \E t \in rows : t.no = m /\ t.balance = BalanceAt[m]
               T == {m \in anchor.no + 1 .. r.no : ~Good(m)}
    <2>2. CASE T = {}
        BY <2>1, <2>2 DEF HoldsTo
    <2>3. ASSUME T # {}
          PROVE  FALSE
        <3>1. T \subseteq Nat
            BY <1>1, <1>3
        <3>2. PICK m \in T : \A k \in T : m <= k
            <4> HIDE DEF T
            <4> QED
                BY <2>3, <3>1, LeastNumber
        <3>3. m \in anchor.no + 1 .. r.no /\ ~Good(m) /\ m \in Nat
            BY <3>1, <3>2
        <3>4. r \in rows /\ r.no \in Nat
            BY <1>1, <1>3
        <3>5. \A k \in anchor.no + 1 .. m - 1 : Good(k)
            BY <1>3, <3>2, <3>3, <3>4
        <3> HIDE DEF T, Good
        <3> DEFINE later == {s \in window : s.no >= m}
        <3>6. later # {} /\ \A s \in later : s.no \in Nat
            BY <1>1, <1>3, <3>3, <3>4
        <3>7. PICK u \in later : \A s \in later : u.no <= s.no
            <4> HIDE DEF later
            <4> QED
                BY <3>6, LowestFacts
        <3>8. u \in window /\ u \in rows /\ u.no \in Nat /\ u.no >= m /\ u.no > anchor.no
            BY <1>1, <1>3, <3>3, <3>7
        <3>9. u.no <= r.no
            BY <3>3, <3>4, <3>7
        <3>10. InOrder(window, anchor, u)
            BY <1>9, <3>8, <3>9
        <3>11. CASE u.no = m
            <4>1. u.balance = BalanceAt[u.no]
                BY <1>6, <2>1, <3>5, <3>8, <3>10, <3>11 DEF Good
            <4> QED
                BY <3>3, <3>8, <3>11, <4>1 DEF Good
        <3>12. CASE u.no # m
            <4>1. PICK p : p = Predecessor(window, anchor, u)
                OBVIOUS
            <4>2. u.no = p.no + 1
                <5>1. u.no >= anchor.no
                    BY <1>1, <3>8
                <5> QED
                    BY <1>4, <1>5, <3>8, <3>10, <4>1, <5>1, KindFacts DEF InOrder
            <4>3. IsPoint(p) /\ p.no >= m
                BY <1>5, <3>3, <3>8, <3>12, <4>1, <4>2 DEF IsPoint
            <4>4. Point(anchor).no = anchor.no
                BY DEF Point
            <4>5. p # Point(anchor)
                BY <1>3, <3>3, <3>4, <4>3, <4>4 DEF IsPoint
            <4>6. PICK s \in window : p = Point(s) /\ s.no < u.no
                BY <1>2, <1>4, <3>8, <4>1, <4>5, PredecessorFacts
            <4>7. s.no >= m
                BY <4>3, <4>6 DEF Point
            <4> QED
                BY <1>1, <1>3, <3>7, <3>8, <4>6, <4>7
        <3> QED
            BY <3>11, <3>12
    <2> QED
        BY <2>2, <2>3
<1> QED
    BY <1>8, <1>9

-----------------------------------------------------------------------------
(* The answer.                                                             *)

\* Max and Min of a set that has a greatest and a least number.
LEMMA MaxMinFacts ==
    ASSUME NEW S, S \subseteq Int, NEW x \in S
    PROVE  /\ (\A y \in S : y <= x) => Max(S) = x
           /\ (\A y \in S : x <= y) => Min(S) = x
<1>1. ASSUME \A y \in S : y <= x
      PROVE  Max(S) = x
    <2>1. \A z \in S : (\A y \in S : z >= y) => z = x
        BY <1>1
    <2>2. \A y \in S : x >= y
        BY <1>1
    <2> QED
        BY <2>1, <2>2 DEF Max
<1>2. ASSUME \A y \in S : x <= y
      PROVE  Min(S) = x
    <2>1. \A z \in S : (\A y \in S : z <= y) => z = x
        BY <1>2
    <2> QED
        BY <1>2, <2>1 DEF Min
<1> QED
    BY <1>1, <1>2

\* If no row is flagged, the chain holds to the end of the window, and that
\* is where the reference ends.
LEMMA UnbrokenAnswer ==
    ASSUME QueryOK, NEW window, window = Window(rows, anchor, limit),
           \A s \in window : InOrder(window, anchor, s)
    PROVE  /\ AnchorOK
           /\ \A n \in InWindow : HoldsTo(n)
           /\ ReferenceLastGood = Highest(window).no
           /\ Highest(window).balance = BalanceAt[ReferenceLastGood]
<1>1. /\ window \subseteq rows /\ IsFiniteSet(window)
      /\ \E s \in window : s.no > anchor.no
    BY WindowFacts DEF QueryOK
<1>2. /\ anchor.no \in Nat
      /\ \A s \in rows : s.no \in Nat
    BY DEF QueryOK, IsPoint, IsLedger
<1>3. \A n \in InWindow : HoldsTo(n)
    BY HoldsToIsInOrder DEF InWindow
<1>4. AnchorOK
    BY <1>1, <1>3 DEF InWindow, HoldsTo
<1>5. /\ Highest(window) \in window
      /\ \A s \in window : s.no <= Highest(window).no
    <2>1. window # {} /\ \A s \in window : s.no \in Nat
        BY <1>1, <1>2
    <2> QED
        BY <1>1, <2>1, HighestFacts
<1>6. PICK h : h = Highest(window)
    OBVIOUS
<1>7. h \in rows /\ h.no \in Nat /\ h.no > anchor.no /\ h.no \in InWindow
    BY <1>1, <1>2, <1>5, <1>6 DEF InWindow
<1>8. ReferenceLastGood = h.no
    <2> DEFINE S == {anchor.no} \cup {n \in InWindow : n > anchor.no /\ HoldsTo(n)}
    <2>1. S \subseteq Int /\ h.no \in S /\ \A y \in S : y <= h.no
        BY <1>1, <1>2, <1>3, <1>5, <1>6, <1>7 DEF InWindow
    <2>2. ReferenceLastGood = Max(S)
        BY <1>4 DEF ReferenceLastGood
    <2> HIDE DEF S
    <2> QED
        BY <2>1, <2>2, MaxMinFacts
<1>9. h.balance = BalanceAt[h.no]
    BY <1>3, <1>7, HoldsAtRow
<1> QED
    BY <1>3, <1>4, <1>6, <1>8, <1>9

\* If r is the first flagged row, it is where the chain breaks first, and the
\* reference ends at the predecessor of r.
LEMMA BrokenAnswer ==
    ASSUME QueryOK, NEW window, window = Window(rows, anchor, limit), NEW r \in window,
           ~InOrder(window, anchor, r),
           \A s \in window : s.no < r.no => InOrder(window, anchor, s),
           NEW p, p = Predecessor(window, anchor, r)
    PROVE  /\ r.no \in {n \in InWindow : ~HoldsTo(n)}
           /\ Min({n \in InWindow : ~HoldsTo(n)}) = r.no
           /\ Kind(anchor, r, p) = "anchor_balance" <=> ~AnchorOK
           /\ Kind(anchor, r, p) \in {"gap", "gap_balance"} <=>
                 AnchorOK /\ r.no # ReferenceLastGood + 1
           /\ p.no = ReferenceLastGood
           /\ p.balance = BalanceAt[ReferenceLastGood]
<1>1. /\ window \subseteq rows /\ IsFiniteSet(window)
      /\ \A s \in window : s.no >= anchor.no
      /\ \A s \in rows : s.no = anchor.no => s \in window
    BY WindowFacts DEF QueryOK
<1>2. /\ anchor.no \in Nat /\ anchor.no \in 0 .. MaxNo /\ MaxNo \in Nat
      /\ \A s \in rows : s.no \in Nat
    BY QueryAssumption DEF QueryOK, IsPoint, IsLedger
<1>3. IsWindow(window, anchor) /\ IsPoint(anchor)
    BY <1>1 DEF QueryOK, IsLedger, IsWindow
<1>4. /\ IsPoint(p) /\ anchor.no <= p.no /\ p.no <= r.no
      /\ r.no > anchor.no => p.no < r.no
      /\ r.no = anchor.no => p = Point(anchor)
    BY <1>3, PredecessorType
<1>5. r.no \in Nat /\ r.no >= anchor.no /\ r \in rows /\ p.no \in Nat
    BY <1>1, <1>2, <1>4 DEF IsPoint
<1>6. /\ \A s \in window : s.no < r.no => HoldsTo(s.no)
      /\ \A s \in window : r.no <= s.no => ~HoldsTo(s.no)
    <2>1. ASSUME NEW s \in window, s.no < r.no
          PROVE  HoldsTo(s.no)
        <3>1. s.no \in Nat /\ \A t \in window : t.no \in Nat
            BY <1>1, <1>2
        <3>2. \A t \in window : t.no <= s.no => InOrder(window, anchor, t)
            BY <1>5, <2>1, <3>1
        <3> QED
            BY <3>2, HoldsToIsInOrder
    <2>2. ASSUME NEW s \in window, r.no <= s.no
          PROVE  ~HoldsTo(s.no)
        BY <2>2, HoldsToIsInOrder
    <2> QED
        BY <2>1, <2>2
<1>7. r.no \in {n \in InWindow : ~HoldsTo(n)}
    BY <1>5, <1>6 DEF InWindow
<1>8. Min({n \in InWindow : ~HoldsTo(n)}) = r.no
    <2> DEFINE S == {n \in InWindow : ~HoldsTo(n)}
    <2>1. S \subseteq Int /\ r.no \in S /\ \A y \in S : r.no <= y
        BY <1>1, <1>2, <1>5, <1>6, <1>7 DEF InWindow
    <2> HIDE DEF S
    <2>2. Min(S) = r.no
        BY <2>1, MaxMinFacts
    <2> QED
        BY <2>2 DEF S
<1>9. CASE r.no = anchor.no
    <2>1. ~AnchorOK /\ Kind(anchor, r, p) = "anchor_balance"
        BY <1>3, <1>4, <1>5, <1>9, KindFacts DEF InOrder, AnchorOK
    <2>2. ReferenceLastGood = anchor.no
        BY <2>1 DEF ReferenceLastGood
    <2>3. BalanceAt[anchor.no] = anchor.balance
        BY <1>2, BalanceFacts DEF Running
    <2>4. p.no = anchor.no /\ p.balance = anchor.balance
        BY <1>4, <1>9 DEF Point
    <2> QED
        BY <1>7, <1>8, <2>1, <2>2, <2>3, <2>4
<1>10. CASE r.no > anchor.no
    <2>1. AnchorOK
        <3> SUFFICES ASSUME NEW s \in rows, s.no = anchor.no
                     PROVE  s.balance = anchor.balance
            BY DEF AnchorOK
        <3>1. s \in window /\ s.no < r.no
            BY <1>1, <1>2, <1>5, <1>10
        <3> QED
            BY <1>6, <3>1 DEF HoldsTo, AnchorOK
    <2>2. /\ Kind(anchor, r, p) # "anchor_balance"
          /\ Kind(anchor, r, p) \in {"gap", "gap_balance"} <=> r.no # p.no + 1
        BY <1>3, <1>4, <1>5, <1>10, KindFacts
    <2> DEFINE S == {anchor.no} \cup {n \in InWindow : n > anchor.no /\ HoldsTo(n)}
    <2>3. ReferenceLastGood = Max(S)
        BY <2>1 DEF ReferenceLastGood
    <2>4. S \subseteq Int
        BY <1>1, <1>2 DEF InWindow
    <2>5. \A n \in S : n = anchor.no \/ \E s \in window : n = s.no /\ s.no < r.no
        BY <1>1, <1>2, <1>5, <1>6 DEF InWindow
    <2>6. CASE p = Point(anchor) /\ \A s \in window : s.no >= r.no
        <3>1. p.no = anchor.no /\ p.balance = anchor.balance
            BY <2>6 DEF Point
        <3>2. \A n \in S : n <= anchor.no
            BY <1>1, <1>2, <1>5, <2>5, <2>6
        <3>3. Max(S) = anchor.no
            <4> HIDE DEF S
            <4>1. anchor.no \in S
                BY DEF S
            <4> QED
                BY <2>4, <3>2, <4>1, MaxMinFacts
        <3>4. BalanceAt[anchor.no] = anchor.balance
            BY <1>2, BalanceFacts DEF Running
        <3> QED
            BY <1>7, <1>8, <2>1, <2>2, <2>3, <3>1, <3>3, <3>4
    <2>7. ASSUME NEW s \in window, p = Point(s), s.no < r.no,
                 \A t \in window : t.no < r.no => t.no <= s.no
          PROVE  p.no = ReferenceLastGood /\ p.balance = BalanceAt[ReferenceLastGood]
        <3>1. p.no = s.no /\ p.balance = s.balance /\ s.no \in Nat /\ s \in rows
            BY <1>1, <1>2, <2>7 DEF Point
        <3>2. HoldsTo(s.no) /\ s.no >= anchor.no
            BY <1>1, <1>6, <2>7
        <3>3. s.no \in S
            BY <1>2, <2>7, <3>1, <3>2 DEF InWindow
        <3>4. \A n \in S : n <= s.no
            BY <1>2, <2>5, <2>7, <3>1, <3>2
        <3>5. Max(S) = s.no
            <4> HIDE DEF S
            <4> QED
                BY <2>4, <3>3, <3>4, MaxMinFacts
        <3>6. CASE s.no > anchor.no
            BY <2>3, <3>1, <3>2, <3>5, <3>6, HoldsAtRow
        <3>7. CASE s.no = anchor.no
            <4>1. BalanceAt[anchor.no] = anchor.balance
                BY <1>2, BalanceFacts DEF Running
            <4>2. s.balance = anchor.balance
                BY <2>1, <3>1, <3>7 DEF AnchorOK
            <4> QED
                BY <2>3, <3>1, <3>5, <3>7, <4>1, <4>2
        <3> QED
            BY <1>2, <3>1, <3>2, <3>6, <3>7
    <2>8. p.no = ReferenceLastGood /\ p.balance = BalanceAt[ReferenceLastGood]
          => /\ Kind(anchor, r, p) = "anchor_balance" <=> ~AnchorOK
             /\ Kind(anchor, r, p) \in {"gap", "gap_balance"} <=>
                   AnchorOK /\ r.no # ReferenceLastGood + 1
        BY <2>1, <2>2
    <2> QED
        BY <1>3, <1>7, <1>8, <2>6, <2>7, <2>8, PredecessorFacts
<1> QED
    BY <1>2, <1>5, <1>9, <1>10

\* What Verify answers, in the words of the reference.
LEMMA AnswerIsExact ==
    ASSUME Inv
    PROVE  LastGoodIsExact /\ BreakIsExact /\ AlwaysProgress
<1> SUFFICES ASSUME NEW answer \in answers
             PROVE  /\ answer.lastGood.no = ReferenceLastGood
                    /\ answer.lastGood.balance = BalanceAt[ReferenceLastGood]
                    /\ LET broken == {n \in InWindow : ~HoldsTo(n)}
                       IN  IF broken = {}
                           THEN answer.break = NoBreak
                           ELSE /\ answer.break.no = Min(broken)
                                /\ answer.break.kind = "anchor_balance" <=> ~AnchorOK
                                /\ answer.break.kind \in {"gap", "gap_balance"} <=>
                                      AnchorOK /\ answer.break.no # ReferenceLastGood + 1
                    /\ ShouldCheckpoint(answer) \/ answer.break # NoBreak
    BY DEF LastGoodIsExact, BreakIsExact, AlwaysProgress
<1>w. PICK window : window = Window(rows, anchor, limit)
    OBVIOUS
<1>b. PICK break : break = FirstBreak(window, anchor)
    OBVIOUS
<1>1. QueryOK /\ answer = Verify(rows, anchor, limit)
    BY DEF Inv
<1>2. answer.break = break /\ answer.lastGood = LastGood(window, break)
    BY <1>w, <1>b, <1>1 DEF Verify
<1>3. IsPoint(anchor) /\ IsWindow(window, anchor)
    BY <1>w, <1>1, WindowFacts DEF QueryOK, IsLedger, IsWindow
<1>4. ShouldCheckpoint(answer) \/ answer.break # NoBreak
    BY <1>1, VerifyFacts DEF QueryOK
<1>5. CASE break = NoBreak /\ \A s \in window : InOrder(window, anchor, s)
    <2>1. /\ \A n \in InWindow : HoldsTo(n)
          /\ ReferenceLastGood = Highest(window).no
          /\ Highest(window).balance = BalanceAt[ReferenceLastGood]
        BY <1>w, <1>1, <1>5, UnbrokenAnswer
    <2>2. /\ answer.lastGood.no = Highest(window).no
          /\ answer.lastGood.balance = Highest(window).balance
        BY <1>2, <1>5 DEF LastGood
    <2> QED
        BY <1>2, <1>4, <1>5, <2>1, <2>2
<1>6. ASSUME NEW r \in window,
             break = Flag(anchor, r, Predecessor(window, anchor, r)),
             ~InOrder(window, anchor, r),
             \A s \in window : s.no < r.no => InOrder(window, anchor, s)
      PROVE  /\ answer.lastGood.no = ReferenceLastGood
             /\ answer.lastGood.balance = BalanceAt[ReferenceLastGood]
             /\ {n \in InWindow : ~HoldsTo(n)} # {}
             /\ answer.break.no = Min({n \in InWindow : ~HoldsTo(n)})
             /\ answer.break.kind = "anchor_balance" <=> ~AnchorOK
             /\ answer.break.kind \in {"gap", "gap_balance"} <=>
                   AnchorOK /\ answer.break.no # ReferenceLastGood + 1
    <2>1. PICK p : p = Predecessor(window, anchor, r)
        OBVIOUS
    <2>2. /\ break.no = r.no /\ break.kind = Kind(anchor, r, p)
          /\ break.prev = p.no /\ break.prevBalance = p.balance
        BY <1>6, <2>1 DEF Flag
    <2>3. Kind(anchor, r, p) # "none"
        BY <1>6, <2>1 DEF InOrder
    <2>4. break # NoBreak
        BY <2>2, <2>3 DEF NoBreak
    <2>5. answer.lastGood.no = p.no /\ answer.lastGood.balance = p.balance
        BY <1>2, <2>2, <2>4 DEF LastGood
    <2> QED
        BY <1>w, <1>1, <1>2, <1>6, <2>1, <2>2, <2>5, BrokenAnswer
<1> QED
    BY <1>b, <1>3, <1>4, <1>5, <1>6, BreakFacts

-----------------------------------------------------------------------------
(* The invariant.                                                          *)

\* Every query that is chosen is one of a ledger with a row past the anchor.
LEMMA InvInit == Init => Inv
<1> SUFFICES ASSUME Init
             PROVE  Inv
    OBVIOUS
<1>1. MaxNo \in Nat /\ MaxNo # 0 /\ \A b \in Money : b \in Int
    BY QueryAssumption DEF Money
<1>2. PICK f \in [1 .. MaxNo -> Row \cup {NoRowHere}] :
         rows = {[no |-> n, amount |-> f[n].amount, balance |-> f[n].balance] :
                    n \in {m \in 1 .. MaxNo : f[m] # NoRowHere}}
    BY DEF Init
<1> DEFINE present == {m \in 1 .. MaxNo : f[m] # NoRowHere}
           row == [n \in present |-> [no |-> n, amount |-> f[n].amount,
                                      balance |-> f[n].balance]]
<1>3. rows = {row[n] : n \in present}
    BY <1>2
<1>4. \A n \in present : n \in 1 .. MaxNo /\ row[n].no = n
                         /\ row[n] \in [no : Nat \ {0}, amount : Int, balance : Int]
    <2> SUFFICES ASSUME NEW n \in present
                 PROVE  /\ n \in 1 .. MaxNo /\ row[n].no = n
                        /\ row[n] \in [no : Nat \ {0}, amount : Int, balance : Int]
        OBVIOUS
    <2>1. n \in 1 .. MaxNo /\ f[n] \in Row
        BY <1>2
    <2>2. f[n].amount \in -MaxMoney .. MaxMoney /\ f[n].balance \in Money
        BY <2>1 DEF Row
    <2>3. n \in Nat \ {0} /\ f[n].amount \in Int /\ f[n].balance \in Int
        BY <1>1, <2>1, <2>2
    <2>4. row[n] = [no |-> n, amount |-> f[n].amount, balance |-> f[n].balance]
        OBVIOUS
    <2> HIDE DEF row
    <2> QED
        BY <2>1, <2>3, <2>4
<1>5. IsFiniteSet(present)
    <2>1. present \in SUBSET (1 .. MaxNo)
        OBVIOUS
    <2>2. IsFiniteSet(1 .. MaxNo)
        BY <1>1, FS_Interval
    <2> HIDE DEF present
    <2> QED
        BY <2>1, <2>2, FS_Subset
<1>6. row \in Surjection(present, rows)
    <2>1. row \in [present -> rows]
        BY <1>3
    <2> QED
        BY <1>3, <2>1 DEF Surjection
<1> HIDE DEF row, present
<1>7. IsLedger(rows)
    <2>1. IsFiniteSet(rows)
        BY <1>5, <1>6, FS_Surjection
    <2> QED
        BY <1>3, <1>4, <2>1 DEF IsLedger
<1>8. \A r \in rows : r.no \in 1 .. MaxNo
    BY <1>3, <1>4
<1>9. IsPoint(anchor) /\ anchor.no <= MaxNo
    <2>1. anchor \in [no : 0 .. MaxNo, balance : Money]
        BY DEF Init
    <2>2. anchor.no \in 0 .. MaxNo /\ anchor.balance \in Money
        BY <2>1
    <2>3. anchor = [no |-> anchor.no, balance |-> anchor.balance]
        BY <2>1
    <2>4. anchor.no \in Nat /\ anchor.balance \in Int /\ anchor.no <= MaxNo
        BY <1>1, <2>2
    <2>5. [no |-> anchor.no, balance |-> anchor.balance] \in [no : Nat, balance : Int]
        BY <2>4
    <2> QED
        BY <2>3, <2>4, <2>5 DEF IsPoint
<1>10. limit \in Nat /\ limit >= 2
    BY <1>1 DEF Init
<1> QED
    BY <1>7, <1>8, <1>9, <1>10 DEF Init, Inv, QueryOK

\* A query is answered by Verify, once.
THEOREM QueryInvariant == Spec => []Inv
<1>1. Inv /\ [Next]_vars => Inv'
    <2> SUFFICES ASSUME Inv, [Next]_vars
                 PROVE  Inv'
        OBVIOUS
    <2>1. rows' = rows /\ anchor' = anchor /\ limit' = limit
        BY DEF Next, vars
    <2>2. answers' = answers \/ answers' = {Verify(rows, anchor, limit)}
        BY DEF Next, vars
    <2> QED
        BY <2>1, <2>2 DEF Inv, QueryOK
<1> QED
    BY InvInit, <1>1, PTL DEF Spec

\* LastGoodIsExact: the checkpoint a verification proposes is the last number
\* up to which the chain holds, with the balance the amounts add up to, for
\* every ledger, every anchor and every window of two rows or more.
THEOREM LastGoodIsAlwaysExact == Spec => []LastGoodIsExact
BY QueryInvariant, AnswerIsExact, PTL

\* BreakIsExact: a break is reported if and only if the chain does not hold to
\* the end of the window, at its first row that does not continue the chain,
\* and its kind says what is wrong there.
THEOREM BreakIsAlwaysExact == Spec => []BreakIsExact
BY QueryInvariant, AnswerIsExact, PTL

\* AlwaysProgress: a query of an account with a row past its checkpoint finds
\* a break or moves the checkpoint.
THEOREM QueriesProgress == Spec => []AlwaysProgress
BY QueryInvariant, AnswerIsExact, PTL

=============================================================================
