---------------------------- MODULE ReplayProofs ----------------------------
(***************************************************************************)
(* The replay of Replay.tla, for every capture, of any finite size: what   *)
(* its summary adds up to, that captured settlements close what they       *)
(* should, and how far events are handed over out of the order of receipt. *)
(***************************************************************************)
EXTENDS Replay, FiniteSetTheorems, WellFoundedInduction, TLAPS

USE MarketAssumption, LimitAssumption, CaptureAssumption

(* Facts about smallest elements. *)

LEMMA SmallestNat ==
    ASSUME NEW T \in SUBSET Nat, T # {}
    PROVE  \E x \in T : \A y \in T : x <= y
<1> DEFINE R == OpToRel(<, Nat)
<1>1. IsWellFoundedOn(R, Nat)
    BY NatLessThanWellFounded
<1>2. \A x, y \in Nat : <<y, x>> \in R <=> y < x
    BY DEF OpToRel
<1>3. \E x \in T : \A y \in T : <<y, x>> \notin R
    BY <1>1, WFMin, Zenon
<1> HIDE DEF R
<1>4. PICK x \in T : \A y \in T : <<y, x>> \notin R
    BY <1>3
<1>5. \A y \in T : x \in Nat /\ y \in Nat /\ ~(y < x)
    BY <1>2, <1>4
<1> QED
    BY <1>5

\* A measure has a smallest value on a set that is not empty.
LEMMA LeastBy ==
    ASSUME NEW S, S # {}, NEW f, \A x \in S : f[x] \in Nat
    PROVE  \E x \in S : \A y \in S : f[x] <= f[y]
<1> DEFINE T == {f[x] : x \in S}
<1>1. T \in SUBSET Nat /\ T # {}
    OBVIOUS
<1>2. PICK m \in T : \A y \in T : m <= y
    BY <1>1, SmallestNat
<1> QED
    BY <1>2

\* Every source that has a row left has a next one.
LEMMA HeadExists ==
    ASSUME NEW s \in left, \A r \in left : IsRow(r)
    PROVE  \E h \in left : SourceRank(h) = SourceRank(s) /\ IsHead(h)
<1> DEFINE S0 == {r \in left : SourceRank(r) = SourceRank(s)}
           f0 == [r \in S0 |-> Key(r)]
<1>0. \A r \in left : /\ Key(r) \in Nat /\ r.id \in Nat
                      /\ StreamRank(r) \in Nat \X Nat \X Nat
    BY DEF IsRow, Stamped, Key, StreamRank, MarketKinds, KindRank
<1>1. PICK h0 \in S0 : \A y \in S0 : f0[h0] <= f0[y]
  <2>1. S0 # {} /\ \A x \in S0 : f0[x] \in Nat
      BY <1>0
  <2> HIDE DEF S0, f0
  <2> QED
      BY <2>1, LeastBy
<1> DEFINE S1 == {r \in S0 : Key(r) = Key(h0)}
           f1 == [r \in S1 |-> StreamRank(r)[1]]
<1>2. PICK h1 \in S1 : \A y \in S1 : f1[h1] <= f1[y]
  <2>1. S1 # {} /\ \A x \in S1 : f1[x] \in Nat
      BY <1>0
  <2> HIDE DEF S1, f1
  <2> QED
      BY <2>1, LeastBy
<1> DEFINE S2 == {r \in S1 : StreamRank(r)[1] = StreamRank(h1)[1]}
           f2 == [r \in S2 |-> StreamRank(r)[2]]
<1>3. PICK h2 \in S2 : \A y \in S2 : f2[h2] <= f2[y]
  <2>1. S2 # {} /\ \A x \in S2 : f2[x] \in Nat
      BY <1>0
  <2> HIDE DEF S2, f2
  <2> QED
      BY <2>1, LeastBy
<1> DEFINE S3 == {r \in S2 : StreamRank(r)[2] = StreamRank(h2)[2]}
           f3 == [r \in S3 |-> StreamRank(r)[3]]
<1>4. PICK h3 \in S3 : \A y \in S3 : f3[h3] <= f3[y]
  <2>1. S3 # {} /\ \A x \in S3 : f3[x] \in Nat
      BY <1>0
  <2> HIDE DEF S3, f3
  <2> QED
      BY <2>1, LeastBy
<1> DEFINE S4 == {r \in S3 : StreamRank(r)[3] = StreamRank(h3)[3]}
           f4 == [r \in S4 |-> r.id]
<1>5. PICK h \in S4 : \A y \in S4 : f4[h] <= f4[y]
  <2>1. S4 # {} /\ \A x \in S4 : f4[x] \in Nat
      BY <1>0
  <2> HIDE DEF S4, f4
  <2> QED
      BY <2>1, LeastBy
<1>6. ASSUME NEW r \in left, SourceRank(r) = SourceRank(h), Precedes(r, h)
      PROVE  FALSE
  <2>1. r \in S0 /\ Key(h0) <= Key(r) /\ Key(h) = Key(h0)
      BY <1>1, <1>6
  <2>2. Key(r) = Key(h)
      BY <1>0, <1>6, <2>1 DEF Precedes
  <2>3. r \in S1 /\ StreamRank(h1)[1] <= StreamRank(r)[1]
      BY <1>2, <2>1, <2>2
  <2>4. StreamRank(h)[1] = StreamRank(h1)[1]
      OBVIOUS
  <2>5. StreamRank(r)[1] = StreamRank(h)[1]
      BY <1>0, <1>6, <2>2, <2>3, <2>4 DEF Precedes, Below3
  <2>6. r \in S2 /\ StreamRank(h2)[2] <= StreamRank(r)[2]
      BY <1>3, <2>3, <2>4, <2>5
  <2>7. StreamRank(h)[2] = StreamRank(h2)[2]
      OBVIOUS
  <2>8. StreamRank(r)[2] = StreamRank(h)[2]
      BY <1>0, <1>6, <2>2, <2>5, <2>6, <2>7 DEF Precedes, Below3
  <2>9. r \in S3 /\ StreamRank(h3)[3] <= StreamRank(r)[3]
      BY <1>4, <2>6, <2>7, <2>8
  <2>10. StreamRank(h)[3] = StreamRank(h3)[3]
      OBVIOUS
  <2>11. StreamRank(r)[3] = StreamRank(h)[3]
      BY <1>0, <1>6, <2>2, <2>5, <2>8, <2>9, <2>10 DEF Precedes, Below3
  <2>12. r \in S4 /\ h.id <= r.id
      BY <1>5, <2>9, <2>10, <2>11
  <2>13. r.id < h.id
      BY <1>0, <1>6, <2>2, <2>5, <2>8, <2>11 DEF Precedes, Below3
  <2> QED
      BY <1>0, <2>12, <2>13
<1> QED
    BY <1>6 DEF IsHead

\* The row that is taken was received before any other, or later by no more
\* than the longest delay and the difference of the clocks.
LEMMA MergedIsNear ==
    ASSUME NEW r \in left, Merged(r), NEW s \in left,
           left \subseteq capture, IsCapture(capture)
    PROVE  r.recv <= s.recv + MaxSkew
<1>0. \A x \in left : /\ IsRow(x) /\ x.recv \in Nat /\ Key(x) \in Nat
                      /\ Key(x) <= x.recv + MaxLead /\ x.recv <= Key(x) + MaxDelay
    BY DEF IsCapture, IsRow, Stamped, Key, NoStamp
<1>1. PICK h \in left : SourceRank(h) = SourceRank(s) /\ IsHead(h)
    BY <1>0, HeadExists
<1>2. r.recv <= h.recv
    BY <1>0, <1>1 DEF Merged
<1>3. ~Precedes(s, h)
    BY <1>1 DEF IsHead
<1>4. Key(h) <= Key(s)
    BY <1>0, <1>3 DEF Precedes
<1> QED
    BY <1>0, <1>2, <1>4 DEF MaxSkew
-----------------------------------------------------------------------------
(* The inductive invariant. *)

InScopeRows == {r \in capture : InScope(r, useBars)}
Handled == InScopeRows \ left

\* One position per market, on a market that was decided, and settled once.
OneEach ==
    /\ \A p, q \in open : p.t = q.t => p = q
    /\ \A p \in open : p.t \in decided
    /\ \A p \in open, c \in closed : p.t # c.pos.t
    /\ \A c \in closed : c.pos.t \in decided

\* What was handled precedes, in its source, what is left.
OrderKept ==
    \A r \in Handled, s \in left : SourceRank(s) = SourceRank(r) => ~Precedes(s, r)

\* The settlements of an open position are still to come.
SettlementAhead ==
    \A p \in open, r \in InScopeRows :
        r.kind = "settled" /\ r.about = p.t => r \in left

\* A settled position has the result of the first row in scope, by the order of
\* the burn-in.
ResultCaptured ==
    \A c \in closed : \E r \in Determined(c.pos.t) :
        /\ r.side = c.result /\ InScope(r, useBars)
        /\ \A s \in Determined(c.pos.t) : InScope(s, useBars) => ~Precedes(s, r)

Inv ==
    /\ TypeOK /\ capture \in Captures
    /\ IsFiniteSet(open) /\ IsFiniteSet(closed)
    /\ OneEach /\ SummaryAddsUp
    /\ OrderKept /\ SettlementAhead /\ ResultCaptured

Fill == [t : Tickers, side : Sides, n : 1..MaxContracts, price : 1..BuyPrice]

LEMMA InitInv == Init => Inv
<1> SUFFICES ASSUME Init PROVE Inv
    OBVIOUS
<1> USE DEF Init
<1>1. TypeOK /\ capture \in Captures
    BY DEF TypeOK, NoStamp
<1>2. IsFiniteSet(open) /\ IsFiniteSet(closed) /\ SummaryAddsUp
  <2>1. {c \in closed : Won(c.pos, c.result)} = {}
      OBVIOUS
  <2> QED
      BY <2>1, FS_EmptySet DEF SummaryAddsUp
<1>3. OneEach /\ OrderKept /\ SettlementAhead /\ ResultCaptured
    BY DEF OneEach, OrderKept, SettlementAhead, ResultCaptured, Handled, InScopeRows
<1> QED
    BY <1>1, <1>2, <1>3 DEF Inv

\* Taking a row keeps the order, whatever the row does.
LEMMA TakeKeepsOrder ==
    ASSUME NEW r \in left, Take(r), TypeOK, OrderKept, UNCHANGED warehouse
    PROVE  OrderKept'
<1> USE DEF Handled, InScopeRows, warehouse, Take
<1>1. left' = left \ {r} /\ IsHead(r)
    BY DEF Merged
<1>2. ASSUME NEW x \in Handled', NEW s \in left', SourceRank(s) = SourceRank(x)
      PROVE  ~Precedes(s, x)
  <2>1. CASE x = r
      BY <1>1, <1>2, <2>1 DEF IsHead
  <2>2. CASE x # r
      BY <1>1, <1>2, <2>2 DEF OrderKept
  <2> QED
      BY <2>1, <2>2
<1> QED
    BY <1>2 DEF OrderKept

LEMMA RowFacts ==
    ASSUME TypeOK
    PROVE  /\ \A x \in capture : IsRow(x) /\ x.recv \in Nat /\ Key(x) \in Nat
           /\ \A x \in left : x \in capture /\ InScope(x, useBars)
           /\ \A x \in capture : Key(x) <= x.recv + MaxLead
           /\ MaxSkew \in Nat
BY DEF TypeOK, IsCapture, IsRow, Stamped, Key, NoStamp, MaxSkew

LEMMA FillType ==
    ASSUME TypeOK, NEW r \in left, r.kind = "book", NEW n \in Nat, Considers(r),
           Fills(r, n)
    PROVE  FillOf(r, n) \in Fill
<1>1. r.about \in Tickers /\ r.side \in Sides /\ r.num \in 0..100
    BY RowFacts DEF IsRow, Stamped, Considers, Nothing
<1>2. AtMost(r.num + Markdown, BuyPrice) \in 1..BuyPrice
    BY <1>1 DEF Fills, AtMost, BuyPrice
<1>3. Downsized(n) \in 1..MaxContracts
    BY DEF Fills, Downsized, AtMost
<1> QED
    BY <1>1, <1>2, <1>3 DEF FillOf, Fill

LEMMA FillsKeepSum ==
    ASSUME Inv, NEW p, p.t \notin decided, NEW t, t = p.t
    PROVE  /\ {q \in open : q.t # t} = open
           /\ IsFiniteSet(open \cup {p})
           /\ Cardinality(open \cup {p}) = Cardinality(open) + 1
<1>1. \A q \in open : q.t # t
    BY DEF Inv, OneEach
<1>2. p \notin open
    BY <1>1
<1> QED
    BY <1>1, <1>2, FS_AddElement DEF Inv

LEMMA BookInv ==
    ASSUME Inv, NEW r \in left, NEW n \in 0..MaxSize, HandleBook(r, n)
    PROVE  Inv'
<1> USE DEF Inv
<1>1. /\ Take(r) /\ r.kind = "book" /\ left' = left \ {r}
      /\ UNCHANGED warehouse /\ capture' = capture /\ useBars' = useBars
    BY DEF HandleBook, Take, warehouse
<1>2. r \in capture /\ InScope(r, useBars) /\ r.about \in Tickers /\ r.recv \in Nat
    BY <1>1, RowFacts DEF IsRow, Stamped
<1>3. OrderKept'
    BY <1>1, TakeKeepsOrder
<1>4. /\ UNCHANGED <<lastSpot, heard, nSettled, nWins, realized, closed>>
      /\ now' \in Nat /\ decided' \subseteq Tickers /\ decided \subseteq decided'
    BY <1>2 DEF HandleBook, TypeOK, Later
<1>5. ResultCaptured'
    BY <1>1, <1>4 DEF ResultCaptured, Determined
<1>6. CASE ~Fills(r, n)
  <2>1. UNCHANGED <<open, nFills, entries>>
      BY <1>6 DEF HandleBook
  <2>2. TypeOK' /\ SummaryAddsUp' /\ OneEach'
      BY <1>1, <1>4, <2>1 DEF TypeOK, SummaryAddsUp, OneEach, Won
  <2>3. SettlementAhead'
      BY <1>1, <1>4, <2>1 DEF SettlementAhead, InScopeRows
  <2> QED
      BY <1>1, <1>3, <1>4, <1>5, <2>1, <2>2, <2>3
<1>7. CASE Fills(r, n)
  <2> DEFINE p == FillOf(r, n)
  <2>1. Considers(r) /\ decided' = decided \cup {r.about} /\ r.about \notin decided
      BY <1>7 DEF HandleBook, Fills, Considers
  <2>2. /\ open' = {q \in open : q.t # r.about} \cup {p}
        /\ nFills' = nFills + 1
        /\ entries' = entries \cup
             {[t |-> r.about, at |-> r.recv, spot |-> lastSpot[CryptoOf[r.about]],
               heard |-> heard[CryptoOf[r.about]]]}
      BY <1>7 DEF HandleBook
  <2>3. p \in Fill /\ p.t = r.about
      BY <1>1, <1>7, <2>1, FillType DEF FillOf
  <2> HIDE DEF p
  <2>4. /\ open' = open \cup {p} /\ IsFiniteSet(open')
        /\ Cardinality(open') = Cardinality(open) + 1
      BY <2>1, <2>2, <2>3, FillsKeepSum
  <2>5. /\ lastSpot[CryptoOf[r.about]] \in Nat
        /\ heard[CryptoOf[r.about]] \in Nat \cup {NoStamp}
      BY <1>2, <1>7 DEF Fills, SpotFresh, TypeOK
  <2>6. TypeOK'
    <3>1. open' \subseteq Fill
        BY <2>3, <2>4 DEF TypeOK, Fill
    <3>2. entries' \subseteq [t : Tickers, at : Nat, spot : Nat,
                             heard : Nat \cup {NoStamp}]
        BY <1>2, <2>2, <2>5 DEF TypeOK
    <3> QED
        BY <1>1, <1>4, <2>2, <3>1, <3>2 DEF TypeOK, Fill
  <2>7. SummaryAddsUp'
    <3>1. Cardinality(open) \in Nat
        BY FS_CardinalityType
    <3> QED
        BY <1>4, <2>2, <2>4, <3>1 DEF SummaryAddsUp, TypeOK, Won
  <2>8. OneEach'
    <3>1. \A q \in open : q.t # p.t
        BY <2>1, <2>3 DEF OneEach
    <3>2. \A c \in closed : c.pos.t # p.t
        BY <2>1, <2>3 DEF OneEach
    <3> QED
        BY <1>4, <2>1, <2>3, <2>4, <3>1, <3>2 DEF OneEach
  <2>9. SettlementAhead'
    <3>1. ASSUME NEW s \in InScopeRows, s.kind = "settled", s.about = r.about
          PROVE  s \in left'
      <4>1. s \in capture /\ CloseAt(r.about) + MaxLead <= Key(s) /\ Key(s) \in Nat
          BY <3>1, RowFacts DEF InScopeRows, TypeOK, IsCapture, Key
      <4>2. Key(r) <= r.recv + MaxLead /\ r.recv < CloseAt(r.about) /\ Key(r) \in Nat
          BY <1>2, <2>1, RowFacts DEF Considers, InTrigger
      <4>3. Precedes(r, s)
          BY <1>2, <4>1, <4>2 DEF Precedes, CloseAt
      <4>4. SourceRank(r) = SourceRank(s)
          BY <1>1, <3>1 DEF SourceRank, IsBar
      <4>5. s \in left
          BY <3>1, <4>3, <4>4 DEF OrderKept, Handled
      <4> QED
          BY <1>1, <3>1, <4>5
    <3>2. InScopeRows' = InScopeRows
        BY <1>1 DEF InScopeRows
    <3>3. ASSUME NEW q \in open', NEW s \in InScopeRows, s.kind = "settled", s.about = q.t
          PROVE  s \in left'
      <4>1. CASE q = p
          BY <2>3, <3>1, <3>3, <4>1
      <4>2. CASE q \in open
          BY <1>1, <3>3, <4>2 DEF SettlementAhead
      <4> QED
          BY <2>4, <4>1, <4>2
    <3> QED
        BY <3>2, <3>3 DEF SettlementAhead
  <2> QED
      BY <1>1, <1>3, <1>4, <1>5, <2>4, <2>6, <2>7, <2>8, <2>9
<1> QED
    BY <1>6, <1>7

\* A row that leaves the positions alone.
LEMMA OtherRowInv ==
    ASSUME Inv, NEW r \in left, HandleTrade(r) \/ HandleSpot(r)
    PROVE  Inv'
<1> USE DEF Inv
<1>1. /\ Take(r) /\ left' = left \ {r} /\ UNCHANGED <<warehouse, decided, book_keeping>>
      /\ capture' = capture /\ useBars' = useBars
    BY DEF HandleTrade, HandleSpot, Take, warehouse
<1>2. OrderKept'
    BY <1>1, TakeKeepsOrder
<1>3. r \in capture /\ r.recv \in Nat /\ Key(r) \in Nat
    BY RowFacts
<1>4. now' \in Nat
    BY <1>3 DEF HandleTrade, HandleSpot, TypeOK, Later
<1>5. /\ lastSpot' \in [Cryptos -> Nat \cup {NoStamp}]
      /\ heard' \in [Cryptos -> Nat \cup {NoStamp}]
    BY <1>3 DEF HandleTrade, HandleSpot, TypeOK, risk
<1>6. TypeOK'
    BY <1>1, <1>4, <1>5 DEF TypeOK, book_keeping
<1>7. SummaryAddsUp' /\ OneEach' /\ IsFiniteSet(open)' /\ IsFiniteSet(closed)'
    BY <1>1 DEF SummaryAddsUp, OneEach, Won, book_keeping
<1>8. SettlementAhead'
  <2>1. ASSUME NEW p \in open PROVE r.kind # "settled"
      BY DEF HandleTrade, HandleSpot
  <2> QED
      BY <1>1, <2>1 DEF SettlementAhead, InScopeRows, book_keeping
<1>9. ResultCaptured'
    BY <1>1 DEF ResultCaptured, Determined, book_keeping
<1> QED
    BY <1>1, <1>2, <1>6, <1>7, <1>8, <1>9

\* One position leaves the open ones.
LEMMA SettleKeepsSum ==
    ASSUME Inv, NEW p \in open
    PROVE  /\ Without(p.t) = open \ {p}
           /\ IsFiniteSet(open \ {p})
           /\ Cardinality(open \ {p}) = Cardinality(open) - 1
<1>1. \A q \in open : q.t = p.t => q = p
    BY DEF Inv, OneEach
<1> QED
    BY <1>1, FS_RemoveElement DEF Inv, Without

Winners(S) == {c \in S : Won(c.pos, c.result)}

\* One record more among the settled ones.
LEMMA ClosedKeepsSum ==
    ASSUME Inv, NEW x, x \notin closed
    PROVE  /\ IsFiniteSet(closed \cup {x})
           /\ Cardinality(closed \cup {x}) = Cardinality(closed) + 1
           /\ Cardinality(Winners(closed \cup {x}))
                = Cardinality(Winners(closed))
                    + (IF Won(x.pos, x.result) THEN 1 ELSE 0)
<1>1. IsFiniteSet(closed)
    BY DEF Inv
<1>2. IsFiniteSet(Winners(closed))
  <2>1. Winners(closed) \subseteq closed
      BY DEF Winners
  <2> QED
      BY <1>1, <2>1, FS_Subset
<1>3. CASE Won(x.pos, x.result)
  <2>1. Winners(closed \cup {x}) = Winners(closed) \cup {x} /\ x \notin Winners(closed)
      BY <1>3 DEF Winners
  <2>2. Cardinality(Winners(closed) \cup {x}) = Cardinality(Winners(closed)) + 1
      BY <1>2, <2>1, FS_AddElement
  <2> QED
      BY <1>1, <1>3, <2>1, <2>2, FS_AddElement
<1>4. CASE ~Won(x.pos, x.result)
  <2>1. Winners(closed \cup {x}) = Winners(closed)
      BY <1>4 DEF Winners
  <2>2. Cardinality(Winners(closed)) \in Nat
      BY <1>2, FS_CardinalityType
  <2> QED
      BY <1>1, <1>4, <2>1, <2>2, FS_AddElement
<1> QED
    BY <1>3, <1>4

LEMMA NetType ==
    ASSUME NEW p \in Fill, NEW side
    PROVE  Net(p, side) \in Int
<1>1. p.price \in Int /\ p.n \in Int
    BY DEF Fill, BuyPrice
<1>2. TakerFee(p.price, p.n) \in Int
    BY <1>1 DEF TakerFee
<1> QED
    BY <1>1, <1>2 DEF Net

LEMMA SettlementInv ==
    ASSUME Inv, NEW r \in left, HandleSettlement(r)
    PROVE  Inv'
<1> USE DEF Inv
<1>1. /\ Take(r) /\ r.kind = "settled" /\ left' = left \ {r}
      /\ UNCHANGED <<warehouse, risk, decided>>
      /\ capture' = capture /\ useBars' = useBars
    BY DEF HandleSettlement, Take, warehouse
<1>2. r \in capture /\ InScope(r, useBars) /\ r.about \in Tickers /\ r.side \in Sides
    BY <1>1, RowFacts DEF IsRow, Stamped, InScope
<1>3. OrderKept'
    BY <1>1, TakeKeepsOrder
<1>4. InScopeRows' = InScopeRows
    BY <1>1 DEF InScopeRows
<1>5. \A t : Determined(t)' = Determined(t)
    BY <1>1 DEF Determined
<1>6. CASE Held(r.about) = {}
  <2>1. UNCHANGED book_keeping
      BY <1>6 DEF HandleSettlement
  <2>2. TypeOK' /\ SummaryAddsUp' /\ OneEach'
      BY <1>1, <2>1 DEF TypeOK, SummaryAddsUp, OneEach, Won, book_keeping, risk
  <2>3. \A p \in open : p.t # r.about
      BY <1>6 DEF Held
  <2>4. SettlementAhead'
      BY <1>1, <1>4, <2>1, <2>3 DEF SettlementAhead, book_keeping
  <2>5. ResultCaptured'
    <3>1. closed' = closed
        BY <2>1 DEF book_keeping
    <3>2. \A x : InScope(x, useBars)' = InScope(x, useBars)
        BY <1>1
    <3> QED
        BY <1>1, <1>5, <3>1, <3>2 DEF ResultCaptured
  <2> QED
      BY <1>1, <1>3, <2>1, <2>2, <2>4, <2>5 DEF book_keeping
<1>7. CASE Held(r.about) # {}
  <2>1. PICK p \in Held(r.about) :
            /\ open' = Without(r.about)
            /\ nSettled' = nSettled + 1
            /\ nWins' = IF Won(p, r.side) THEN nWins + 1 ELSE nWins
            /\ realized' = realized + Net(p, r.side)
            /\ closed' = closed \cup {[pos |-> p, result |-> r.side]}
            /\ UNCHANGED <<nFills, entries>>
      BY <1>7 DEF HandleSettlement
  <2> DEFINE x == [pos |-> p, result |-> r.side]
  <2>2. p \in open /\ p.t = r.about /\ p \in Fill
      BY DEF Held, TypeOK, Fill
  <2>3. /\ open' = open \ {p} /\ IsFiniteSet(open')
        /\ Cardinality(open') = Cardinality(open) - 1
      BY <2>1, <2>2, SettleKeepsSum
  <2>4. x.pos = p /\ x.result = r.side /\ closed' = closed \cup {x}
      BY <2>1
  <2>5. x \in [pos : Fill, result : Sides]
      BY <1>2, <2>2
  <2> HIDE DEF x
  <2>6. x \notin closed
      BY <2>2, <2>4 DEF OneEach
  <2>7. /\ IsFiniteSet(closed')
        /\ Cardinality(closed') = Cardinality(closed) + 1
        /\ Cardinality(Winners(closed'))
             = Cardinality(Winners(closed)) + (IF Won(p, r.side) THEN 1 ELSE 0)
      BY <2>4, <2>6, ClosedKeepsSum
  <2>8. TypeOK'
    <3>1. Net(p, r.side) \in Int
        BY <2>2, NetType
    <3>2. nWins' \in 0..nSettled' /\ nSettled' \in Nat /\ realized' \in Int
        BY <2>1, <3>1 DEF TypeOK
    <3>3. open' \subseteq Fill /\ closed' \subseteq [pos : Fill, result : Sides]
        BY <2>3, <2>4, <2>5 DEF TypeOK, Fill
    <3> QED
        BY <1>1, <2>1, <3>2, <3>3 DEF TypeOK, Fill, risk
  <2>9. SummaryAddsUp'
    <3>1. /\ Cardinality(open) \in Nat /\ Cardinality(closed) \in Nat
        BY FS_CardinalityType
    <3>2. /\ nFills = nSettled + Cardinality(open) /\ nSettled = Cardinality(closed)
          /\ nWins = Cardinality(Winners(closed))
        BY DEF SummaryAddsUp, Winners
    <3>3. nWins' = Cardinality(Winners(closed'))
        BY <2>1, <2>7, <3>2 DEF TypeOK
    <3>4. nFills' = nSettled' + Cardinality(open') /\ nSettled' = Cardinality(closed')
        BY <2>1, <2>3, <2>7, <3>1, <3>2 DEF TypeOK
    <3> QED
        BY <3>3, <3>4 DEF SummaryAddsUp, Winners, Won
  <2>10. OneEach'
    <3>1. \A q \in open' : q \in open /\ q.t # p.t
        BY <2>2, <2>3 DEF OneEach
    <3> QED
        BY <1>1, <2>2, <2>4, <3>1 DEF OneEach
  <2>11. SettlementAhead'
    <3>1. \A q \in open' : q \in open /\ q.t # r.about
        BY <2>2, <2>3 DEF OneEach
    <3> QED
        BY <1>1, <1>4, <3>1 DEF SettlementAhead
  <2>12. ResultCaptured'
    <3>1. /\ r \in Determined(p.t) /\ r.side = x.result
          /\ InScope(r, useBars) /\ IsHead(r)
        BY <1>1, <1>2, <2>2, <2>4 DEF Determined, Take, Merged
    <3>2. ASSUME NEW s \in Determined(p.t), InScope(s, useBars)
          PROVE  ~Precedes(s, r)
      <4>1. s \in left
          BY <2>2, <3>2 DEF SettlementAhead, InScopeRows, Determined
      <4>2. SourceRank(s) = SourceRank(r)
          BY <1>1, <3>2 DEF SourceRank, IsBar, Determined
      <4> QED
          BY <3>1, <4>1, <4>2 DEF IsHead
    <3>3. InScope(r, useBars)' = InScope(r, useBars)
        BY <1>1
    <3>4. ASSUME NEW c \in closed' PROVE
            \E q \in Determined(c.pos.t) :
                /\ q.side = c.result /\ InScope(q, useBars)
                /\ \A s \in Determined(c.pos.t) : InScope(s, useBars) => ~Precedes(s, q)
        BY <2>4, <3>1, <3>2 DEF ResultCaptured
    <3> QED
        BY <1>1, <1>5, <3>4 DEF ResultCaptured
  <2> QED
      BY <1>1, <1>3, <2>3, <2>7, <2>8, <2>9, <2>10, <2>11, <2>12
<1> QED
    BY <1>6, <1>7

LEMMA StutterInv == Inv /\ UNCHANGED vars => Inv'
BY DEF Inv, TypeOK, OneEach, SummaryAddsUp, OrderKept, SettlementAhead, ResultCaptured,
       Handled, InScopeRows, Determined, Won, vars, warehouse, risk, book_keeping

LEMMA NextInv == Inv /\ [Next]_vars => Inv'
BY BookInv, OtherRowInv, SettlementInv, StutterInv DEF Next

LEMMA Invariance == Spec => []Inv
BY InitInv, NextInv, PTL DEF Spec
-----------------------------------------------------------------------------
(* What follows of every reachable state. *)

\* All that Replayer and FillSimulator keep stays of its type, on every
\* capture of the warehouse.
THEOREM TypeCorrect == Spec => []TypeOK
BY Invariance, PTL DEF Inv

\* The summary of the replay adds up: fills are open or settled, settled
\* positions are counted once, and so are the wins.
THEOREM SummaryCorrect == Spec => []SummaryAddsUp
BY Invariance, PTL DEF Inv

\* No position is left open at the end whose settlement was captured, though
\* a book may be received after the settlement of its market.
THEOREM SettlementsClose == Spec => []SettledIfCaptured
<1>1. Inv => SettledIfCaptured
    BY DEF Inv, TypeOK, SettlementAhead, SettledIfCaptured, InScopeRows
<1> QED
    BY <1>1, Invariance, PTL

LEMMA FirstReceivedIn ==
    ASSUME TypeOK, NEW t, Determined(t) # {}
    PROVE  /\ FirstReceived(Determined(t)) \in Determined(t)
           /\ \A s \in Determined(t) : FirstReceived(Determined(t)).recv <= s.recv
<1> DEFINE S == Determined(t)
           f == [x \in S |-> x.recv]
<1>1. S # {} /\ \A x \in S : f[x] \in Nat /\ f[x] = x.recv
    BY RowFacts DEF Determined
<1> HIDE DEF f
<1>2. \E x \in S : \A y \in S : f[x] <= f[y]
    BY <1>1, LeastBy
<1>3. \E x \in S : \A y \in S : x.recv <= y.recv
    BY <1>1, <1>2
<1> QED
    BY <1>3 DEF FirstReceived

\* Where one row of a market comes first by receipt and by its stamp, the strict
\* resolver scores a settled position as the replay did, or cannot read that row.
THEOREM ResolverAgrees == Spec => []ScoredAsResolved
<1>1. ASSUME Inv, NEW c \in closed, NEW f \in Determined(c.pos.t),
             FirstInBoth(f, Determined(c.pos.t))
      PROVE  /\ f.side = Unreadable => Resolve("strict", c.pos.t) = Nothing
             /\ InScope(f, useBars) => Resolve("strict", c.pos.t) = c.result
  <2> DEFINE S == Determined(c.pos.t)
  <2>1. /\ FirstReceived(S) \in S /\ S # {}
        /\ \A s \in S : FirstReceived(S).recv <= s.recv
      BY <1>1, FirstReceivedIn DEF Inv
  <2>2. \A s \in S : s.recv \in Nat
      BY <1>1, RowFacts DEF Inv, Determined
  <2>3. \A s \in S : s # f => f.recv < s.recv /\ Precedes(f, s)
      BY <1>1 DEF FirstInBoth
  <2> HIDE DEF S
  <2>4. FirstReceived(S) = f
      BY <1>1, <2>1, <2>2, <2>3 DEF S
  <2>5. FromLifecycle(c.pos.t) = IF f.side = Unreadable THEN Nothing ELSE f.side
      BY <2>1, <2>4 DEF FromLifecycle, S
  <2>6. ASSUME InScope(f, useBars)
        PROVE  f.side = c.result
    <3>1. PICK r \in S : /\ r.side = c.result
                         /\ \A s \in S : InScope(s, useBars) => ~Precedes(s, r)
        BY <1>1 DEF Inv, ResultCaptured, S
    <3> QED
        BY <1>1, <2>3, <2>6, <3>1 DEF S
  <2>7. InScope(f, useBars) => f.side # Unreadable
      BY DEF InScope
  <2>8. c.result \in Sides
      BY <1>1 DEF Inv, TypeOK
  <2> QED
      BY <2>5, <2>6, <2>7, <2>8 DEF Resolve, Sides, Nothing, Unreadable
<1>2. Inv => ScoredAsResolved
    BY <1>1 DEF ScoredAsResolved
<1> QED
    BY <1>2, Invariance, PTL
-----------------------------------------------------------------------------
(* What delays do to the order. *)

LEMMA TakenIsNear ==
    ASSUME Inv, NEW r \in left, Take(r)
    PROVE  \A s \in left : r.recv <= s.recv + MaxSkew
<1>1. left \subseteq capture /\ IsCapture(capture)
    BY DEF Inv, TypeOK
<1> QED
    BY <1>1, MergedIsNear DEF Take

LEMMA NextTakes ==
    ASSUME Next
    PROVE  \E r \in left : Take(r)
BY DEF Next, HandleBook, HandleTrade, HandleSpot, HandleSettlement

\* The replay hands over each event once, and ahead of one received earlier by
\* no more than the two orders differ: it implements ReceiptOrder.
THEOREM OrderImplemented == Spec => ImplementsReceiptOrder
<1> DEFINE events == {[at |-> r.recv, event |-> r.id] : r \in left}
<1>1. Init => Order!Init
  <2>1. ASSUME Init PROVE events \in SUBSET [at : Int, event : Nat]
      BY <2>1, InitInv, RowFacts DEF Inv, IsRow, Stamped
  <2> QED
      BY <2>1 DEF Order!Init
<1>2. Inv /\ [Next]_vars => [Order!Next]_events
  <2>1. ASSUME Inv, Next PROVE Order!Next
    <3>1. PICK r \in left : Take(r)
        BY <2>1, NextTakes
    <3>2. \A s \in left : r.recv <= s.recv + MaxSkew
        BY <2>1, <3>1, TakenIsNear
    <3>3. \A s \in left : s.id = r.id => s = r
        BY <2>1 DEF Inv, TypeOK, IsCapture
    <3>4. left' = left \ {r}
        BY <3>1 DEF Take
    <3> DEFINE e == [at |-> r.recv, event |-> r.id]
    <3>5. e \in events /\ \A f \in events : e.at <= f.at + MaxSkew
        BY <3>2
    <3>6. events' = events \ {e}
        BY <3>3, <3>4
    <3> HIDE DEF events, e
    <3>7. Order!Deliver(e)
        BY <3>5, <3>6 DEF Order!Deliver, events
    <3> QED
        BY <3>5, <3>7 DEF Order!Next, events
  <2>2. UNCHANGED vars => UNCHANGED events
      BY DEF vars
  <2> QED
      BY <2>1, <2>2
<1> QED
    BY <1>1, <1>2, Invariance, PTL DEF Spec, ImplementsReceiptOrder, Order!Spec

\* The spot was received before what is left, or not much later.
SpotIsNear ==
    /\ LookAheadBounded
    /\ \A c \in Cryptos, s \in left : heard[c] <= s.recv + MaxSkew

LEMMA SpotIsNearKept ==
    ASSUME Inv, SpotIsNear, [Next]_vars
    PROVE  SpotIsNear'
<1> USE DEF Inv, SpotIsNear
<1>1. \A s \in left : s.recv \in Nat
    BY RowFacts
<1>2. ASSUME NEW r \in left, NEW n \in 0..MaxSize, HandleBook(r, n) PROVE SpotIsNear'
  <2>1. left' = left \ {r} /\ heard' = heard /\ r.kind = "book"
      BY <1>2 DEF HandleBook, Take
  <2>2. r.about \in Tickers /\ CryptoOf[r.about] \in Cryptos
      BY <2>1, RowFacts DEF IsRow, Stamped
  <2> DEFINE spot == lastSpot[CryptoOf[r.about]]
             e == [t |-> r.about, at |-> r.recv, spot |-> spot,
                   heard |-> heard[CryptoOf[r.about]]]
  <2>3. entries' = entries \/ (Fills(r, n) /\ entries' = entries \cup {e})
      BY <1>2 DEF HandleBook
  <2>4. Fills(r, n) => spot \in Nat /\ now' - spot <= MaxSpotAge
      BY <2>2 DEF Fills, SpotFresh, TypeOK
  <2>5. r.recv <= now' /\ now' \in Nat
      BY <1>1, <1>2 DEF HandleBook, Later, TypeOK
  <2>6. Fills(r, n) => r.recv <= spot + MaxSpotAge
      BY <1>1, <2>4, <2>5
  <2>7. heard[CryptoOf[r.about]] <= r.recv + MaxSkew
      BY <2>2
  <2> QED
      BY <2>1, <2>3, <2>6, <2>7 DEF LookAheadBounded
<1>3. ASSUME NEW r \in left, HandleSpot(r) PROVE SpotIsNear'
  <2>1. /\ Take(r) /\ left' = left \ {r} /\ entries' = entries
        /\ heard' = [heard EXCEPT ![r.about] = r.recv]
      BY <1>3 DEF HandleSpot, Take, book_keeping
  <2>2. \A s \in left : r.recv <= s.recv + MaxSkew
      BY <2>1, TakenIsNear
  <2> QED
      BY <2>1, <2>2 DEF LookAheadBounded, TypeOK
<1>4. ASSUME NEW r \in left, HandleTrade(r) \/ HandleSettlement(r) PROVE SpotIsNear'
  <2>1. left' = left \ {r} /\ heard' = heard /\ entries' = entries
      BY <1>4 DEF HandleTrade, HandleSettlement, Take, book_keeping, risk
  <2> QED
      BY <2>1 DEF LookAheadBounded
<1>5. UNCHANGED vars => SpotIsNear'
    BY DEF vars, book_keeping, risk, LookAheadBounded
<1> QED
    BY <1>2, <1>3, <1>4, <1>5 DEF Next

\* No entry is decided on a spot received later than its book by more than the
\* two orders differ, or on one older than the envelope allows.
THEOREM LookAhead == Spec => []LookAheadBounded
<1>1. Init => SpotIsNear
  <2> SUFFICES ASSUME Init PROVE SpotIsNear
      OBVIOUS
  <2>1. \A s \in left : s.recv \in Nat
      BY InitInv, RowFacts DEF Inv
  <2> QED
      BY <2>1 DEF Init, SpotIsNear, LookAheadBounded, NoStamp, MaxSkew
<1>2. Inv /\ SpotIsNear /\ [Next]_vars => SpotIsNear'
    BY SpotIsNearKept
<1>3. SpotIsNear => LookAheadBounded
    BY DEF SpotIsNear
<1> QED
    BY <1>1, <1>2, <1>3, Invariance, PTL DEF Spec
=============================================================================
