------------------------ MODULE FavoriteChaseProofs ------------------------
(***************************************************************************)
(* Proofs about FavoriteChase for every number of markets, any limits and  *)
(* any bounds.  The safety argument is ShieldInv: it is inductive on top   *)
(* of TypeOK, and it is what makes each match a legal EntryLedger!Buy.     *)
(***************************************************************************)
EXTENDS FavoriteChase, TLAPS, SequenceTheorems, FiniteSetTheorems

Fill == [t : Tickers, n : Int]
Event == SpotEvents \cup BookEvents

\* Signed counts are integers, and so is a downsized size a legal one.
LEMMA SignedType == \A side \in Sides, n \in Nat : Signed(side, n) \in Int
  BY DEF Signed

LEMMA SizedType == \A size \in 1..MaxSize : Sized(size) \in 1..MaxContracts
  BY LimitAssumption DEF Sized, Min2

\* The messages of an execution are fills.
LEMMA FillMsgsType ==
  ASSUME NEW r \in Requests, NEW k \in Nat, NEW split \in Splits(k)
  PROVE  FillMsgs(r, split) \in Seq(Fill)
  <1>1. split \in Seq(Nat)
    <2>1. CASE split = <<k>>
      BY <2>1
    <2>2. CASE split \in {<<i, k - i>> : i \in 1..(k - 1)}
      <3>1. PICK i \in 1..(k - 1) : split = <<i, k - i>>
        BY <2>2
      <3>2. i \in Nat /\ k - i \in Nat
        OBVIOUS
      <3> QED BY <3>1, <3>2
    <2> QED BY <2>1, <2>2 DEF Splits
  <1>2. Len(split) \in Nat
    BY <1>1
  <1>3. r.t \in Tickers /\ r.side \in Sides
    BY DEF Requests
  <1>4. \A i \in 1..Len(split) : [t |-> r.t, n |-> Signed(r.side, split[i])] \in Fill
    BY <1>1, <1>3, SignedType DEF Fill
  <1>5. FillMsgs(r, split) \in [1..Len(split) -> Fill]
    BY <1>4 DEF FillMsgs
  <1> QED BY <1>2, <1>5

LEMMA FillTickers ==
  ASSUME NEW s \in Seq(Fill)
  PROVE  {s[i].t : i \in 1..Len(s)} \subseteq Tickers
  <1>1. \A i \in 1..Len(s) : s[i] \in Fill
    BY ElementOfSeq
  <1> QED BY <1>1 DEF Fill

LEMMA TypeInit == Init => TypeOK
  <1> SUFFICES ASSUME Init PROVE TypeOK
    OBVIOUS
  <1> USE LimitAssumption DEF Init
  <1>1. clock \in Time /\ riskNow \in Stamps /\ boots \in 0..MaxBoots
    BY DEF Time, Stamps
  <1>2. /\ markets \subseteq Tickers /\ decided \subseteq Tickers
        /\ entered \subseteq Tickers /\ riskOpen \subseteq Tickers
        /\ running \in BOOLEAN /\ mode \in {"disabled", "polling"}
        /\ fillUp \in BOOLEAN
    OBVIOUS
  <1>3. /\ lastEval \in [Tickers -> Time \cup {Never}]
        /\ lastSpot \in [Cryptos -> Stamps \cup {Never}]
    OBVIOUS
  <1>4. /\ local \in [Tickers -> Int] /\ account \in [Tickers -> Int]
        /\ bought \in [Tickers -> Nat]
    OBVIOUS
  <1>5. /\ queue \in Seq(SpotEvents \cup BookEvents)
        /\ fills \in Seq([t : Tickers, n : Int])
    OBVIOUS
  <1>6. /\ order \in Requests \cup {NoOrder}
        /\ reply \in {NoReply} \cup (0..MaxContracts)
        /\ wire \subseteq Requests
    OBVIOUS
  <1>7. /\ exposed \subseteq Tickers /\ blind \subseteq Tickers
        /\ missed \subseteq Tickers /\ unanswered \subseteq Tickers
    OBVIOUS
  <1> QED BY <1>1, <1>2, <1>3, <1>4, <1>5, <1>6, <1>7 DEF TypeOK

\* A popped event is a spot tick of a crypto or a book of a market.
LEMMA PopType ==
  ASSUME TypeOK, NEW kind, Pop(kind)
  PROVE  /\ queue' \in Seq(SpotEvents \cup BookEvents)
         /\ riskNow' \in Stamps
         /\ Head(queue).at \in Stamps
         /\ kind = "book" => Head(queue).at \in Time
         /\ kind = "spot" => Head(queue).c \in Cryptos
         /\ kind = "book" => Head(queue).t \in Tickers
         /\ kind = "book" => Head(queue).fav \in Sides \cup {NoFavorite}
  <1>1. queue \in Seq(SpotEvents \cup BookEvents) /\ queue # <<>>
    BY DEF TypeOK, Pop
  <1>2. Head(queue) \in SpotEvents \cup BookEvents
    BY <1>1
  <1>3. queue' \in Seq(SpotEvents \cup BookEvents)
    BY <1>1 DEF Pop
  <1>4. Head(queue).at \in Stamps
    BY <1>2, LimitAssumption DEF SpotEvents, BookEvents, Time, Stamps
  <1>5. riskNow' \in Stamps
    BY <1>4 DEF Pop, Max2, TypeOK
  <1>6. Head(queue).kind = kind
    BY DEF Pop
  <1>7. kind = "spot" => Head(queue) \in SpotEvents
    BY <1>2, <1>6 DEF BookEvents
  <1>8. kind = "book" => Head(queue) \in BookEvents
    BY <1>2, <1>6 DEF SpotEvents
  <1> QED BY <1>3, <1>4, <1>5, <1>7, <1>8 DEF SpotEvents, BookEvents

\* Every action keeps the types.
LEMMA TypeStep == TypeOK /\ [Next]_vars => TypeOK'
  <1> SUFFICES ASSUME TypeOK, [Next]_vars PROVE TypeOK'
    OBVIOUS
  <1> USE LimitAssumption, MarketAssumption, ModeAssumption
  <1> USE DEF TypeOK, Time, Stamps, lockVars, riskVars, fillVars, histVars
  <1>1. ASSUME NEW m \in Modes, NEW found \in SUBSET Cryptos,
               NEW positionsRead \in BOOLEAN,
               NEW warm \in [Cryptos -> {Never} \cup 0..clock],
               Boot(m, found, positionsRead, warm)
        PROVE TypeOK'
    <2> USE <1>1 DEF Boot
    <2>1. /\ markets' \subseteq Tickers /\ decided' \subseteq Tickers
          /\ entered' \subseteq Tickers /\ riskOpen' \subseteq Tickers
          /\ running' \in BOOLEAN /\ mode' \in {"disabled", "polling"}
      BY DEF OpenMarkets, Imported, Holdings
    <2>2. local' \in [Tickers -> Int]
      OBVIOUS
    <2>3. /\ lastEval' \in [Tickers -> Time \cup {Never}]
          /\ lastSpot' \in [Cryptos -> Stamps \cup {Never}]
          /\ riskNow' \in Stamps /\ boots' \in 0..MaxBoots
      <3>1. 0..clock \subseteq Time /\ 0..clock \subseteq Stamps
        OBVIOUS
      <3> QED BY <3>1
    <2>4. \A r \in wire : r.t \in Tickers
      BY DEF Requests
    <2>5. /\ exposed' \subseteq Tickers /\ blind' \subseteq Tickers
          /\ missed' \subseteq Tickers /\ unanswered' \subseteq Tickers
      BY <2>4
    <2> QED BY <2>1, <2>2, <2>3, <2>5
  <1>2. CASE Die
    <2> USE <1>2 DEF Die, NoProcess
    <2>1. {fills[i].t : i \in 1..Len(fills)} \subseteq Tickers
      BY FillTickers DEF Fill
    <2>2. missed' \subseteq Tickers
      BY <2>1
    <2>3. /\ lastEval' \in [Tickers -> Time \cup {Never}]
          /\ lastSpot' \in [Cryptos -> Time \cup {Never}]
          /\ local' \in [Tickers -> Int]
      OBVIOUS
    <2>4. /\ queue' \in Seq(SpotEvents \cup BookEvents)
          /\ fills' \in Seq([t : Tickers, n : Int])
          /\ order' \in Requests \cup {NoOrder}
          /\ reply' \in {NoReply} \cup (0..MaxContracts)
      OBVIOUS
    <2>5. riskNow' \in Stamps
      OBVIOUS
    <2> QED BY <2>2, <2>3, <2>4, <2>5
  <1>3. CASE Tick
    BY <1>3 DEF Tick
  <1>4. ASSUME NEW c \in Cryptos, NEW stamp \in Stamps, SpotTick(c, stamp) PROVE TypeOK'
    BY <1>4 DEF SpotTick, Enqueue, SpotEvents
  <1>5. ASSUME NEW t \in Tickers, NEW fav \in Sides \cup {NoFavorite},
               BookUpdate(t, fav)
        PROVE TypeOK'
    BY <1>5 DEF BookUpdate, Enqueue, BookEvents
  <1>6. ASSUME NEW t \in Tickers, RegisterMarket(t) PROVE TypeOK'
    BY <1>6 DEF RegisterMarket, OpenMarkets
  <1>7. CASE HandleSpot
    <2>1. Pop("spot")
      BY <1>7 DEF HandleSpot
    <2> QED BY <1>7, <2>1, PopType DEF HandleSpot
  <1>8. CASE IgnoreBook
    <2>1. Pop("book")
      BY <1>8 DEF IgnoreBook
    <2> QED BY <1>8, <2>1, PopType DEF IgnoreBook
  <1>9. CASE EvaluateSkip
    <2>1. Pop("book")
      BY <1>9 DEF EvaluateSkip
    <2> QED BY <1>9, <2>1, PopType DEF EvaluateSkip, MarkEvaluated
  <1>10. CASE EnterVetoed
    <2>1. Pop("book")
      BY <1>10 DEF EnterVetoed, Enter
    <2> QED
      BY <1>10, <2>1, PopType DEF EnterVetoed, Enter, MarkEvaluated, MarkEntered
  <1>11. ASSUME NEW size \in 1..MaxSize, EnterSubmitted(size) PROVE TypeOK'
    <2> DEFINE req == [t |-> Head(queue).t, side |-> Head(queue).fav,
                       n |-> Sized(size), gen |-> boots]
    <2>1. Pop("book")
      BY <1>11 DEF EnterSubmitted, Enter
    <2>2. Head(queue).fav \in Sides
      BY <1>11, <2>1, PopType DEF EnterSubmitted, Enter, Evaluates
    <2>3. req \in Requests
      BY <2>1, <2>2, PopType, SizedType DEF Requests
    <2>4. order' = req /\ wire' = wire \cup {req}
      BY <1>11 DEF EnterSubmitted
    <2> HIDE DEF req
    <2> QED
      BY <1>11, <2>1, <2>3, <2>4, PopType
         DEF EnterSubmitted, Enter, MarkEvaluated, MarkEntered
  <1>12. ASSUME NEW r \in wire, NEW k \in 0..MaxContracts, NEW split \in Splits(k),
                Match(r, k, split)
         PROVE TypeOK'
    <2> USE <1>12 DEF Match
    <2>1. r \in Requests /\ r.t \in Tickers /\ Signed(r.side, k) \in Int
      BY SignedType DEF Requests
    <2>2. fills' \in Seq([t : Tickers, n : Int])
      <3>1. FillMsgs(r, split) \in Seq([t : Tickers, n : Int])
        BY <2>1, FillMsgsType DEF Fill
      <3> QED BY <3>1
    <2>3. account' \in [Tickers -> Int] /\ bought' \in [Tickers -> Nat]
      BY <2>1
    <2>4. wire' \subseteq Requests /\ missed' \subseteq Tickers
      BY <2>1
    <2>5. reply' \in {NoReply} \cup (0..MaxContracts)
      OBVIOUS
    <2> QED BY <2>2, <2>3, <2>4, <2>5
  <1>13. ASSUME NEW t \in Tickers, Settle(t) PROVE TypeOK'
    BY <1>13 DEF Settle
  <1>14. CASE OrderReply
    <2>1. order \in Requests
      BY <1>14 DEF OrderReply
    <2>2. reply > 0 => Signed(order.side, reply) \in Int
      BY <1>14, <2>1, SignedType DEF OrderReply, Requests
    <2>3. local' \in [Tickers -> Int]
      BY <1>14, <2>2 DEF OrderReply
    <2> QED BY <1>14, <2>3 DEF OrderReply
  <1>15. CASE OrderError
    BY <1>15 DEF OrderError, Requests
  <1>16. CASE ApplyFill
    <2>1. Head(fills) \in Fill /\ Tail(fills) \in Seq(Fill)
      <3>1. fills \in Seq(Fill) /\ fills # <<>>
        BY <1>16 DEF ApplyFill, Fill
      <3> QED BY <3>1, HeadTailProperties
    <2>2. local' \in [Tickers -> Int]
      BY <1>16, <2>1 DEF ApplyFill, Fill
    <2> QED BY <1>16, <2>1, <2>2 DEF ApplyFill, Fill
  <1>17. CASE FillConnect
    BY <1>17 DEF FillConnect
  <1>18. CASE FillDrop
    <2>1. {fills[i].t : i \in 1..Len(fills)} \subseteq Tickers
      BY FillTickers DEF Fill
    <2>2. missed' \subseteq Tickers /\ fills' \in Seq([t : Tickers, n : Int])
      BY <1>18, <2>1 DEF FillDrop
    <2> QED BY <1>18, <2>2 DEF FillDrop
  <1>19. CASE SkipFill
    <2>1. Head(fills) \in Fill /\ Tail(fills) \in Seq(Fill)
      <3>1. fills \in Seq(Fill) /\ fills # <<>>
        BY <1>19 DEF SkipFill, Fill
      <3> QED BY <3>1, HeadTailProperties
    <2>2. missed' \subseteq Tickers
      BY <1>19, <2>1 DEF SkipFill, Fill
    <2> QED BY <1>19, <2>1, <2>2 DEF SkipFill, Fill
  <1>20. CASE UNCHANGED vars
    BY <1>20 DEF vars
  <1> QED
    BY <1>1, <1>2, <1>3, <1>4, <1>5, <1>6, <1>7, <1>8, <1>9, <1>10, <1>11,
       <1>12, <1>13, <1>14, <1>15, <1>16, <1>17, <1>18, <1>20, <1>19
       DEF Next, Process, Feeds, Consumer, Exchange, Listener

\* Type correctness of the engine and the exchange.
THEOREM TypeCorrect == Spec => []TypeOK
  BY TypeInit, TypeStep, PTL DEF Spec
-----------------------------------------------------------------------------
(* The locks that survive restarts, late orders and lost replies. *)

\* An action that leaves orders, purchases, exposure and the mode alone and
\* releases no lock keeps the shield.
LEMMA ShieldKept ==
  ASSUME ShieldInv,
         UNCHANGED <<wire, bought, exposed, mode>>,
         running' => running,
         running' => entered \subseteq entered' /\ decided \subseteq decided'
  PROVE  ShieldInv'
  BY DEF ShieldInv, WireSafe, LocksHeld, Locked

\* A book is only evaluated for a market that is not locked.
LEMMA EnterUnlocked ==
  ASSUME TypeOK, ShieldInv, Enter, running,
         Head(queue).t \notin exposed
  PROVE  bought[Head(queue).t] = 0 /\ \A r \in wire : r.t # Head(queue).t
  <1>1. Head(queue).t \in Tickers
    BY PopType DEF Enter
  <1>2. ~Locked(Head(queue).t)
    BY DEF Enter, Evaluates
  <1>3. ~(bought[Head(queue).t] > 0)
    BY <1>1, <1>2 DEF ShieldInv, LocksHeld
  <1>4. \A r \in wire : r.t # Head(queue).t
    BY <1>1, <1>2 DEF ShieldInv, LocksHeld, Locked
  <1> QED BY <1>1, <1>3, <1>4 DEF TypeOK

LEMMA ShieldStep == TypeOK /\ ShieldInv /\ [Next]_vars => ShieldInv'
  <1> SUFFICES ASSUME TypeOK, ShieldInv, [Next]_vars PROVE ShieldInv'
    OBVIOUS
  <1> USE DEF lockVars, riskVars, fillVars, histVars
  \* A boot exposes what it cannot vouch for and locks the rest.
  <1>1. ASSUME NEW m \in Modes, NEW found \in SUBSET Cryptos,
               NEW positionsRead \in BOOLEAN,
               NEW warm \in [Cryptos -> {Never} \cup 0..clock],
               Boot(m, found, positionsRead, warm)
        PROVE ShieldInv'
    <2>1. \A r \in wire : r.t \in exposed'
      BY <1>1 DEF Boot
    <2>2. ASSUME NEW t \in Tickers \ exposed', bought[t] > 0 PROVE Locked(t)'
      <3>1. t \in Shielded(m, Imported(positionsRead))
        BY <1>1, <2>2 DEF Boot
      <3> QED BY <1>1, <3>1 DEF Boot, Shielded, Locked
    <2>3. wire' = wire /\ bought' = bought
      BY <1>1 DEF Boot
    <2> QED BY <2>1, <2>2, <2>3 DEF ShieldInv, WireSafe, LocksHeld
  <1>2. CASE Die
    BY <1>2, ShieldKept DEF Die, NoProcess
  <1>3. CASE Feeds
    <2>1. UNCHANGED <<wire, bought, exposed, mode, running, entered, decided>>
      BY <1>3 DEF Feeds, Tick, SpotTick, BookUpdate, Enqueue, RegisterMarket
    <2> QED BY <2>1, ShieldKept
  <1>4. CASE HandleSpot \/ IgnoreBook \/ OrderReply \/ OrderError
    BY <1>4, ShieldKept DEF HandleSpot, IgnoreBook, OrderReply, OrderError, Pop
  <1>5. CASE EvaluateSkip \/ EnterVetoed
    BY <1>5, ShieldKept
       DEF EvaluateSkip, EnterVetoed, Enter, MarkEvaluated, MarkEntered
  \* The new order's market had no lock, hence no purchase and no order.
  <1>6. ASSUME NEW size \in 1..MaxSize, EnterSubmitted(size) PROVE ShieldInv'
    <2> DEFINE req == [t |-> Head(queue).t, side |-> Head(queue).fav,
                       n |-> Sized(size), gen |-> boots]
    <2>1. /\ wire' = wire \cup {req} /\ req.t = Head(queue).t
          /\ UNCHANGED <<bought, exposed, mode, running>>
          /\ entered' = entered \cup {Head(queue).t}
          /\ decided \subseteq decided'
      BY <1>6 DEF EnterSubmitted, Enter, MarkEvaluated, MarkEntered
    <2>2. req.t \notin exposed =>
             bought[req.t] = 0 /\ \A r \in wire : r.t # req.t
      BY <1>6, <2>1, EnterUnlocked DEF EnterSubmitted, Enter, Pop
    <2> HIDE DEF req
    <2>3. WireSafe'
      BY <2>1, <2>2 DEF ShieldInv, WireSafe
    <2>4. LocksHeld'
      BY <2>1 DEF ShieldInv, LocksHeld, Locked
    <2> QED BY <2>3, <2>4 DEF ShieldInv
  \* The matched order had its market to itself, and the lock is held.
  <1>7. ASSUME NEW r \in wire, NEW k \in 0..MaxContracts, NEW split \in Splits(k),
               Match(r, k, split)
        PROVE ShieldInv'
    <2>1. /\ wire' = wire \ {r}
          /\ bought' = [bought EXCEPT ![r.t] = @ + k]
          /\ UNCHANGED <<exposed, mode, running, entered, decided>>
      BY <1>7 DEF Match
    <2>2. \A t \in Tickers : t # r.t => bought'[t] = bought[t]
      BY <2>1 DEF TypeOK
    <2>3. r \in Requests /\ r.t \in Tickers
      BY DEF TypeOK, Requests
    <2>4. WireSafe'
      <3>1. \A s \in wire' : s \in wire /\ s # r /\ s.t \in Tickers
        BY <2>1 DEF TypeOK, Requests
      <3>2. \A s \in wire' : bought'[s.t] > 0 => s.t \in exposed
        BY <2>2, <3>1 DEF ShieldInv, WireSafe
      <3> QED BY <2>1, <3>1, <3>2 DEF ShieldInv, WireSafe
    <2>5. LocksHeld'
      <3> SUFFICES ASSUME running, NEW t \in Tickers \ exposed
                   PROVE  /\ bought'[t] > 0 => Locked(t)
                          /\ (\E s \in wire : s.t = t) => t \in entered
        BY <2>1 DEF LocksHeld, Locked
      <3>1. CASE t = r.t
        BY <3>1 DEF ShieldInv, LocksHeld, Locked
      <3>2. CASE t # r.t
        BY <3>2, <2>2 DEF ShieldInv, LocksHeld
      <3> QED BY <3>1, <3>2
    <2> QED BY <2>4, <2>5 DEF ShieldInv
  <1>8. ASSUME NEW t \in Tickers, Settle(t) PROVE ShieldInv'
    BY <1>8, ShieldKept DEF Settle
  <1>9. CASE Listener
    BY <1>9, ShieldKept DEF Listener, ApplyFill, SkipFill, FillConnect, FillDrop
  <1>10. CASE UNCHANGED vars
    BY <1>10, ShieldKept DEF vars
  <1>11. CASE Process
    BY <1>1, <1>2, <1>11 DEF Process
  <1>12. CASE Consumer
    BY <1>4, <1>5, <1>6, <1>12 DEF Consumer
  <1>13. CASE Exchange
    BY <1>7, <1>8, <1>13 DEF Exchange
  <1> QED BY <1>3, <1>9, <1>10, <1>11, <1>12, <1>13 DEF Next

\* Every market the last boot could vouch for stays locked once an order for
\* it was sent, in whatever order replies, fills and restarts come.
THEOREM ShieldHolds == Spec => []ShieldInv
  <1>1. Init => ShieldInv
    BY DEF Init, ShieldInv, WireSafe, LocksHeld
  <1> QED BY <1>1, TypeInit, TypeStep, ShieldStep, PTL DEF Spec
-----------------------------------------------------------------------------
(* The engine implements EntryLedger. *)

\* A match of k > 0 contracts is a Buy, a boot is a Restart, and nothing else
\* touches the purchases or the exposed markets.
LEMMA LedgerStep ==
  TypeOK /\ TypeOK' /\ ShieldInv /\ [Next]_vars
      => [Ledger!Next]_(Ledger!ledgerVars)
  <1> SUFFICES ASSUME TypeOK, TypeOK', ShieldInv, [Next]_vars
               PROVE  Ledger!Next \/ UNCHANGED <<bought, exposed>>
    BY DEF Ledger!ledgerVars
  <1> USE DEF lockVars, riskVars, fillVars, histVars
  <1>1. ASSUME NEW m \in Modes, NEW found \in SUBSET Cryptos,
               NEW positionsRead \in BOOLEAN,
               NEW warm \in [Cryptos -> {Never} \cup 0..clock],
               Boot(m, found, positionsRead, warm)
        PROVE Ledger!Next
    <2>1. bought' = bought /\ exposed' \in SUBSET Tickers
      BY <1>1 DEF Boot, TypeOK
    <2>2. Ledger!Restart(exposed')
      BY <2>1 DEF Ledger!Restart
    <2> QED BY <2>1, <2>2 DEF Ledger!Next
  <1>2. ASSUME NEW r \in wire, NEW k \in 0..MaxContracts, NEW split \in Splits(k),
               Match(r, k, split)
        PROVE Ledger!Next \/ UNCHANGED <<bought, exposed>>
    <2>1. r.t \in Tickers
      BY DEF TypeOK, Requests
    <2>2. /\ bought' = [bought EXCEPT ![r.t] = @ + k]
          /\ exposed' = exposed
      BY <1>2 DEF Match
    <2>3. bought[r.t] = 0 \/ r.t \in exposed
      BY <2>1 DEF ShieldInv, WireSafe, TypeOK
    <2>4. CASE k = 0
      <3>1. bought' = bought
        BY <2>1, <2>2, <2>4 DEF TypeOK
      <3> QED BY <2>2, <3>1
    <2>5. CASE k # 0
      <3>1. k \in 1..MaxContracts
        BY <2>5, LimitAssumption
      <3>2. Ledger!Buy(r.t, k)
        BY <2>2, <2>3 DEF Ledger!Buy
      <3> QED BY <2>1, <3>1, <3>2 DEF Ledger!Next
    <2> QED BY <2>4, <2>5
  <1>3. CASE Die \/ Feeds
    BY <1>3 DEF Die, Feeds, Tick, SpotTick, BookUpdate, Enqueue, RegisterMarket
  <1>4. CASE HandleSpot \/ IgnoreBook \/ OrderReply \/ OrderError
    BY <1>4 DEF HandleSpot, IgnoreBook, OrderReply, OrderError
  <1>5. CASE EvaluateSkip \/ EnterVetoed
    BY <1>5 DEF EvaluateSkip, EnterVetoed
  <1>6. ASSUME NEW size \in 1..MaxSize, EnterSubmitted(size)
        PROVE UNCHANGED <<bought, exposed>>
    BY <1>6 DEF EnterSubmitted
  <1>7. ASSUME NEW t \in Tickers, Settle(t) PROVE UNCHANGED <<bought, exposed>>
    BY <1>7 DEF Settle
  <1>8. CASE Listener
    BY <1>8 DEF Listener, ApplyFill, SkipFill, FillConnect, FillDrop
  <1>9. CASE UNCHANGED vars
    BY <1>9 DEF vars
  <1>10. CASE Process
    BY <1>1, <1>3, <1>10 DEF Process
  <1>11. CASE Consumer
    BY <1>4, <1>5, <1>6, <1>11 DEF Consumer
  <1>12. CASE Exchange
    BY <1>2, <1>7, <1>12 DEF Exchange
  <1> QED BY <1>3, <1>8, <1>9, <1>10, <1>11, <1>12 DEF Next

\* The engine buys each market at most once per what its last boot could know,
\* and never more than max_contracts_per_trade at a time.
THEOREM BuysOnceHolds == Spec => BuysOnce
  <1>1. Init => Ledger!Init
    BY DEF Init, Ledger!Init
  <1>2. Spec => [](TypeOK /\ ShieldInv)
    BY TypeCorrect, ShieldHolds, PTL
  <1> QED BY <1>1, <1>2, LedgerStep, PTL DEF Spec, BuysOnce, Ledger!Spec
-----------------------------------------------------------------------------
(* The local view of the positions. *)

\* Whatever can still reach execution.open_positions, the account at boot, the
\* pending reply and the fill messages, stays within what was bought.
Within(n, t) == n <= bought[t] /\ -n <= bought[t]
SourcesWithin ==
    /\ \A t \in Tickers : Within(account[t], t)
    /\ \A i \in 1..Len(fills) : Within(fills[i].n, fills[i].t)
    /\ order # NoOrder /\ reply # NoReply => reply <= bought[order.t]
    /\ order = NoOrder => reply = NoReply
LocalInv == LocalNeverOverstates /\ SourcesWithin

\* No message of an execution reports more than was executed.
LEMMA FillMsgsWithin ==
  ASSUME NEW r \in Requests, NEW k \in Nat, NEW split \in Splits(k),
         NEW i \in 1..Len(FillMsgs(r, split))
  PROVE  /\ FillMsgs(r, split)[i].t = r.t
         /\ FillMsgs(r, split)[i].n <= k
         /\ -FillMsgs(r, split)[i].n <= k
  <1>1. split \in Seq(Nat) /\ Len(split) \in Nat
        /\ \A j \in 1..Len(split) : split[j] \in Nat /\ split[j] <= k
    <2>1. CASE split = <<k>>
      BY <2>1
    <2>2. CASE split \in {<<j, k - j>> : j \in 1..(k - 1)}
      <3>1. PICK j \in 1..(k - 1) : split = <<j, k - j>>
        BY <2>2
      <3>2. j \in Nat /\ k - j \in Nat /\ j <= k /\ k - j <= k
        OBVIOUS
      <3> QED BY <3>1, <3>2
    <2> QED BY <2>1, <2>2 DEF Splits
  <1>2. Len(FillMsgs(r, split)) = Len(split)
    BY <1>1 DEF FillMsgs
  <1>3. FillMsgs(r, split)[i] = [t |-> r.t, n |-> Signed(r.side, split[i])]
    BY <1>1, <1>2 DEF FillMsgs
  <1> QED BY <1>1, <1>2, <1>3 DEF Signed

LEMMA NoOrderIsNone == NoOrder \notin Requests
  <1>1. DOMAIN NoOrder = {"t"}
    BY DEF NoOrder
  <1>2. \A r \in Requests : DOMAIN r = {"t", "side", "n", "gen"}
    BY DEF Requests
  <1> QED BY <1>1, <1>2

LEMMA LocalStep == TypeOK /\ TypeOK' /\ LocalInv /\ [Next]_vars => LocalInv'
  <1> SUFFICES ASSUME TypeOK, TypeOK', LocalInv, [Next]_vars PROVE LocalInv'
    OBVIOUS
  <1> USE DEF lockVars, riskVars, fillVars, histVars
  \* An action that brings nothing in keeps the bounds.
  <1>1. ASSUME bought' = bought, account' = account,
               local' = local, fills' = fills, UNCHANGED <<order, reply>>
        PROVE  LocalInv'
    BY <1>1 DEF LocalInv, LocalNeverOverstates, SourcesWithin, Within
  <1>2. ASSUME NEW m \in Modes, NEW found \in SUBSET Cryptos,
               NEW positionsRead \in BOOLEAN,
               NEW warm \in [Cryptos -> {Never} \cup 0..clock],
               Boot(m, found, positionsRead, warm)
        PROVE LocalInv'
    BY <1>2 DEF Boot, TypeOK, LocalInv, LocalNeverOverstates, SourcesWithin, Within
  <1>3. CASE Die
    BY <1>3 DEF Die, NoProcess, TypeOK, LocalInv, LocalNeverOverstates,
                SourcesWithin, Within
  <1>4. CASE Feeds
    BY <1>4, <1>1 DEF Feeds, Tick, SpotTick, BookUpdate, Enqueue, RegisterMarket
  <1>5. CASE HandleSpot \/ IgnoreBook
    BY <1>5, <1>1 DEF HandleSpot, IgnoreBook
  <1>6. CASE EvaluateSkip \/ EnterVetoed
    BY <1>6, <1>1 DEF EvaluateSkip, EnterVetoed
  \* A new order has no reply yet.
  <1>7. ASSUME NEW size \in 1..MaxSize, EnterSubmitted(size) PROVE LocalInv'
    <2>1. order = NoOrder /\ reply' = reply
      BY <1>7 DEF EnterSubmitted, Enter, Pop
    <2> QED
      BY <1>7, <2>1 DEF EnterSubmitted, Enter, Pop, LocalInv,
                        LocalNeverOverstates, SourcesWithin, Within
  <1>8. ASSUME NEW r \in wire, NEW k \in 0..MaxContracts, NEW split \in Splits(k),
               Match(r, k, split)
        PROVE LocalInv'
    <2> USE <1>8 DEF Match
    <2>1. r \in Requests /\ r.t \in Tickers /\ r # NoOrder
      BY NoOrderIsNone DEF TypeOK, Requests
    <2>2. /\ \A t \in Tickers : t # r.t => bought'[t] = bought[t]
          /\ bought'[r.t] = bought[r.t] + k
          /\ \A t \in Tickers : bought[t] \in Nat /\ bought'[t] \in Nat
      BY <2>1 DEF TypeOK
    <2>3. ASSUME NEW n \in Int, NEW t \in Tickers, Within(n, t)
          PROVE  Within(n, t)'
      BY <2>2, <2>3 DEF Within
    <2>4. LocalNeverOverstates'
      BY <2>2 DEF LocalInv, LocalNeverOverstates, TypeOK
    <2>5. \A t \in Tickers : account'[t] <= bought'[t] /\ -account'[t] <= bought'[t]
      <3> TAKE t \in Tickers
      <3>1. CASE t = r.t
        <4>1. account'[t] = account[t] + Signed(r.side, k)
          BY <2>1, <3>1 DEF TypeOK
        <4>2. Signed(r.side, k) \in {k, -k}
          BY DEF Signed
        <4>3. Within(account[t], t) /\ account[t] \in Int
          BY DEF LocalInv, SourcesWithin, TypeOK
        <4> QED BY <3>1, <4>1, <4>2, <4>3, <2>2 DEF Within
      <3>2. CASE t # r.t
        <4>1. account'[t] = account[t] /\ account[t] \in Int
          BY <2>1, <3>2 DEF TypeOK
        <4> QED BY <4>1, <2>2, <3>2 DEF LocalInv, SourcesWithin, Within
      <3> QED BY <3>1, <3>2
    <2>6. \A i \in 1..Len(fills') : /\ fills'[i].n <= bought'[fills'[i].t]
                                    /\ -fills'[i].n <= bought'[fills'[i].t]
      <3>1. \A i \in 1..Len(fills) : /\ fills[i].n <= bought'[fills[i].t]
                                     /\ -fills[i].n <= bought'[fills[i].t]
        <4> TAKE i \in 1..Len(fills)
        <4>1. fills[i].t \in Tickers /\ fills[i].n \in Int
          <5>1. fills[i] \in Fill
            BY ElementOfSeq DEF TypeOK, Fill
          <5> QED BY <5>1 DEF Fill
        <4>2. Within(fills[i].n, fills[i].t)
          BY DEF LocalInv, SourcesWithin
        <4>3. bought[fills[i].t] <= bought'[fills[i].t]
          BY <2>2, <4>1
        <4> QED BY <2>2, <4>1, <4>2, <4>3 DEF Within
      <3>2. CASE fills' = fills
        BY <3>1, <3>2
      <3>3. CASE fills' = fills \o FillMsgs(r, split)
        <4> DEFINE msgs == FillMsgs(r, split)
        <4>1. msgs \in Seq(Fill) /\ fills \in Seq(Fill)
          BY <2>1, FillMsgsType DEF TypeOK, Fill
        <4>2. \A j \in 1..Len(msgs) : msgs[j].t = r.t /\ msgs[j].n <= k /\ -msgs[j].n <= k
          BY <2>1, FillMsgsWithin
        <4>3. \A j \in 1..Len(msgs) : msgs[j].n \in Int
          <5> HIDE DEF msgs
          <5>1. \A j \in 1..Len(msgs) : msgs[j] \in Fill
            BY <4>1, ElementOfSeq
          <5> QED BY <5>1 DEF Fill
        <4>4. fills' = fills \o msgs
          BY <3>3
        <4> HIDE DEF msgs
        <4>5. ASSUME NEW i \in 1..Len(fills')
              PROVE  \/ i \in 1..Len(fills) /\ fills'[i] = fills[i]
                     \/ i - Len(fills) \in 1..Len(msgs) /\ fills'[i] = msgs[i - Len(fills)]
          <5>1. /\ Len(fills') = Len(fills) + Len(msgs)
                /\ \A j \in 1..Len(fills) + Len(msgs) : fills'[j] =
                      IF j <= Len(fills) THEN fills[j] ELSE msgs[j - Len(fills)]
            BY <4>1, <4>4, ConcatProperties
          <5>2. Len(fills) \in Nat /\ Len(msgs) \in Nat
            BY <4>1, LenProperties
          <5> QED BY <4>5, <5>1, <5>2
        <4>6. bought[r.t] \in Nat /\ bought'[r.t] = bought[r.t] + k /\ k \in Nat
          BY <2>1, <2>2
        <4> QED
          <5> TAKE i \in 1..Len(fills')
          <5>1. CASE i \in 1..Len(fills) /\ fills'[i] = fills[i]
            BY <3>1, <5>1
          <5>2. CASE i - Len(fills) \in 1..Len(msgs) /\ fills'[i] = msgs[i - Len(fills)]
            <6>1. fills'[i].t = r.t /\ fills'[i].n \in Int
                  /\ fills'[i].n <= k /\ -fills'[i].n <= k
              BY <4>2, <4>3, <5>2
            <6> QED BY <4>6, <6>1
          <5> QED BY <4>5, <5>1, <5>2
      <3> QED BY <3>2, <3>3
    <2>7. /\ order' # NoOrder /\ reply' # NoReply => reply' <= bought'[order'.t]
          /\ order' = NoOrder => reply' = NoReply
      <3>1. CASE order = r
        BY <2>1, <2>2, <3>1
      <3>2. CASE order # r
        <4>1. order # NoOrder => order.t \in Tickers
          BY DEF TypeOK, Requests
        <4>2. order' = order /\ reply' = reply
          BY <3>2
        <4>3. CASE order = NoOrder
          BY <4>2, <4>3 DEF LocalInv, SourcesWithin
        <4>4. CASE order # NoOrder /\ reply # NoReply
          <5>1. reply <= bought[order.t] /\ reply \in Int
            BY <4>4 DEF LocalInv, SourcesWithin, TypeOK
          <5>2. bought[order.t] <= bought'[order.t]
            BY <2>2, <4>1, <4>4
          <5>3. bought[order.t] \in Nat /\ bought'[order.t] \in Nat
            BY <2>2, <4>1, <4>4
          <5> QED BY <4>2, <4>4, <5>1, <5>2, <5>3
        <4> QED BY <4>2, <4>3, <4>4
      <3> QED BY <3>1, <3>2
    <2> QED BY <2>4, <2>5, <2>6, <2>7 DEF LocalInv, SourcesWithin, Within
  \* The reply's count is within what the exchange filled.
  <1>9. CASE OrderReply
    BY <1>9 DEF OrderReply, Signed, TypeOK, Requests, LocalInv,
                LocalNeverOverstates, SourcesWithin, Within
  <1>10. CASE OrderError
    BY <1>10 DEF OrderError, LocalInv, LocalNeverOverstates, SourcesWithin, Within
  <1>11. ASSUME NEW t \in Tickers, Settle(t) PROVE LocalInv'
    BY <1>11 DEF Settle, TypeOK, LocalInv, LocalNeverOverstates, SourcesWithin, Within
  \* The oldest message is applied; the others move up.
  <1>12. CASE ApplyFill
    <2>1. fills \in Seq(Fill) /\ fills # <<>>
      BY <1>12 DEF ApplyFill, TypeOK, Fill
    <2>2. /\ Head(fills) = fills[1] /\ 1 \in 1..Len(fills)
          /\ \A i \in 1..Len(Tail(fills)) :
                i + 1 \in 1..Len(fills) /\ Tail(fills)[i] = fills[i + 1]
      BY <2>1, HeadTailProperties
    <2>3. \A i \in 1..Len(fills) : Within(fills[i].n, fills[i].t)
      BY DEF LocalInv, SourcesWithin
    <2>4. Within(Head(fills).n, Head(fills).t)
      BY <2>2, <2>3
    <2>5. LocalNeverOverstates'
      BY <1>12, <2>4 DEF ApplyFill, TypeOK, LocalInv, LocalNeverOverstates, Within
    <2>6. \A i \in 1..Len(fills') : Within(fills'[i].n, fills'[i].t)
      BY <1>12, <2>2, <2>3 DEF ApplyFill
    <2> QED BY <1>12, <2>5, <2>6 DEF ApplyFill, LocalInv, SourcesWithin, Within
  <1>13. CASE FillConnect
    BY <1>13, <1>1 DEF FillConnect
  <1>14. CASE FillDrop
    BY <1>14 DEF FillDrop, LocalInv, LocalNeverOverstates, SourcesWithin, Within
  <1>15. CASE SkipFill
    <2>1. fills \in Seq(Fill) /\ fills # <<>>
      BY <1>15 DEF SkipFill, TypeOK, Fill
    <2>2. \A i \in 1..Len(Tail(fills)) :
              i + 1 \in 1..Len(fills) /\ Tail(fills)[i] = fills[i + 1]
      BY <2>1, HeadTailProperties
    <2>3. \A i \in 1..Len(fills) : Within(fills[i].n, fills[i].t)
      BY DEF LocalInv, SourcesWithin
    <2>4. \A i \in 1..Len(fills') : Within(fills'[i].n, fills'[i].t)
      BY <1>15, <2>2, <2>3 DEF SkipFill
    <2> QED BY <1>15, <2>4
            DEF SkipFill, LocalInv, LocalNeverOverstates, SourcesWithin, Within
  <1>16. CASE UNCHANGED vars
    BY <1>16, <1>1 DEF vars
  <1>17. CASE Process
    BY <1>2, <1>3, <1>17 DEF Process
  <1>18. CASE Consumer
    BY <1>5, <1>6, <1>7, <1>9, <1>10, <1>18 DEF Consumer
  <1>19. CASE Exchange
    BY <1>8, <1>11, <1>19 DEF Exchange
  <1>20. CASE Listener
    BY <1>12, <1>13, <1>14, <1>20, <1>15 DEF Listener
  <1> QED BY <1>4, <1>16, <1>17, <1>18, <1>19, <1>20 DEF Next

\* A fill told twice, by the reply and by the fill channel, counts once: the
\* local view never shows more contracts than were bought.
THEOREM LocalHolds == Spec => []LocalNeverOverstates
  <1>1. Init => LocalInv
    BY DEF Init, LocalInv, LocalNeverOverstates, SourcesWithin, Within
  <1>2. LocalInv => LocalNeverOverstates
    BY DEF LocalInv
  <1> QED BY <1>1, <1>2, TypeCorrect, LocalStep, PTL DEF Spec
-----------------------------------------------------------------------------
(* What the engine knows of its holdings. *)

\* A fill of t is on its way on the fill channel.
InFlight(t) == \E i \in 1..Len(fills) : fills[i].t = t

\* The engine hears of a purchase twice: once by the reply, which comes, has
\* come or was given up, and once by the fill channel, which brings it, has
\* brought it or lost it.  The two can fail one after the other, so each has an
\* invariant of its own.
Replied(t) ==
    \/ local[t] # 0 \/ t \in blind \cup unanswered
    \/ order # NoOrder /\ order.t = t /\ reply > 0
Told(t) == local[t] # 0 \/ t \in blind \cup missed \/ InFlight(t)

\* Holdings are heard of both ways; an order still on the wire is the awaited
\* one, or one whose fill will be a known or a disclaimed one; an order that
\* was answered has left the wire.
HeardInv ==
    /\ running => \A t \in Holdings : Replied(t) /\ Told(t)
    /\ running => \A r \in wire :
                    r = order \/ r.t \in blind \cup unanswered \/ local[r.t] # 0
    /\ order # NoOrder /\ reply # NoReply => order \notin wire
    /\ \A i \in 1..Len(fills) : fills[i].n # 0

LEMMA FillMsgsCount ==
  ASSUME NEW r \in Requests, NEW k \in Nat, k > 0, NEW split \in Splits(k)
  PROVE  /\ FillMsgs(r, split) \in Seq(Fill) /\ Len(FillMsgs(r, split)) \in Nat \ {0}
         /\ \A i \in 1..Len(FillMsgs(r, split)) :
               FillMsgs(r, split)[i].t = r.t /\ FillMsgs(r, split)[i].n # 0
  <1>1. split \in Seq(Nat) /\ Len(split) \in Nat \ {0}
        /\ \A j \in 1..Len(split) : split[j] \in Nat /\ split[j] > 0
    <2>1. CASE split = <<k>>
      BY <2>1
    <2>2. CASE split \in {<<j, k - j>> : j \in 1..(k - 1)}
      <3>1. PICK j \in 1..(k - 1) : split = <<j, k - j>>
        BY <2>2
      <3>2. j \in Nat /\ k - j \in Nat /\ j > 0 /\ k - j > 0
        OBVIOUS
      <3> QED BY <3>1, <3>2
    <2> QED BY <2>1, <2>2 DEF Splits
  <1>2. Len(FillMsgs(r, split)) = Len(split)
    BY <1>1 DEF FillMsgs
  <1>3. \A i \in 1..Len(split) :
           FillMsgs(r, split)[i] = [t |-> r.t, n |-> Signed(r.side, split[i])]
    BY <1>1 DEF FillMsgs
  <1>4. \A i \in 1..Len(split) : Signed(r.side, split[i]) # 0
    BY <1>1 DEF Signed
  <1>5. FillMsgs(r, split) \in Seq(Fill)
    BY FillMsgsType
  <1> HIDE DEF Signed
  <1>6. \A i \in 1..Len(split) :
           FillMsgs(r, split)[i].t = r.t /\ FillMsgs(r, split)[i].n # 0
    <2> TAKE i \in 1..Len(split)
    <2> DEFINE n == Signed(r.side, split[i])
    <2>1. FillMsgs(r, split)[i] = [t |-> r.t, n |-> n] /\ n # 0
      BY <1>3, <1>4
    <2> HIDE DEF n
    <2> QED BY <2>1
  <1>7. Len(FillMsgs(r, split)) \in Nat \ {0}
    BY <1>1, <1>2
  <1>8. \A i \in 1..Len(FillMsgs(r, split)) :
           FillMsgs(r, split)[i].t = r.t /\ FillMsgs(r, split)[i].n # 0
    BY <1>2, <1>6, Zenon
  <1> QED BY <1>5, <1>7, <1>8, Zenon

\* What the engine heard stays heard while nothing is taken back.
LEMMA HeardKept ==
  ASSUME HeardInv,
         UNCHANGED <<account, wire, local, order, reply, fills, blind>>,
         running' => running,
         unanswered \subseteq unanswered', missed \subseteq missed'
  PROVE  HeardInv'
  BY DEF HeardInv, Holdings, Replied, Told, InFlight

\* A boot imports what is held or is blind to it.
LEMMA HeardBoot ==
  ASSUME TypeOK, LocalInv, HeardInv, NEW m, NEW found, NEW positionsRead, NEW warm,
         Boot(m, found, positionsRead, warm)
  PROVE  HeardInv'
  <1> DEFINE imported == Imported(positionsRead)
  <1>1. /\ blind' = ({t \in Tickers : bought[t] > 0} \cup {r.t : r \in wire}) \ imported
        /\ local' = [t \in Tickers |-> IF t \in imported THEN account[t] ELSE 0]
        /\ UNCHANGED <<account, wire, order, reply, fills>>
    BY DEF Boot, fillVars
  <1>2. imported \subseteq Holdings
    BY DEF Imported
  <1> HIDE DEF imported
  <1>3. \A t \in Holdings : t \in Tickers /\ (t \in imported => local'[t] # 0)
    BY <1>1 DEF Holdings
  <1>4. \A t \in Holdings : bought[t] > 0
    BY DEF Holdings, LocalInv, SourcesWithin, Within, TypeOK
  <1>5. \A t \in Holdings : local'[t] # 0 \/ t \in blind'
    BY <1>1, <1>3, <1>4
  <1>6. \A r \in wire : local'[r.t] # 0 \/ r.t \in blind'
    BY <1>1, <1>2, <1>3
  <1>7. Holdings' = Holdings
    BY <1>1 DEF Holdings
  <1> QED BY <1>1, <1>5, <1>6, <1>7 DEF HeardInv, Replied, Told

\* A matched order is the awaited one, whose reply is now there, or one that
\* was given up; its fills go out on the channel, or are missed.
LEMMA HeardMatch ==
  ASSUME TypeOK, HeardInv, NEW r \in wire, NEW k \in 0..MaxContracts,
         NEW split \in Splits(k), Match(r, k, split)
  PROVE  HeardInv'
  <1>1. /\ r \in Requests /\ r.t \in Tickers /\ r # NoOrder /\ k \in Nat
        /\ wire' = wire \ {r}
        /\ account' = [account EXCEPT ![r.t] = @ + Signed(r.side, k)]
        /\ reply' = IF order = r THEN k ELSE reply
        /\ fills' = IF fillUp /\ k > 0 THEN fills \o FillMsgs(r, split) ELSE fills
        /\ missed' = IF ~fillUp /\ k > 0 THEN missed \cup {r.t} ELSE missed
        /\ UNCHANGED <<running, local, order, blind, unanswered>>
    BY NoOrderIsNone, LimitAssumption DEF Match, TypeOK, Requests
  <1>2. /\ \A i \in 1..Len(fills') : fills'[i].n # 0
        /\ \A t : InFlight(t) => InFlight(t)'
        /\ fillUp /\ k > 0 => InFlight(r.t)'
    <2>1. CASE ~(fillUp /\ k > 0)
      BY <1>1, <2>1 DEF HeardInv, InFlight
    <2>2. CASE fillUp /\ k > 0
      <3> DEFINE msgs == FillMsgs(r, split)
      <3>1. /\ msgs \in Seq(Fill) /\ Len(msgs) \in Nat \ {0}
            /\ \A i \in 1..Len(msgs) : msgs[i].t = r.t /\ msgs[i].n # 0
        BY <1>1, <2>2, FillMsgsCount
      <3>2. fills' = fills \o msgs /\ fills \in Seq(Fill) /\ Len(fills) \in Nat
        <4>1. fills \in Seq(Fill)
          BY DEF TypeOK, Fill
        <4>2. Len(fills) \in Nat
          BY <4>1, LenProperties
        <4>3. fills' = fills \o msgs
          BY <1>1, <2>2
        <4> QED BY <4>1, <4>2, <4>3
      <3> HIDE DEF msgs
      <3>3. /\ Len(fills') = Len(fills) + Len(msgs)
            /\ \A i \in 1..Len(fills) + Len(msgs) :
                  fills'[i] = IF i <= Len(fills) THEN fills[i] ELSE msgs[i - Len(fills)]
        BY <3>1, <3>2, ConcatProperties
      <3>4. ASSUME NEW i \in 1..Len(fills') PROVE fills'[i].n # 0
        <4>1. CASE i <= Len(fills)
          BY <3>1, <3>2, <3>3, <4>1 DEF HeardInv
        <4>2. CASE i > Len(fills)
          <5>1. i - Len(fills) \in 1..Len(msgs) /\ fills'[i] = msgs[i - Len(fills)]
            BY <3>1, <3>2, <3>3, <4>2
          <5> QED BY <3>1, <5>1
        <4> QED BY <3>2, <4>1, <4>2
      <3>5. ASSUME NEW t, InFlight(t) PROVE InFlight(t)'
        <4>1. PICK i \in 1..Len(fills) : fills[i].t = t
          BY <3>5 DEF InFlight
        <4>2. i \in 1..Len(fills') /\ fills'[i] = fills[i]
          BY <3>1, <3>2, <3>3
        <4> QED BY <4>1, <4>2 DEF InFlight
      <3>6. InFlight(r.t)'
        <4>1. Len(fills) + 1 \in 1..Len(fills') /\ fills'[Len(fills) + 1] = msgs[1]
              /\ 1 \in 1..Len(msgs)
          BY <3>1, <3>2, <3>3
        <4> QED BY <3>1, <4>1 DEF InFlight
      <3> QED BY <3>4, <3>5, <3>6
    <2> QED BY <2>1, <2>2
  <1>3. order' # NoOrder /\ reply' # NoReply => order' \notin wire'
    BY <1>1 DEF HeardInv
  <1>4. \A t \in Tickers : Told(t) => Told(t)'
    BY <1>1, <1>2 DEF Told
  <1>5. \A t \in Tickers : Replied(t) /\ (t = r.t => order # r) => Replied(t)'
    <2>1. order = r => reply = NoReply
      BY <1>1 DEF HeardInv
    <2>2. ~(NoReply > 0)
      BY DEF NoReply
    <2> QED BY <1>1, <2>1, <2>2 DEF Replied
  <1>6. running => \A s \in wire' :
                     s = order' \/ s.t \in blind' \cup unanswered' \/ local'[s.t] # 0
    BY <1>1 DEF HeardInv
  <1>7. ASSUME running, NEW t \in Holdings' PROVE Replied(t)' /\ Told(t)'
    <2>1. t \in Tickers
      BY <1>7 DEF Holdings
    <2>2. CASE t \in Holdings /\ (t = r.t => order # r)
      BY <1>4, <1>5, <1>7, <2>1, <2>2 DEF HeardInv
    <2>3. CASE t \notin Holdings \/ (t = r.t /\ order = r)
      <3>1. t = r.t
        BY <1>1, <1>7, <2>1, <2>3 DEF Holdings, TypeOK
      <3>2. CASE k = 0
        <4>1. account' = account
          BY <1>1, <3>2 DEF TypeOK, Signed
        <4>2. t \in Holdings /\ order = r
          BY <1>7, <2>1, <2>3, <4>1 DEF Holdings
        <4>3. Replied(t) /\ Told(t)
          BY <1>7, <4>2 DEF HeardInv
        <4>4. reply = NoReply /\ ~(NoReply > 0)
          BY <1>1, <4>2 DEF HeardInv, NoReply
        <4> QED BY <1>1, <1>4, <2>1, <4>3, <4>4 DEF Replied
      <3>3. CASE k > 0
        <4>1. Told(t)'
          BY <1>1, <1>2, <3>1, <3>3 DEF Told
        <4>2. Replied(t)'
          BY <1>1, <1>7, <3>1, <3>3 DEF Replied, HeardInv
        <4> QED BY <4>1, <4>2
      <3> QED BY <1>1, <3>2, <3>3
    <2> QED BY <2>2, <2>3
  <1> QED BY <1>1, <1>2, <1>3, <1>6, <1>7 DEF HeardInv

LEMMA HeardListener == TypeOK /\ HeardInv /\ Listener => HeardInv'
  <1> SUFFICES ASSUME TypeOK, HeardInv, Listener PROVE HeardInv'
    OBVIOUS
  <1>1. CASE ApplyFill
    <2>1. /\ fills \in Seq(Fill) /\ fills # <<>>
          /\ local' = [local EXCEPT ![Head(fills).t] = Head(fills).n]
          /\ fills' = Tail(fills)
          /\ UNCHANGED <<running, account, wire, order, reply, blind, missed, unanswered>>
      BY <1>1 DEF ApplyFill, TypeOK, Fill, histVars
    <2>2. /\ Head(fills) = fills[1] /\ Len(fills) \in Nat \ {0}
          /\ Len(fills') = Len(fills) - 1
          /\ \A i \in 1..Len(fills') : fills'[i] = fills[i + 1] /\ i + 1 \in 1..Len(fills)
      BY <2>1
    <2>3. fills[1].n # 0 /\ fills[1].t \in Tickers
      <3>1. fills[1] \in Fill
        BY <2>1, <2>2
      <3> QED BY <2>2, <3>1 DEF HeardInv, Fill
    <2>4. \A t \in Tickers : (local[t] # 0 => local'[t] # 0)
                             /\ (fills[1].t = t => local'[t] # 0)
      BY <2>1, <2>2, <2>3 DEF TypeOK
    <2>5. \A t \in Tickers : Told(t) => Told(t)'
      <3> SUFFICES ASSUME NEW t \in Tickers, InFlight(t), fills[1].t # t
                   PROVE  InFlight(t)'
        BY <2>1, <2>4 DEF Told
      <3>1. PICK i \in 1..Len(fills) : fills[i].t = t /\ i # 1
        BY DEF InFlight
      <3>2. i - 1 \in 1..Len(fills') /\ fills'[i - 1] = fills[i]
        BY <2>2, <3>1
      <3> QED BY <3>1, <3>2 DEF InFlight
    <2>6. \A t \in Tickers : Replied(t) => Replied(t)'
      BY <2>1, <2>4 DEF Replied
    <2>7. Holdings' = Holdings /\ Holdings \subseteq Tickers
      BY <2>1 DEF Holdings
    <2>8. \A i \in 1..Len(fills') : fills'[i].n # 0
      BY <2>2 DEF HeardInv
    <2>9. \A r \in wire : r.t \in Tickers
      BY DEF TypeOK, Requests
    <2> QED BY <2>1, <2>4, <2>5, <2>6, <2>7, <2>8, <2>9 DEF HeardInv
  <1>2. CASE FillConnect
    BY <1>2, HeardKept DEF FillConnect, histVars
  <1>3. CASE FillDrop
    <2>1. /\ fills' = <<>> /\ missed' = missed \cup {fills[i].t : i \in 1..Len(fills)}
          /\ UNCHANGED <<running, account, wire, local, order, reply, blind, unanswered>>
      BY <1>3 DEF FillDrop
    <2>2. \A t : Told(t) => Told(t)'
      BY <2>1 DEF Told, InFlight
    <2>3. \A t : Replied(t) => Replied(t)'
      BY <2>1 DEF Replied
    <2>4. Holdings' = Holdings
      BY <2>1 DEF Holdings
    <2> QED BY <2>1, <2>2, <2>3, <2>4 DEF HeardInv
  <1>4. CASE SkipFill
    <2>1. /\ fills \in Seq(Fill) /\ fills # <<>> /\ fills' = Tail(fills)
          /\ missed' = missed \cup {Head(fills).t}
          /\ UNCHANGED <<running, account, wire, local, order, reply, blind, unanswered>>
      BY <1>4 DEF SkipFill, TypeOK, Fill
    <2>2. /\ Head(fills) = fills[1] /\ Len(fills) \in Nat \ {0}
          /\ Len(fills') = Len(fills) - 1
          /\ \A i \in 1..Len(fills') : fills'[i] = fills[i + 1] /\ i + 1 \in 1..Len(fills)
      BY <2>1
    <2>3. \A t \in Tickers : Told(t) => Told(t)'
      <3> SUFFICES ASSUME NEW t \in Tickers, InFlight(t), fills[1].t # t
                   PROVE  InFlight(t)'
        BY <2>1, <2>2 DEF Told
      <3>1. PICK i \in 1..Len(fills) : fills[i].t = t /\ i # 1
        BY DEF InFlight
      <3>2. i - 1 \in 1..Len(fills') /\ fills'[i - 1] = fills[i]
        BY <2>2, <3>1
      <3> QED BY <3>1, <3>2 DEF InFlight
    <2>4. \A t \in Tickers : Replied(t) => Replied(t)'
      BY <2>1 DEF Replied
    <2>5. Holdings' = Holdings /\ Holdings \subseteq Tickers
      BY <2>1 DEF Holdings
    <2>6. \A i \in 1..Len(fills') : fills'[i].n # 0
      BY <2>2 DEF HeardInv
    <2>7. \A r \in wire : r.t \in Tickers
      BY DEF TypeOK, Requests
    <2> QED BY <2>1, <2>3, <2>4, <2>5, <2>6, <2>7 DEF HeardInv
  <1> QED BY <1>1, <1>2, <1>3, <1>4 DEF Listener

\* The reply is recorded, or given up.
LEMMA HeardReply == TypeOK /\ HeardInv /\ (OrderReply \/ OrderError) => HeardInv'
  <1> SUFFICES ASSUME TypeOK, HeardInv, OrderReply \/ OrderError PROVE HeardInv'
    OBVIOUS
  <1>1. /\ order # NoOrder /\ order' = NoOrder /\ order \in Requests /\ order.t \in Tickers
        /\ UNCHANGED <<running, account, wire, fills, blind, missed>>
    BY DEF OrderReply, OrderError, TypeOK, Requests, fillVars, histVars
  <1>2. \A t : InFlight(t)' <=> InFlight(t)
    BY <1>1 DEF InFlight
  <1>3. Holdings' = Holdings /\ Holdings \subseteq Tickers /\ \A r \in wire : r.t \in Tickers
    BY <1>1 DEF Holdings, TypeOK, Requests
  <1>4. CASE OrderReply
    <2>1. /\ reply # NoReply /\ unanswered' = unanswered
          /\ local' = IF reply > 0
                      THEN [local EXCEPT ![order.t] = Signed(order.side, reply)] ELSE local
      BY <1>4 DEF OrderReply, histVars
    <2>2. reply \in Nat
      BY <2>1, LimitAssumption DEF TypeOK
    <2>3. \A t \in Tickers : local[t] # 0 \/ (order.t = t /\ reply > 0) => local'[t] # 0
      BY <1>1, <2>1, <2>2 DEF TypeOK, Signed
    <2>4. \A t \in Tickers : (Replied(t) => Replied(t)') /\ (Told(t) => Told(t)')
      BY <1>1, <1>2, <2>1, <2>3 DEF Replied, Told
    <2>5. order \notin wire
      BY <1>1, <2>1 DEF HeardInv
    <2> QED BY <1>1, <1>3, <2>1, <2>3, <2>4, <2>5 DEF HeardInv
  <1>5. CASE OrderError
    <2>1. local' = local /\ unanswered' = unanswered \cup {order.t}
      BY <1>5 DEF OrderError
    <2>2. \A t \in Tickers : (Replied(t) => Replied(t)') /\ (Told(t) => Told(t)')
      BY <1>1, <1>2, <2>1 DEF Replied, Told
    <2> QED BY <1>1, <1>3, <2>1, <2>2 DEF HeardInv
  <1> QED BY <1>4, <1>5

LEMMA HeardStep == TypeOK /\ LocalInv /\ HeardInv /\ [Next]_vars => HeardInv'
  <1> SUFFICES ASSUME TypeOK, LocalInv, HeardInv, [Next]_vars PROVE HeardInv'
    OBVIOUS
  <1> USE DEF lockVars, riskVars, fillVars, histVars
  <1>1. CASE Process
    <2>1. CASE Die
      BY <2>1 DEF Die, NoProcess, HeardInv
    <2> QED BY <1>1, <2>1, HeardBoot DEF Process
  <1>2. CASE Feeds
    <2>1. UNCHANGED <<running, account, wire, local, order, reply, fills, blind,
                      missed, unanswered>>
      BY <1>2 DEF Feeds, Tick, SpotTick, BookUpdate, Enqueue, RegisterMarket
    <2> QED BY <2>1, HeardKept
  <1>3. CASE HandleSpot \/ IgnoreBook \/ EvaluateSkip \/ EnterVetoed
    BY <1>3, HeardKept DEF HandleSpot, IgnoreBook, EvaluateSkip, EnterVetoed, Enter, Pop
  <1>4. ASSUME NEW size \in 1..MaxSize, EnterSubmitted(size) PROVE HeardInv'
    <2>1. /\ order = NoOrder /\ wire' = wire \cup {order'}
          /\ UNCHANGED <<running, account, local, reply, fills, blind, missed, unanswered>>
      BY <1>4 DEF EnterSubmitted, Enter, Pop
    <2>2. reply = NoReply
      BY <2>1 DEF LocalInv, SourcesWithin
    <2>3. \A t : (Replied(t) => Replied(t)') /\ (Told(t) => Told(t)')
      BY <2>1 DEF Replied, Told, InFlight
    <2>4. Holdings' = Holdings
      BY <2>1 DEF Holdings
    <2>5. running => \A r \in wire : r.t \in blind \cup unanswered \/ local[r.t] # 0
      BY <2>1, NoOrderIsNone DEF HeardInv, TypeOK
    <2> QED BY <2>1, <2>2, <2>3, <2>4, <2>5 DEF HeardInv
  <1>5. CASE Consumer
    BY <1>3, <1>4, <1>5, HeardReply DEF Consumer
  <1>6. ASSUME NEW t \in Tickers, Settle(t) PROVE HeardInv'
    <2>1. /\ account' = [account EXCEPT ![t] = 0]
          /\ UNCHANGED <<running, wire, local, order, reply, fills, blind, missed, unanswered>>
      BY <1>6 DEF Settle
    <2>2. Holdings' \subseteq Holdings
      BY <2>1 DEF Holdings, TypeOK
    <2>3. \A u : (Replied(u) => Replied(u)') /\ (Told(u) => Told(u)')
      BY <2>1 DEF Replied, Told, InFlight
    <2> QED BY <2>1, <2>2, <2>3 DEF HeardInv
  <1>7. CASE Exchange
    BY <1>6, <1>7, HeardMatch DEF Exchange
  <1>8. CASE Listener
    BY <1>8, HeardListener
  <1>9. CASE UNCHANGED vars
    BY <1>9, HeardKept DEF vars
  <1> QED BY <1>1, <1>2, <1>5, <1>7, <1>8, <1>9 DEF Next

\* execution.open_positions misses a position only while the engine is about to
\* hear of it, after it lost both the reply and the fill message, or when its
\* boot did not import it: one failure alone hides nothing.
THEOREM HoldingsKnown == Spec => []HoldingKnown
  <1>1. Init => LocalInv /\ HeardInv
    BY DEF Init, LocalInv, LocalNeverOverstates, SourcesWithin, Within, HeardInv
  <1>2. TypeOK /\ TypeOK' /\ LocalInv /\ [Next]_vars => LocalInv'
    BY LocalStep
  <1>3. TypeOK /\ LocalInv /\ HeardInv /\ [Next]_vars => HeardInv'
    BY HeardStep
  <1>4. HeardInv => HoldingKnown
    BY DEF HeardInv, HoldingKnown, Replied, Told, InFlight
  <1> QED BY <1>1, <1>2, <1>3, <1>4, TypeCorrect, PTL DEF Spec
-----------------------------------------------------------------------------
(* What several processes buy together. *)

OrdersFor(t) == {r \in wire : r.t = t}

\* Processes that may have sent an order for t: those before the running one, and
\* that one too once t is in its entered.
Senders(t) == IF running /\ t \notin entered THEN boots - 1 ELSE boots

Quota(n) == MaxContracts * n

\* Each of them has at most one order, matched or still on the wire.
QuotaInv ==
    /\ IsFiniteSet(wire)
    /\ running => boots > 0
    /\ \A t \in Tickers :
          bought[t] + Quota(Cardinality(OrdersFor(t))) <= Quota(Senders(t))

LEMMA QuotaStep ==
    ASSUME NEW n \in Int
    PROVE  /\ Quota(n) \in Int /\ Quota(n + 1) = Quota(n) + MaxContracts
           /\ Quota(n - 1) = Quota(n) - MaxContracts
  BY LimitAssumption DEF Quota

LEMMA OrdersForFinite ==
    ASSUME IsFiniteSet(wire), NEW t
    PROVE  IsFiniteSet(OrdersFor(t)) /\ Cardinality(OrdersFor(t)) \in Nat
  <1>1. OrdersFor(t) \subseteq wire
    BY DEF OrdersFor
  <1> QED BY <1>1, FS_Subset, FS_CardinalityType

\* The quota only grows with what the engine does by itself: an action that
\* neither sends nor matches keeps it if no process is forgotten.
LEMMA QuotaKept ==
    ASSUME TypeOK, TypeOK', QuotaInv, UNCHANGED <<wire, bought>>,
           running' => boots' > 0,
           \A t \in Tickers : Senders(t)' \in {Senders(t), Senders(t) + 1}
    PROVE  QuotaInv'
  <1> SUFFICES ASSUME NEW t \in Tickers
               PROVE  bought[t] + Quota(Cardinality(OrdersFor(t))) <= Quota(Senders(t)')
    BY DEF QuotaInv, OrdersFor, Quota
  <1>1. Senders(t) \in Int /\ bought[t] \in Nat
    BY DEF Senders, TypeOK
  <1>2. Cardinality(OrdersFor(t)) \in Nat
    BY OrdersForFinite DEF QuotaInv
  <1>3. Quota(Senders(t)) <= Quota(Senders(t)')
    BY <1>1, QuotaStep, LimitAssumption
  <1>4. /\ Quota(Senders(t)) \in Int /\ Quota(Senders(t)') \in Int
        /\ Quota(Cardinality(OrdersFor(t))) \in Int
    BY <1>1, <1>2, QuotaStep
  <1> QED BY <1>1, <1>3, <1>4 DEF QuotaInv

LEMMA QuotaInvStep == TypeOK /\ TypeOK' /\ QuotaInv /\ [Next]_vars => QuotaInv'
  <1> SUFFICES ASSUME TypeOK, TypeOK', QuotaInv, [Next]_vars PROVE QuotaInv'
    OBVIOUS
  <1> USE DEF lockVars, riskVars, fillVars, histVars
  <1>0. boots \in Nat /\ running \in BOOLEAN
    BY LimitAssumption DEF TypeOK
  <1>1. ASSUME NEW m \in Modes, NEW found \in SUBSET Cryptos,
               NEW positionsRead \in BOOLEAN,
               NEW warm \in [Cryptos -> {Never} \cup 0..clock],
               Boot(m, found, positionsRead, warm)
        PROVE QuotaInv'
    <2>1. /\ ~running /\ running' = TRUE /\ entered' = {} /\ boots' = boots + 1
          /\ UNCHANGED <<wire, bought>>
      BY <1>1 DEF Boot
    <2>2. \A t \in Tickers : Senders(t)' = Senders(t)
      BY <1>0, <2>1 DEF Senders
    <2> QED BY <1>0, <2>1, <2>2, QuotaKept
  <1>2. CASE Die
    <2>1. running' = FALSE /\ UNCHANGED <<wire, bought, boots>>
      BY <1>2 DEF Die, NoProcess
    <2>2. \A t \in Tickers : Senders(t)' \in {Senders(t), Senders(t) + 1}
      BY <1>0, <2>1 DEF Senders
    <2> QED BY <2>1, <2>2, QuotaKept
  \* What leaves the locks alone.
  <1>3. CASE UNCHANGED <<wire, bought, boots, running, entered>>
    <2>1. \A t \in Tickers : Senders(t)' = Senders(t)
      BY <1>3 DEF Senders
    <2> QED BY <1>3, <2>1, QuotaKept DEF QuotaInv
  <1>4. CASE Feeds
    BY <1>3, <1>4 DEF Feeds, Tick, SpotTick, BookUpdate, Enqueue, RegisterMarket
  <1>5. CASE HandleSpot \/ IgnoreBook \/ EvaluateSkip \/ OrderReply \/ OrderError
    BY <1>3, <1>5
       DEF HandleSpot, IgnoreBook, EvaluateSkip, OrderReply, OrderError, Pop, MarkEvaluated
  \* A vetoed entry spends the process's order without sending one.
  <1>6. CASE EnterVetoed
    <2>1. /\ entered' = entered \cup {Head(queue).t}
          /\ UNCHANGED <<wire, bought, boots, running>>
      BY <1>6 DEF EnterVetoed, Enter, MarkEntered
    <2>2. \A t \in Tickers : Senders(t)' \in {Senders(t), Senders(t) + 1}
      BY <1>0, <2>1 DEF Senders
    <2> QED BY <2>1, <2>2, QuotaKept DEF QuotaInv
  \* The order that leaves is the first of this process for its market.
  <1>7. ASSUME NEW size \in 1..MaxSize, EnterSubmitted(size) PROVE QuotaInv'
    <2> DEFINE req == [t |-> Head(queue).t, side |-> Head(queue).fav,
                       n |-> Sized(size), gen |-> boots]
    <2>1. /\ wire' = wire \cup {req} /\ req.t = Head(queue).t
          /\ entered' = entered \cup {req.t} /\ req.t \notin entered
          /\ running /\ UNCHANGED <<bought, boots, running>>
      BY <1>7 DEF EnterSubmitted, Enter, MarkEntered, Pop, Evaluates, Locked
    <2> HIDE DEF req
    <2>2. IsFiniteSet(wire')
      BY <2>1, FS_AddElement DEF QuotaInv
    <2>3. ASSUME NEW t \in Tickers
          PROVE  bought[t] + Quota(Cardinality(OrdersFor(t)')) <= Quota(Senders(t)')
      <3>0. /\ Senders(t) \in Int /\ bought[t] \in Nat
            /\ Cardinality(OrdersFor(t)) \in Nat /\ IsFiniteSet(OrdersFor(t))
            /\ bought[t] + Quota(Cardinality(OrdersFor(t))) <= Quota(Senders(t))
        BY <1>0, <2>3, OrdersForFinite DEF Senders, TypeOK, QuotaInv
      <3>1. CASE t # req.t
        <4>1. OrdersFor(t)' = OrdersFor(t) /\ Senders(t)' = Senders(t)
          BY <2>1, <3>1 DEF OrdersFor, Senders
        <4> QED BY <3>0, <4>1
      <3>2. CASE t = req.t
        <4>1. OrdersFor(t)' = OrdersFor(t) \cup {req} /\ Senders(t)' = Senders(t) + 1
          BY <1>0, <2>1, <3>2 DEF OrdersFor, Senders
        <4>2. Cardinality(OrdersFor(t)') \in {Cardinality(OrdersFor(t)),
                                              Cardinality(OrdersFor(t)) + 1}
          BY <3>0, <4>1, FS_AddElement
        <4>3. /\ Quota(Senders(t)') = Quota(Senders(t)) + MaxContracts
              /\ Quota(Cardinality(OrdersFor(t)'))
                    <= Quota(Cardinality(OrdersFor(t))) + MaxContracts
          BY <3>0, <4>1, <4>2, QuotaStep, LimitAssumption
        <4>4. /\ Quota(Senders(t)) \in Int /\ Quota(Cardinality(OrdersFor(t))) \in Int
              /\ Quota(Cardinality(OrdersFor(t)')) \in Int
          BY <3>0, <4>2, QuotaStep
        <4> QED BY <3>0, <4>3, <4>4, LimitAssumption
      <3> QED BY <3>1, <3>2
    <2> QED BY <2>1, <2>2, <2>3 DEF QuotaInv, Quota
  \* A match turns an order on the wire into at most what it asked for.
  <1>8. ASSUME NEW r \in wire, NEW k \in 0..MaxContracts, NEW split \in Splits(k),
               Match(r, k, split)
        PROVE QuotaInv'
    <2>1. /\ wire' = wire \ {r} /\ bought' = [bought EXCEPT ![r.t] = @ + k]
          /\ UNCHANGED <<boots, running, entered>>
      BY <1>8 DEF Match
    <2>2. IsFiniteSet(wire')
      BY <2>1, FS_RemoveElement DEF QuotaInv
    <2>3. ASSUME NEW t \in Tickers
          PROVE  bought'[t] + Quota(Cardinality(OrdersFor(t)')) <= Quota(Senders(t)')
      <3>0. /\ Senders(t)' = Senders(t) /\ bought[t] \in Nat
            /\ Cardinality(OrdersFor(t)) \in Nat /\ IsFiniteSet(OrdersFor(t))
            /\ bought[t] + Quota(Cardinality(OrdersFor(t))) <= Quota(Senders(t))
        BY <2>1, <2>3, OrdersForFinite DEF Senders, TypeOK, QuotaInv
      <3>1. CASE t # r.t
        <4>1. OrdersFor(t)' = OrdersFor(t) /\ bought'[t] = bought[t]
          BY <2>1, <3>1 DEF OrdersFor, TypeOK
        <4> QED BY <3>0, <4>1
      <3>2. CASE t = r.t
        <4>1. OrdersFor(t)' = OrdersFor(t) \ {r} /\ r \in OrdersFor(t)
          BY <2>1, <3>2 DEF OrdersFor
        <4>2. Cardinality(OrdersFor(t)') = Cardinality(OrdersFor(t)) - 1
          BY <3>0, <4>1, FS_RemoveElement
        <4>3. bought'[t] = bought[t] + k
          BY <2>1, <3>2 DEF TypeOK
        <4>4. Quota(Cardinality(OrdersFor(t)'))
                 = Quota(Cardinality(OrdersFor(t))) - MaxContracts
          BY <3>0, <4>2, QuotaStep
        <4>5. Senders(t) \in Int /\ Quota(Senders(t)) \in Int
              /\ Quota(Cardinality(OrdersFor(t))) \in Int
          BY <1>0, <3>0, QuotaStep DEF Senders
        <4> QED BY <3>0, <4>3, <4>4, <4>5, LimitAssumption
      <3> QED BY <3>1, <3>2
    <2> QED BY <2>1, <2>2, <2>3 DEF QuotaInv, Quota
  <1>9. ASSUME NEW t \in Tickers, Settle(t) PROVE QuotaInv'
    BY <1>3, <1>9 DEF Settle
  <1>10. CASE Listener
    BY <1>3, <1>10 DEF Listener, ApplyFill, SkipFill, FillConnect, FillDrop
  <1>11. CASE UNCHANGED vars
    BY <1>3, <1>11 DEF vars
  <1>12. CASE Process
    BY <1>1, <1>2, <1>12 DEF Process
  <1>13. CASE Consumer
    BY <1>5, <1>6, <1>7, <1>13 DEF Consumer
  <1>14. CASE Exchange
    BY <1>8, <1>9, <1>14 DEF Exchange
  <1> QED BY <1>4, <1>10, <1>11, <1>12, <1>13, <1>14 DEF Next

LEMMA QuotaInit == Init => QuotaInv
  <1> SUFFICES ASSUME Init PROVE QuotaInv
    OBVIOUS
  <1>1. IsFiniteSet(wire) /\ ~running /\ boots = 0
    BY FS_EmptySet DEF Init
  <1>2. ASSUME NEW t \in Tickers PROVE bought[t] = 0 /\ Cardinality(OrdersFor(t)) = 0
    BY FS_EmptySet DEF Init, OrdersFor
  <1> QED BY <1>1, <1>2, LimitAssumption DEF QuotaInv, Quota, Senders

\* A lock that is lost with its process, or ignored, lets one more process buy
\* and no process buy twice.
THEOREM PurchasesPerProcess == Spec => []BoughtPerProcess
  <1>1. TypeOK /\ QuotaInv => BoughtPerProcess
    <2> SUFFICES ASSUME TypeOK, QuotaInv, NEW t \in Tickers
                 PROVE  bought[t] <= Quota(boots)
      BY DEF BoughtPerProcess, Quota
    <2>1. boots \in Nat /\ bought[t] \in Nat /\ Cardinality(OrdersFor(t)) \in Nat
      BY LimitAssumption, OrdersForFinite DEF TypeOK, QuotaInv
    <2>2. Quota(Cardinality(OrdersFor(t))) \in Nat
      BY <2>1, LimitAssumption DEF Quota
    <2>3. Quota(Senders(t)) <= Quota(boots) /\ Quota(Senders(t)) \in Int /\ Quota(boots) \in Int
      BY <2>1, QuotaStep, LimitAssumption DEF Senders
    <2> QED BY <2>1, <2>2, <2>3 DEF QuotaInv
  <1>2. Spec => []QuotaInv
    BY TypeInit, TypeStep, QuotaInit, QuotaInvStep, PTL DEF Spec
  <1> QED BY <1>1, <1>2, TypeCorrect, PTL
-----------------------------------------------------------------------------
(* The age of the spot, which the envelope takes against stamps of events.   *)

IsBook(ev) == ev.kind = "book"

\* Stamps of spots are not in the order of the queue, but a spot was received
\* before the books behind it, so that no spot known or queued is stamped more
\* than MaxLead after a book that is yet to be handled.
StampInv ==
    /\ ~running => queue = <<>>
    /\ \A i \in 1..Len(queue) :
         /\ queue[i].at <= clock + MaxLead
         /\ IsBook(queue[i]) =>
              /\ \A c \in Cryptos : lastSpot[c] <= queue[i].at + MaxLead
              /\ \A j \in 1..i : queue[j].at <= queue[i].at + MaxLead
    /\ \A c \in Cryptos : lastSpot[c] <= clock + MaxLead

\* An action that leaves the events and the spots alone.
LEMMA StampKept ==
    ASSUME StampInv, UNCHANGED <<clock, queue, lastSpot, running>>
    PROVE  StampInv'
  BY DEF StampInv, IsBook

LEMMA QueueTyped ==
    ASSUME TypeOK
    PROVE  /\ queue \in Seq(SpotEvents \cup BookEvents)
           /\ clock \in Int /\ MaxLead \in Nat /\ Len(queue) \in Nat
           /\ \A i \in 1..Len(queue) : queue[i].at \in Int
           /\ \A c \in Cryptos : lastSpot[c] \in Int
  <1>1. queue \in Seq(SpotEvents \cup BookEvents)
    BY DEF TypeOK
  <1>2. \A i \in 1..Len(queue) : queue[i] \in SpotEvents \cup BookEvents
    BY <1>1
  <1>3. \A ev \in SpotEvents \cup BookEvents : ev.at \in Int
    BY LimitAssumption DEF SpotEvents, BookEvents, Time, Stamps
  <1>4. clock \in Int /\ \A c \in Cryptos : lastSpot[c] \in Int
    BY LimitAssumption DEF TypeOK, Time, Stamps, Never
  <1> QED BY <1>1, <1>2, <1>3, <1>4, LimitAssumption

\* What is received joins at the end: a spot stamped at most MaxLead ahead of
\* the clock, or a book stamped by the clock.
LEMMA StampEnqueue ==
    ASSUME TypeOK, StampInv, NEW ev \in SpotEvents \cup BookEvents, Enqueue(ev),
           ev.at <= clock + MaxLead, IsBook(ev) => ev.at = clock
    PROVE  StampInv'
  <1>1. /\ running /\ queue' = Append(queue, ev)
        /\ UNCHANGED <<clock, lastSpot, running>>
    BY DEF Enqueue, riskVars
  <1>2. /\ Len(queue') = Len(queue) + 1 /\ queue'[Len(queue) + 1] = ev
        /\ \A i \in 1..Len(queue) : queue'[i] = queue[i]
    BY <1>1, QueueTyped
  <1>3. \A i \in 1..Len(queue') : i \in 1..Len(queue) \/ i = Len(queue) + 1
    BY <1>2, QueueTyped
  <1>4. \A i \in 1..Len(queue') : queue'[i].at <= clock + MaxLead
    BY <1>2, <1>3 DEF StampInv
  <1>5. ASSUME NEW i \in 1..Len(queue'), IsBook(queue'[i])
        PROVE  /\ \A c \in Cryptos : lastSpot[c] <= queue'[i].at + MaxLead
               /\ \A j \in 1..i : queue'[j].at <= queue'[i].at + MaxLead
    <2>1. CASE i \in 1..Len(queue)
      <3>1. \A j \in 1..i : j \in 1..Len(queue)
        BY <2>1, QueueTyped
      <3> QED BY <1>2, <1>5, <2>1, <3>1 DEF StampInv
    <2>2. CASE i = Len(queue) + 1
      <3>1. queue'[i].at = clock
        BY <1>2, <1>5, <2>2
      <3>2. \A j \in 1..i : j \in 1..Len(queue')
        BY <1>2, <2>2
      <3> QED BY <1>4, <3>1, <3>2 DEF StampInv
    <2> QED BY <1>3, <2>1, <2>2
  <1> QED BY <1>1, <1>4, <1>5 DEF StampInv

\* What a handled event leaves behind: each event moves up by one.
LEMMA StampPop ==
    ASSUME TypeOK, StampInv, NEW kind, Pop(kind), clock' = clock, running' = running,
           \A c \in Cryptos : lastSpot'[c] = lastSpot[c] \/ lastSpot'[c] = Head(queue).at
    PROVE  StampInv'
  <1>0. queue # <<>> /\ running
    BY DEF Pop
  <1>1. /\ queue' = Tail(queue) /\ Len(queue') = Len(queue) - 1
        /\ \A i \in 1..Len(queue') : queue'[i] = queue[i + 1]
        /\ Head(queue) = queue[1] /\ 1 \in 1..Len(queue)
    BY <1>0, QueueTyped DEF Pop
  <1>2. \A i \in 1..Len(queue') : i + 1 \in 1..Len(queue) /\ 1 \in 1..(i + 1)
    BY <1>1, QueueTyped
  <1>3. \A c \in Cryptos : lastSpot'[c] <= clock + MaxLead
    BY <1>1 DEF StampInv
  <1>4. ASSUME NEW i \in 1..Len(queue'), IsBook(queue'[i])
        PROVE  /\ \A c \in Cryptos : lastSpot'[c] <= queue'[i].at + MaxLead
               /\ \A j \in 1..i : queue'[j].at <= queue'[i].at + MaxLead
    <2>1. /\ \A c \in Cryptos : lastSpot[c] <= queue[i + 1].at + MaxLead
          /\ \A j \in 1..(i + 1) : queue[j].at <= queue[i + 1].at + MaxLead
      BY <1>1, <1>2, <1>4 DEF StampInv
    <2>2. \A j \in 1..i : j \in 1..Len(queue') /\ j + 1 \in 1..(i + 1)
      BY <1>1, QueueTyped
    <2> QED BY <1>1, <1>2, <2>1, <2>2
  <1>5. \A i \in 1..Len(queue') : queue'[i].at <= clock + MaxLead
    BY <1>1, <1>2 DEF StampInv
  <1> QED BY <1>0, <1>3, <1>4, <1>5 DEF StampInv

LEMMA StampStep == TypeOK /\ StampInv /\ [Next]_vars => StampInv'
  <1> SUFFICES ASSUME TypeOK, StampInv, [Next]_vars PROVE StampInv'
    OBVIOUS
  <1> USE DEF lockVars, riskVars, fillVars, histVars
  <1>0. clock \in Nat /\ MaxLead \in Nat
    BY LimitAssumption DEF TypeOK, Time
  <1>1. ASSUME NEW m \in Modes, NEW found \in SUBSET Cryptos,
               NEW positionsRead \in BOOLEAN,
               NEW warm \in [Cryptos -> {Never} \cup 0..clock],
               Boot(m, found, positionsRead, warm)
        PROVE StampInv'
    <2>1. /\ queue' = <<>> /\ clock' = clock /\ running' = TRUE /\ lastSpot' = warm
      BY <1>1 DEF Boot, StampInv
    <2>2. \A c \in Cryptos : warm[c] <= clock + MaxLead
      BY <1>0 DEF Never
    <2> QED BY <1>0, <2>1, <2>2 DEF StampInv
  <1>2. CASE Die
    <2>1. /\ queue' = <<>> /\ clock' = clock /\ running' = FALSE
          /\ lastSpot' = [c \in Cryptos |-> Never]
      BY <1>2 DEF Die, NoProcess
    <2> QED BY <1>0, <2>1 DEF StampInv, Never
  <1>3. CASE Tick
    <2>1. clock' = clock + 1 /\ UNCHANGED <<queue, lastSpot, running>>
      BY <1>3 DEF Tick
    <2>2. /\ \A i \in 1..Len(queue) : queue[i].at <= clock + 1 + MaxLead
          /\ \A c \in Cryptos : lastSpot[c] <= clock + 1 + MaxLead
      BY <1>0, QueueTyped DEF StampInv
    <2> QED BY <2>1, <2>2 DEF StampInv, IsBook
  <1>4. ASSUME NEW c \in Cryptos, NEW stamp \in Stamps, SpotTick(c, stamp) PROVE StampInv'
    <2> DEFINE ev == [kind |-> "spot", c |-> c, at |-> stamp]
    <2>1. ev \in SpotEvents /\ ~IsBook(ev) /\ ev.at <= clock + MaxLead /\ Enqueue(ev)
      BY <1>4 DEF SpotTick, SpotEvents, IsBook
    <2> HIDE DEF ev
    <2> QED BY <2>1, StampEnqueue
  <1>5. ASSUME NEW t \in Tickers, NEW fav \in Sides \cup {NoFavorite}, BookUpdate(t, fav)
        PROVE StampInv'
    <2> DEFINE ev == [kind |-> "book", t |-> t, fav |-> fav, at |-> clock]
    <2>1. ev \in BookEvents /\ ev.at = clock /\ Enqueue(ev)
      BY <1>5 DEF BookUpdate, BookEvents, TypeOK
    <2> HIDE DEF ev
    <2> QED BY <1>0, <2>1, StampEnqueue
  <1>6. ASSUME NEW t \in Tickers, RegisterMarket(t) PROVE StampInv'
    BY <1>6, StampKept DEF RegisterMarket
  <1>7. CASE HandleSpot
    <2>1. /\ Pop("spot") /\ UNCHANGED <<clock, running>>
          /\ lastSpot' = [lastSpot EXCEPT ![Head(queue).c] = Head(queue).at]
      BY <1>7 DEF HandleSpot
    <2>2. \A c \in Cryptos : lastSpot'[c] = lastSpot[c] \/ lastSpot'[c] = Head(queue).at
      BY <2>1 DEF TypeOK
    <2> QED BY <2>1, <2>2, StampPop
  <1>8. CASE IgnoreBook \/ EvaluateSkip \/ EnterVetoed \/ \E size \in 1..MaxSize : EnterSubmitted(size)
    <2>1. Pop("book") /\ UNCHANGED <<clock, running, lastSpot>>
      BY <1>8 DEF IgnoreBook, EvaluateSkip, EnterVetoed, EnterSubmitted, Enter
    <2> QED BY <2>1, StampPop
  <1>9. CASE OrderReply \/ OrderError
    BY <1>9, StampKept DEF OrderReply, OrderError
  <1>10. CASE Exchange
    BY <1>10, StampKept DEF Exchange, Match, Settle
  <1>11. CASE Listener
    BY <1>11, StampKept DEF Listener, ApplyFill, SkipFill, FillConnect, FillDrop
  <1>12. CASE UNCHANGED vars
    BY <1>12, StampKept DEF vars
  <1>13. CASE Process
    BY <1>1, <1>2, <1>13 DEF Process
  <1>14. CASE Feeds
    BY <1>3, <1>4, <1>5, <1>6, <1>14 DEF Feeds
  <1>15. CASE Consumer
    BY <1>7, <1>8, <1>9, <1>15 DEF Consumer
  <1> QED BY <1>10, <1>11, <1>12, <1>13, <1>14, <1>15 DEF Next

\* The spot an order rests on, against the book that triggered it: stamped by its
\* venue at most MaxSpotAge before our receipt of that book, and no further after
\* it than the venue's clock may be ahead.  What the order is late by is what the
\* book waited in the queue, which nothing bounds.
SpotFitsBook ==
    order' # order /\ order' # NoOrder =>
        LET book == Head(queue)
            spot == lastSpot[CryptoOf[book.t]]
        IN  /\ book.kind = "book" /\ order'.t = book.t /\ order'.side = book.fav
            /\ spot # Never /\ book.at - spot <= MaxSpotAge
            /\ spot <= book.at + MaxLead

\* Though the envelope's clock is a maximum over the stamps of all events so far,
\* the venues' and our own, and the queue is not in their order, an order leaves
\* only on a spot that was fresh at its own book, and not on one of a later time.
THEOREM SpotFreshAtBook == Spec => [][SpotFitsBook]_vars
  <1>1. TypeOK /\ StampInv /\ [Next]_vars => [SpotFitsBook]_vars
    <2> SUFFICES ASSUME TypeOK, StampInv, Next, order' # order, order' # NoOrder
                 PROVE  SpotFitsBook
      BY DEF SpotFitsBook
    <2>1. PICK size \in 1..MaxSize : EnterSubmitted(size)
      BY DEF Next, Process, Boot, Die, NoProcess, Feeds, Tick, SpotTick, BookUpdate,
             Enqueue, RegisterMarket, Consumer, HandleSpot, IgnoreBook, EvaluateSkip,
             EnterVetoed, OrderReply, OrderError, Exchange, Match, Settle, Listener,
             ApplyFill, SkipFill, FillConnect, FillDrop
    <2>2. /\ Pop("book") /\ SpotFresh(Head(queue).t, riskNow')
          /\ order'.t = Head(queue).t /\ order'.side = Head(queue).fav
      BY <2>1 DEF EnterSubmitted, Enter
    <2>3. IsBook(Head(queue)) /\ Head(queue).t \in Tickers /\ Head(queue).at \in Int
      BY <2>2, PopType, LimitAssumption DEF Pop, IsBook, Time
    <2>4. CryptoOf[Head(queue).t] \in Cryptos
      BY <2>3, MarketAssumption
    <2>5. lastSpot[CryptoOf[Head(queue).t]] \in Int /\ MaxSpotAge \in Int /\ riskNow \in Int
      BY <2>4, QueueTyped, LimitAssumption DEF TypeOK, Stamps
    <2>6. riskNow' \in Int /\ Head(queue).at <= riskNow'
      BY <2>2, <2>3, <2>5 DEF Pop, Max2
    <2>7. Head(queue).at - lastSpot[CryptoOf[Head(queue).t]] <= MaxSpotAge
      BY <2>2, <2>3, <2>5, <2>6 DEF SpotFresh
    <2>8. lastSpot[CryptoOf[Head(queue).t]] <= Head(queue).at + MaxLead
      <3>1. queue # <<>> /\ Head(queue) = queue[1] /\ 1 \in 1..Len(queue)
        BY <2>2, QueueTyped DEF Pop
      <3> QED BY <2>3, <2>4, <3>1 DEF StampInv
    <2> QED BY <2>2, <2>3, <2>7, <2>8 DEF SpotFitsBook, SpotFresh, IsBook
  <1>2. Init => StampInv
    BY LimitAssumption DEF Init, StampInv, Never
  <1> QED BY <1>1, <1>2, TypeInit, TypeStep, StampStep, PTL DEF Spec
=============================================================================
