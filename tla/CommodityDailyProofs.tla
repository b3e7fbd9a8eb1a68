------------------------- MODULE CommodityDailyProofs -------------------------
(***************************************************************************)
(* Proofs about the commodity engine for any strikes, marks, prices and    *)
(* caps, listings that fail in part, orders that fail, and restarts: one   *)
(* entry per strike, one order per mark, both caps on every day.           *)
(***************************************************************************)
EXTENDS CommodityDaily, SequenceTheorems, FiniteSetTheorems, TLAPS

(* What a pass over the markets leaves behind. *)

\* It ended, or stopped at a market of rest that is not entered, for which a
\* mark fired that had not fired before.
Passed(rest, ent, fired) ==
    \/ phase' = "sleep" /\ todo' = {} /\ current' = Nobody /\ evaluated' = fired
    \/ \E t \in rest \ ent :
        /\ phase' = "book" /\ todo' \subseteq rest
        /\ current' \in [t : {t}, quote : Quotes \ {"none"}]
        /\ \E m \in Marks \ fired[t] : evaluated' = [fired EXCEPT ![t] = @ \cup {m}]

LEMMA GoOnPasses ==
  ASSUME NEW rest \in SUBSET Tickers, NEW order, NEW now, NEW ent, NEW fired,
         quote \in [Commodities -> Quotes], GoOn(rest, order, now, ent, fired)
  PROVE  Passed(rest, ent, fired)
  <1> DEFINE due == {t \in rest : Due(t, now, ent, fired)}
  <1>1. CASE due = {} /\ phase' = "sleep" /\ todo' = {} /\ current' = Nobody /\ evaluated' = fired
    BY <1>1 DEF Passed
  <1>2. ASSUME NEW t \in due,
               phase' = "book",
               todo' = {u \in rest : <<t, u>> \in order},
               current' = [t |-> t, quote |-> quote[CommodityOf[t]]],
               evaluated' = [fired EXCEPT ![t] = @ \cup Mark(t, now)]
        PROVE  Passed(rest, ent, fired)
    <2>1. t \in rest \ ent /\ quote[CommodityOf[t]] # "none" /\ Mark(t, now) \ fired[t] # {}
      BY DEF Due
    <2>2. PICK m \in Mark(t, now) : m \notin fired[t]
      BY <2>1
    <2>3. m \in Marks /\ Mark(t, now) = {m}
      <3>1. Hits(t, now) \subseteq Nat /\ m \in Marks
        BY <2>2, CommodityAssumption DEF Mark, Hits
      <3>2. \A k \in Mark(t, now) : k = m
        BY <2>2, <3>1 DEF Mark
      <3> QED BY <2>2, <3>1, <3>2
    <2>4. current' \in [t : {t}, quote : Quotes \ {"none"}]
      BY <1>2, <2>1, CommodityAssumption
    <2>5. evaluated' = [fired EXCEPT ![t] = @ \cup {m}]
      BY <1>2, <2>3
    <2>6. todo' \subseteq rest
      BY <1>2
    <2> QED BY <1>2, <2>1, <2>2, <2>3, <2>4, <2>5, <2>6 DEF Passed
  <1> QED BY <1>1, <1>2 DEF GoOn
-----------------------------------------------------------------------------
(* The inductive invariant, by part. *)

\* The clock, the process and the prices.
TimeOK ==
    /\ clock \in 0..MaxTime /\ running \in BOOLEAN /\ stop \in BOOLEAN
    /\ quote \in [Commodities -> Quotes]
    /\ lastRefresh \in {Never} \cup 0..clock /\ passNow \in 0..clock

\* The order of the keys.
KeysOK ==
    /\ before \subseteq markets \X markets
    /\ \A t, u \in markets : <<t, u>> \in before <=> t # u /\ <<u, t>> \notin before

\* Where the pass stands: it evaluates a listed market that is not entered, and
\* orders one that is.
PassOK ==
    /\ markets \subseteq Tickers /\ entered \subseteq markets
    /\ evaluated \in [Tickers -> SUBSET Marks]
    /\ phase \in {"sleep", "listing", "book", "order"}
    /\ todo \subseteq markets
    /\ phase \in {"sleep", "listing"} => todo = {} /\ current = Nobody
    /\ phase \in {"book", "order"} => current \in [t : markets, quote : Quotes \ {"none"}]
    /\ phase = "book" => current.t \notin entered
    /\ phase = "order" => current.t \in entered
    /\ running \/ phase = "sleep"

Order == [t : Tickers, cost : Nat, day : Nat]

\* A market that is no longer listed never will be again.
Gone(t) == t \notin markets /\ CloseAt[t] <= clock

\* The order awaited is the last one; one that did not fail has its market
\* entered for good.
OrdersOK ==
    /\ orders \in Seq(Order)
    /\ \A i \in 1..Len(orders) : orders[i].day \in 0..Today
                                 /\ orders[i].cost \in UNION Range(CostsOf)
    /\ failed \subseteq 1..Len(orders) /\ onOld \in BOOLEAN
    /\ phase = "order" => orders # <<>> /\ Placed.t = current.t /\ Len(orders) \notin failed
    /\ \A i \in 1..Len(orders) \ failed : orders[i].t \in entered \/ Gone(orders[i].t)
    /\ OneEntry

Sent(t) == {i \in 1..Len(orders) : orders[i].t = t}

\* Every order used up a mark, and so does an evaluation under way.
MarksOK ==
    \A t \in Tickers :
        /\ t \in markets =>
            Cardinality(Sent(t)) + (IF phase = "book" /\ current.t = t THEN 1 ELSE 0)
                <= Cardinality(evaluated[t])
        /\ t \notin markets =>
            /\ Cardinality(Sent(t)) <= Cardinality(Marks)
            /\ Sent(t) = {} \/ Gone(t)

\* What is on its way to be spent.
Awaited == IF phase = "order" THEN Placed.cost ELSE 0
AwaitedOf(c) == IF phase = "order" /\ c = CommodityOf[Placed.t] THEN Placed.cost ELSE 0

\* On the day the spend is of, what was paid is what was recorded and what is
\* awaited; nothing was paid on a later day.
SpendOK ==
    /\ spend \in [Commodities -> Nat] /\ spendTotal \in Nat
    /\ spendDay \in {Never} \cup 0..Today
    /\ phase = "order" => spendDay = Placed.day
    /\ paid \in [DaysHere -> [Commodities -> Nat]] /\ paidTotal \in [DaysHere -> Nat]
    /\ spendDay # Never =>
        /\ paidTotal[spendDay] = spendTotal + Awaited
        /\ \A c \in Commodities : paid[spendDay][c] = spend[c] + AwaitedOf(c)
    /\ \A day \in DaysHere : day > spendDay =>
        paidTotal[day] = 0 /\ \A c \in Commodities : paid[day][c] = 0
    /\ spendDay = Never => spendTotal = 0 /\ \A c \in Commodities : spend[c] = 0
    /\ CapsHold

Inv == TimeOK /\ KeysOK /\ PassOK /\ OrdersOK /\ MarksOK /\ SpendOK
-----------------------------------------------------------------------------
(* A process that has not started, or has ended. *)

LEMMA Bounds == /\ MaxTime \in Nat /\ DailyCap \in Nat /\ TotalCap \in Nat
                /\ DayLen \in Nat /\ DayLen > 0 /\ Keep \in Nat
  BY CommodityAssumption

LEMMA DaysGrow ==
  ASSUME NEW s \in Nat, NEW u \in Nat, s <= u
  PROVE  DayOf(s) \in Nat /\ DayOf(u) \in Nat /\ DayOf(s) <= DayOf(u)
  <1>1. ASSUME NEW a \in Nat
        PROVE  /\ DayOf(a) \in Nat
               /\ DayLen * DayOf(a) <= a /\ a < DayLen * DayOf(a) + DayLen
    BY Bounds DEF DayOf
  <1>2. \A x, y \in Nat : x > y => DayLen * x >= DayLen * y + DayLen
    BY Bounds
  <1>3. DayLen * DayOf(s) \in Nat /\ DayLen * DayOf(u) \in Nat
    BY <1>1, Bounds
  <1>4. DayOf(s) > DayOf(u) => DayLen * DayOf(s) >= DayLen * DayOf(u) + DayLen
    BY <1>1, <1>2
  <1>5. DayOf(s) \in Nat /\ DayOf(u) \in Nat
    BY <1>1
  <1> DEFINE ms == DayLen * DayOf(s)  mu == DayLen * DayOf(u)
  <1>6. ms <= s /\ u < mu + DayLen
    BY <1>1
  <1> HIDE DEF ms, mu
  <1>7. DayOf(s) > DayOf(u) => ms >= mu + DayLen
    BY <1>4 DEF ms, mu
  <1>8. ms \in Nat /\ mu \in Nat
    BY <1>3 DEF ms, mu
  <1> QED BY <1>5, <1>6, <1>7, <1>8, Bounds

LEMMA DaysInRange == TimeOK => Today \in DaysHere /\ Today \in Nat
  BY Bounds, DaysGrow DEF TimeOK, Today, DaysHere

LEMMA InvInit == Init => Inv
  <1> SUFFICES ASSUME Init PROVE Inv
    OBVIOUS
  <1> USE DEF Init
  <1>1. TimeOK
    <2>1. quote \in [Commodities -> Quotes]
      BY DEF Quotes
    <2>2. /\ clock \in 0..MaxTime /\ running = FALSE /\ stop = FALSE
          /\ lastRefresh = Never /\ passNow = 0 /\ 0 \in 0..clock
      BY Bounds
    <2> HIDE DEF Init
    <2> QED BY <2>1, <2>2, Zenon DEF TimeOK
  <1>2. KeysOK
    BY DEF KeysOK
  <1>3. PassOK
    BY DEF PassOK
  <1>4. OrdersOK
    <2>1. orders \in Seq(Order) /\ Len(orders) = 0 /\ 1..Len(orders) = {}
      OBVIOUS
    <2> QED BY <2>1 DEF OrdersOK, OneEntry
  <1>5. MarksOK
    <2>1. markets = {} /\ \A t : Sent(t) = {}
      BY DEF Sent
    <2> HIDE DEF Init
    <2>2. Cardinality(Marks) \in Nat /\ Cardinality({}) = 0
      BY CommodityAssumption, FS_EmptySet, FS_CardinalityType
    <2> QED BY <2>1, <2>2 DEF MarksOK
  <1>6. SpendOK
    BY Bounds DEF SpendOK, CapsHold, Never
  <1> QED BY <1>1, <1>2, <1>3, <1>4, <1>5, <1>6 DEF Inv

LEMMA InvNoShim == ASSUME TimeOK, NoShim, UNCHANGED clock PROVE Inv'
  <1> USE DEF NoShim
  <1>1. TimeOK'
    <2>1. quote' \in [Commodities -> Quotes]
      BY DEF Quotes
    <2>2. /\ clock' \in 0..MaxTime /\ running' = FALSE /\ stop' = FALSE
          /\ lastRefresh' = Never /\ passNow' = 0 /\ 0 \in 0..clock'
      BY Bounds DEF TimeOK
    <2> HIDE DEF NoShim
    <2> QED BY <2>1, <2>2, Zenon DEF TimeOK
  <1>2. KeysOK'
    BY DEF KeysOK
  <1>3. PassOK'
    BY DEF PassOK
  <1>4. OrdersOK'
    <2>1. orders' \in Seq(Order) /\ Len(orders') = 0 /\ 1..Len(orders') = {}
      OBVIOUS
    <2> QED BY <2>1 DEF OrdersOK, OneEntry
  <1>5. MarksOK'
    <2>1. markets' = {} /\ \A t : Sent(t)' = {}
      BY DEF Sent
    <2> HIDE DEF NoShim
    <2>2. Cardinality(Marks) \in Nat /\ Cardinality({}) = 0
      BY CommodityAssumption, FS_EmptySet, FS_CardinalityType
    <2> QED BY <2>1, <2>2 DEF MarksOK
  <1>6. SpendOK'
    BY Bounds DEF SpendOK, CapsHold, Never
  <1> QED BY <1>1, <1>2, <1>3, <1>4, <1>5, <1>6 DEF Inv
-----------------------------------------------------------------------------
(* Time, keys and the pass. *)

LEMMA TimeStep == TimeOK /\ [Next]_vars => TimeOK'
  <1> SUFFICES ASSUME TimeOK, [Next]_vars PROVE TimeOK'
    OBVIOUS
  <1> USE DEF spendVars, shimVars, passVars, paidVars, histVars
  <1>1. CASE Tick
    BY <1>1, CommodityAssumption DEF Tick, TimeOK
  <1>2. CASE Spot
    BY <1>2 DEF Spot, Bootstrap, PollSpot, Stale, Quote, TimeOK, Quotes
  <1>3. CASE NoShim /\ UNCHANGED clock
    BY <1>3, InvNoShim DEF Inv
  <1>4. CASE Stop \/ \E series \in SUBSET Commodities : Boot(series)
    BY <1>4 DEF Stop, Boot, TimeOK
  <1>5. CASE StartPass
    BY <1>5 DEF StartPass, TimeOK
  <1>6. ASSUME NEW series, Listed(series) PROVE TimeOK'
    BY <1>6 DEF Listed, TimeOK
  <1>7. CASE NoEntry
    BY <1>7 DEF NoEntry, TimeOK
  <1>8. ASSUME NEW cost, CapBlock(cost) \/ Submit(cost) PROVE TimeOK'
    BY <1>8 DEF CapBlock, Submit, TimeOK
  <1>9. CASE OrderReply \/ OrderError
    BY <1>9 DEF OrderReply, OrderError, TimeOK
  <1>10. CASE UNCHANGED vars
    BY <1>10 DEF vars, TimeOK
  <1> QED BY <1>1, <1>2, <1>3, <1>4, <1>5, <1>6, <1>7, <1>8, <1>9, <1>10
          DEF Next, Life, Decisions, Crash, End

LEMMA RefreshKeys ==
  ASSUME NEW series, KeysOK, markets \subseteq Tickers, RefreshMarkets(series)
  PROVE  KeysOK'
  <1>1. markets' \subseteq markets \cup Tickers
    BY DEF RefreshMarkets, Found
  <1>2. \A t, u \in markets' : Precedes(t, u) <=> t # u /\ ~Precedes(u, t)
    <2> TAKE t, u \in markets'
    <2>1. CASE t \in markets /\ u \in markets
      BY <2>1 DEF Precedes, KeysOK
    <2>2. CASE (t \in markets) # (u \in markets)
      BY <2>2 DEF Precedes, KeysOK
    <2>3. CASE t \notin markets /\ u \notin markets
      <3>1. PICK i \in 1..Len(Listing), j \in 1..Len(Listing) : t = Listing[i] /\ u = Listing[j]
        <4>1. t \in Range(Listing) /\ u \in Range(Listing) /\ DOMAIN Listing = 1..Len(Listing)
          BY <1>1, CommodityAssumption
        <4> QED BY <4>1 DEF Range
      <3>2. \A k \in 1..Len(Listing) : (Listing[k] = t => k = i) /\ (Listing[k] = u => k = j)
        BY <3>1, CommodityAssumption
      <3>3. Precedes(t, u) <=> i < j
        BY <2>3, <3>1, <3>2 DEF Precedes, KeysOK
      <3>4. Precedes(u, t) <=> j < i
        BY <2>3, <3>1, <3>2 DEF Precedes, KeysOK
      <3> QED BY <3>1, <3>2, <3>3, <3>4
    <2> QED BY <2>1, <2>2, <2>3
  <1>3. \A t, u \in markets' : <<t, u>> \in before' <=> Precedes(t, u)
    BY DEF RefreshMarkets
  <1>4. before' \subseteq markets' \X markets'
    BY DEF RefreshMarkets
  <1> QED BY <1>2, <1>3, <1>4 DEF KeysOK

LEMMA KeysStep == TimeOK /\ PassOK /\ KeysOK /\ [Next]_vars => KeysOK'
  <1> SUFFICES ASSUME TimeOK, PassOK, KeysOK, [Next]_vars PROVE KeysOK'
    OBVIOUS
  <1> USE DEF spendVars, shimVars, passVars, paidVars, histVars
  <1>1. CASE UNCHANGED <<markets, before>>
    BY <1>1 DEF KeysOK
  <1>2. ASSUME NEW series, RefreshMarkets(series) PROVE KeysOK'
    BY <1>2, RefreshKeys DEF PassOK
  <1>3. CASE NoShim /\ UNCHANGED clock
    BY <1>3, InvNoShim DEF Inv
  <1>4. CASE Tick \/ Spot \/ Stop \/ StartPass
    BY <1>1, <1>4 DEF Tick, Spot, Bootstrap, PollSpot, Stale, Quote, Stop, StartPass
  <1>5. ASSUME NEW series, Boot(series) \/ Listed(series) PROVE KeysOK'
    BY <1>2, <1>5 DEF Boot, Listed
  <1>6. ASSUME NEW cost, CapBlock(cost) \/ Submit(cost) PROVE KeysOK'
    BY <1>1, <1>6 DEF CapBlock, Submit
  <1>7. CASE NoEntry \/ OrderReply \/ OrderError
    BY <1>1, <1>7 DEF NoEntry, OrderReply, OrderError
  <1>8. CASE UNCHANGED vars
    BY <1>1, <1>8 DEF vars
  <1> QED BY <1>3, <1>4, <1>5, <1>6, <1>7, <1>8 DEF Next, Life, Decisions, Crash, End

\* Markets that are listed anew are open, and those that go are closed.
LEMMA RefreshKeepsTypes ==
  ASSUME NEW series, TimeOK, PassOK, RefreshMarkets(series)
  PROVE  /\ markets' \subseteq Tickers /\ entered' \subseteq markets'
         /\ \A t \in markets' \ markets : clock < CloseAt[t]
         /\ \A t \in markets \ markets' : CloseAt[t] <= clock
         /\ \A t \in entered \ entered' : t \notin markets' /\ CloseAt[t] <= clock
         /\ entered' \subseteq entered
         /\ \A t \in markets' : Kept[t] = evaluated[t]
         /\ Kept \in [Tickers -> SUBSET Marks]
  <1>1. markets' \subseteq Tickers /\ entered' \subseteq markets' /\ entered' \subseteq entered
    BY DEF RefreshMarkets, Found, PassOK
  <1>2. \A t \in markets' \ markets : clock < CloseAt[t]
    BY DEF RefreshMarkets, Found
  <1>3. \A t \in Tickers : Pruned(t) => CloseAt[t] <= clock
    BY CommodityAssumption DEF Pruned, TimeOK
  <1>4. \A t \in markets \ markets' : CloseAt[t] <= clock
    BY <1>3 DEF RefreshMarkets, PassOK
  <1>5. \A t \in entered \ entered' : t \notin markets' /\ CloseAt[t] <= clock
    BY <1>3 DEF RefreshMarkets, PassOK
  <1>6. \A t \in markets' : Kept[t] = evaluated[t]
    BY <1>1 DEF RefreshMarkets, Kept
  <1>7. Kept \in [Tickers -> SUBSET Marks]
    BY DEF Kept, PassOK
  <1> QED BY <1>1, <1>2, <1>4, <1>5, <1>6, <1>7

LEMMA PassedKeeps ==
  ASSUME NEW rest, NEW fired \in [Tickers -> SUBSET Marks],
         markets' \subseteq Tickers, rest \subseteq markets', entered' \subseteq markets',
         running', Passed(rest, entered', fired)
  PROVE  PassOK'
  <1>1. CASE phase' = "sleep" /\ todo' = {} /\ current' = Nobody /\ evaluated' = fired
    BY <1>1 DEF PassOK
  <1>2. ASSUME NEW t \in rest \ entered', NEW m \in Marks \ fired[t],
               phase' = "book", todo' \subseteq rest,
               current' \in [t : {t}, quote : Quotes \ {"none"}],
               evaluated' = [fired EXCEPT ![t] = @ \cup {m}]
        PROVE  PassOK'
    <2>1. evaluated' \in [Tickers -> SUBSET Marks]
      BY <1>2
    <2>2. current' \in [t : markets', quote : Quotes \ {"none"}] /\ current'.t \notin entered'
      BY <1>2
    <2> QED BY <1>2, <2>1, <2>2 DEF PassOK
  <1> QED BY <1>1, <1>2 DEF Passed

LEMMA PassStep == TimeOK /\ PassOK /\ [Next]_vars => PassOK'
  <1> SUFFICES ASSUME TimeOK, PassOK, [Next]_vars PROVE PassOK'
    OBVIOUS
  <1> USE DEF spendVars, shimVars, passVars, paidVars, histVars
  <1>1. ASSUME running => running', UNCHANGED <<markets, entered, evaluated, passVars>>
        PROVE  PassOK'
    <2>1. UNCHANGED <<markets, entered, evaluated, phase, todo, current>>
      BY <1>1
    <2> QED BY <1>1, <2>1 DEF PassOK
  <1>2. ASSUME NEW series, Boot(series) PROVE PassOK'
    <2>1. phase = "sleep" /\ RefreshMarkets(series) /\ running'
          /\ UNCHANGED <<evaluated, phase, todo, current>>
      BY <1>2 DEF Boot, PassOK
    <2>2. markets' \subseteq Tickers /\ entered' \subseteq markets'
      BY <2>1, RefreshKeepsTypes
    <2> QED BY <2>1, <2>2 DEF PassOK
  <1>3. CASE NoShim /\ UNCHANGED clock
    BY <1>3, InvNoShim DEF Inv
  <1>4. CASE StartPass
    <2>1. UNCHANGED <<running, markets, entered>> /\ running /\ phase = "sleep"
      BY <1>4 DEF StartPass
    <2>2. CASE phase' = "listing" /\ UNCHANGED <<evaluated, todo, current>>
      BY <2>1, <2>2 DEF PassOK
    <2>3. CASE GoOn(markets, before, clock, entered, evaluated)
      <3>1. Passed(markets, entered, evaluated)
        BY <2>3, GoOnPasses DEF PassOK, TimeOK
      <3> QED BY <2>1, <3>1, PassedKeeps DEF PassOK
    <2> QED BY <1>4, <2>2, <2>3 DEF StartPass
  <1>5. ASSUME NEW series, Listed(series) PROVE PassOK'
    <2>1. /\ phase = "listing" /\ UNCHANGED running /\ RefreshMarkets(series)
          /\ GoOn(markets', before', passNow, entered', Kept)
      BY <1>5 DEF Listed
    <2>2. /\ markets' \subseteq Tickers /\ entered' \subseteq markets'
          /\ Kept \in [Tickers -> SUBSET Marks]
      BY <2>1, RefreshKeepsTypes
    <2>3. Passed(markets', entered', Kept)
      BY <2>1, <2>2, GoOnPasses DEF TimeOK
    <2> QED BY <2>1, <2>2, <2>3, PassedKeeps DEF PassOK
  <1>6. ASSUME phase \in {"book", "order"}, UNCHANGED <<running, markets>>,
               entered' \subseteq entered,
               GoOn(todo, before, passNow, entered', evaluated)
        PROVE  PassOK'
    <2>1. Passed(todo, entered', evaluated)
      BY <1>6, GoOnPasses DEF PassOK, TimeOK
    <2> QED BY <1>6, <2>1, PassedKeeps DEF PassOK
  <1>7. ASSUME NEW cost, Submit(cost) PROVE PassOK'
    <2>1. /\ phase = "book" /\ phase' = "order" /\ entered' = entered \cup {current.t}
          /\ UNCHANGED <<running, markets, evaluated, todo, current>>
      BY <1>7 DEF Submit, MarkEntered
    <2> QED BY <2>1 DEF PassOK
  <1>8. CASE Tick \/ Spot \/ Stop
    BY <1>1, <1>8 DEF Tick, Spot, Bootstrap, PollSpot, Stale, Quote, Stop
  <1>9. CASE NoEntry
    BY <1>6, <1>9 DEF NoEntry
  <1>10. ASSUME NEW cost, CapBlock(cost) PROVE PassOK'
    BY <1>6, <1>10 DEF CapBlock
  <1>11. CASE OrderReply
    BY <1>6, <1>11 DEF OrderReply
  <1>12. CASE OrderError
    BY <1>6, <1>12 DEF OrderError
  <1>13. CASE UNCHANGED vars
    BY <1>1, <1>13 DEF vars
  <1> QED BY <1>2, <1>3, <1>4, <1>5, <1>7, <1>8, <1>9, <1>10, <1>11, <1>12, <1>13
          DEF Next, Life, Decisions, Crash, End
-----------------------------------------------------------------------------
(* One entry per strike. *)

LEMMA NotOrdering ==
  ASSUME NEW rest, NEW ent, NEW fired, Passed(rest, ent, fired)
  PROVE  phase' \in {"sleep", "book"}
  BY DEF Passed

LEMMA OrdersKeep ==
  ASSUME TimeOK, TimeOK', OrdersOK, clock <= clock', UNCHANGED <<orders, failed, onOld>>,
         phase' = "order" => phase = "order" /\ current' = current,
         \A t \in Tickers : t \in entered \/ Gone(t) => t \in entered' \/ Gone(t)'
  PROVE  OrdersOK'
  <1>1. Today \in Nat /\ Today' \in Nat /\ Today <= Today'
    BY DaysGrow, Bounds DEF TimeOK, Today
  <1>2. \A i \in 1..Len(orders) : orders[i] \in Order /\ orders[i].day \in 0..Today'
    <2>1. \A i \in 1..Len(orders) : orders[i] \in Order
      BY ElementOfSeq DEF OrdersOK
    <2> QED BY <1>1, <2>1 DEF OrdersOK
  <1>3. \A i \in 1..Len(orders) \ failed : orders[i].t \in entered' \/ Gone(orders[i].t)'
    BY <1>2 DEF OrdersOK, Order
  <1>4. OneEntry'
    BY DEF OrdersOK, OneEntry
  <1>5. phase' = "order" => orders' # <<>> /\ Placed' = Placed /\ Placed.t = current.t
                            /\ Len(orders) \notin failed
    BY DEF OrdersOK, Placed
  <1> QED BY <1>2, <1>3, <1>4, <1>5 DEF OrdersOK

LEMMA OrdersStep == Inv /\ TimeOK' /\ [Next]_vars => OrdersOK'
  <1> SUFFICES ASSUME TimeOK, PassOK, OrdersOK, TimeOK', [Next]_vars PROVE OrdersOK'
    BY DEF Inv
  <1> USE DEF spendVars, shimVars, passVars, paidVars, histVars
  <1>1. ASSUME clock <= clock', UNCHANGED <<markets, entered, orders, failed, onOld>>,
               phase' = "order" => phase = "order" /\ current' = current
        PROVE  OrdersOK'
    <2>1. \A t \in Tickers : Gone(t) => Gone(t)'
      BY <1>1, CommodityAssumption DEF Gone, TimeOK
    <2> QED BY <1>1, <2>1, OrdersKeep
  <1>2. clock \in Nat /\ clock <= clock
    BY Bounds DEF TimeOK
  <1>3. ASSUME NEW series, RefreshMarkets(series),
               UNCHANGED <<clock, orders, failed, onOld>>, phase' # "order"
        PROVE  OrdersOK'
    <2>1. \A t \in Tickers : t \in entered \/ Gone(t) => t \in entered' \/ Gone(t)'
      <3> TAKE t \in Tickers
      <3>1. CASE t \in entered
        BY <1>3, <3>1, RefreshKeepsTypes DEF Gone
      <3>2. CASE Gone(t)
        <4>1. ~(clock < CloseAt[t])
          BY <1>2, <3>2, CommodityAssumption DEF Gone
        <4>2. t \notin markets'
          BY <1>3, <3>2, <4>1, RefreshKeepsTypes DEF Gone
        <4> QED BY <1>3, <3>2, <4>2 DEF Gone
      <3> QED BY <3>1, <3>2
    <2> QED BY <1>2, <1>3, <2>1, OrdersKeep
  <1>4. ASSUME NEW series, Boot(series) PROVE OrdersOK'
    BY <1>3, <1>4 DEF Boot, PassOK
  <1>5. CASE NoShim /\ UNCHANGED clock
    BY <1>5, InvNoShim DEF Inv
  <1>6. CASE StartPass
    <2>1. phase' \in {"sleep", "book", "listing"}
      BY <1>6, GoOnPasses, NotOrdering DEF StartPass, PassOK, TimeOK
    <2> QED BY <1>1, <1>2, <1>6, <2>1 DEF StartPass
  <1>7. ASSUME NEW series, Listed(series) PROVE OrdersOK'
    <2>1. RefreshMarkets(series) /\ GoOn(markets', before', passNow, entered', Kept)
      BY <1>7 DEF Listed
    <2>2. phase' \in {"sleep", "book"}
      BY <2>1, RefreshKeepsTypes, GoOnPasses, NotOrdering DEF TimeOK
    <2> QED BY <1>3, <1>7, <2>1, <2>2 DEF Listed
  <1>8. ASSUME NEW ent, GoOn(todo, before, passNow, ent, evaluated) PROVE phase' # "order"
    <2>1. Passed(todo, ent, evaluated)
      BY <1>8, GoOnPasses DEF PassOK, TimeOK
    <2> QED BY <2>1, NotOrdering
  <1>9. ASSUME NEW cost, Submit(cost) PROVE OrdersOK'
    <2> DEFINE n == Len(orders)
               new == [t |-> current.t, cost |-> cost, day |-> Today]
    <2>1. /\ phase = "book" /\ cost \in CostsOf[current.t] /\ current.t \in markets \ entered
          /\ current.t \in Tickers
          /\ entered' = entered \cup {current.t} /\ orders' = Append(orders, new)
          /\ onOld' = (onOld \/ current.quote = "old")
          /\ UNCHANGED <<clock, markets, current, failed>>
      BY <1>9 DEF Submit, MarkEntered, PassOK
    <2>2. n \in Nat /\ orders \in Seq(Order) /\ failed \subseteq 1..n
      BY LenProperties DEF OrdersOK
    <2>3. new \in Order /\ new.day \in 0..Today /\ new.cost \in UNION Range(CostsOf)
      <3>1. Today \in Nat /\ CostsOf[current.t] \in SUBSET Nat
        BY <2>1, DaysInRange, CommodityAssumption
      <3>2. CostsOf[current.t] \in Range(CostsOf)
        BY <2>1, CommodityAssumption DEF Range
      <3> QED BY <2>1, <3>1, <3>2 DEF Order
    <2> HIDE DEF new
    <2>4. /\ orders' \in Seq(Order) /\ Len(orders') = n + 1 /\ orders'[n + 1] = new
          /\ \A i \in 1..n : orders'[i] = orders[i]
      BY <2>1, <2>2, <2>3, AppendProperties
    <2>5. new.t = current.t
      BY DEF new
    <2>6. Today' = Today
      BY <2>1 DEF Today
    <2>7. \A i \in 1..n : orders[i].t = current.t => i \in failed
      BY <2>1 DEF OrdersOK, Gone
    <2> HIDE DEF n
    <2>8. \A i \in 1..(n + 1) : i \in 1..n \/ i = n + 1
      BY <2>2
    <2>9. /\ \A i \in 1..Len(orders') : orders'[i].day \in 0..Today'
                                       /\ orders'[i].cost \in UNION Range(CostsOf)
          /\ failed' \subseteq 1..Len(orders')
      BY <2>1, <2>2, <2>3, <2>4, <2>6, <2>8 DEF OrdersOK, n
    <2>10. orders' # <<>> /\ Placed'.t = current'.t /\ Len(orders') \notin failed'
      BY <2>1, <2>2, <2>4, <2>5 DEF Placed
    <2>11. \A i \in 1..Len(orders') \ failed' :
               \/ orders'[i].t \in entered'
               \/ orders'[i].t \notin markets' /\ CloseAt[orders'[i].t] <= clock'
      <3> TAKE i \in 1..Len(orders') \ failed'
      <3>1. CASE i = n + 1
        BY <2>1, <2>4, <2>5, <3>1
      <3>2. CASE i \in 1..n
        <4>1. orders[i].t \in entered \/ Gone(orders[i].t)
          BY <2>1, <3>2 DEF OrdersOK, n
        <4> QED BY <2>1, <2>4, <3>2, <4>1 DEF Gone
      <3> QED BY <2>4, <2>8, <3>1, <3>2
    <2>12. OneEntry'
      <3> SUFFICES ASSUME NEW i \in 1..Len(orders'), NEW j \in 1..Len(orders'),
                          i < j, orders'[i].t = orders'[j].t
                   PROVE  i \in failed
        BY <2>1 DEF OneEntry
      <3>1. i \in 1..n
        BY <2>2, <2>4
      <3>2. CASE j = n + 1
        BY <2>4, <2>5, <2>7, <3>1, <3>2
      <3>3. CASE j \in 1..n
        BY <2>4, <3>1, <3>3 DEF OrdersOK, OneEntry, n
      <3> QED BY <2>4, <2>8, <3>2, <3>3
    <2>13. onOld' \in BOOLEAN
      BY <2>1
    <2> QED BY <2>4, <2>9, <2>10, <2>11, <2>12, <2>13 DEF OrdersOK, Gone
  <1>10. CASE OrderError
    <2>1. /\ phase = "order" /\ entered' = entered \ {current.t}
          /\ failed' = failed \cup {Len(orders)}
          /\ UNCHANGED <<clock, markets, orders, onOld>>
      BY <1>10 DEF OrderError
    <2>2. phase' # "order"
      BY <1>8, <1>10 DEF OrderError
    <2>3. orders # <<>> /\ orders[Len(orders)].t = current.t /\ orders \in Seq(Order)
      BY <2>1 DEF OrdersOK, Placed
    <2>4. Len(orders) \in 1..Len(orders)
      BY <2>3, EmptySeq, LenProperties
    <2>5. \A i \in 1..Len(orders) \ failed' : orders[i].t # current.t
      <3> TAKE i \in 1..Len(orders) \ failed'
      <3>1. i < Len(orders) /\ i \notin failed
        BY <2>1, <2>4
      <3> QED BY <2>3, <2>4, <3>1 DEF OrdersOK, OneEntry
    <2>6. \A i \in 1..Len(orders) \ failed' : orders[i].t \in entered' \/ Gone(orders[i].t)'
      BY <2>1, <2>5 DEF OrdersOK, Gone
    <2>7. OneEntry'
      BY <2>1 DEF OrdersOK, OneEntry
    <2>8. Today' = Today
      BY <2>1 DEF Today
    <2> QED BY <2>1, <2>2, <2>4, <2>6, <2>7, <2>8 DEF OrdersOK
  <1>11. CASE Tick
    BY <1>1, <1>2, <1>11 DEF Tick
  <1>12. CASE Spot \/ Stop
    BY <1>1, <1>2, <1>12 DEF Spot, Bootstrap, PollSpot, Stale, Quote, Stop
  <1>13. CASE NoEntry
    BY <1>1, <1>2, <1>8, <1>13 DEF NoEntry
  <1>14. ASSUME NEW cost, CapBlock(cost) PROVE OrdersOK'
    BY <1>1, <1>2, <1>8, <1>14 DEF CapBlock
  <1>15. CASE OrderReply
    BY <1>1, <1>2, <1>8, <1>15 DEF OrderReply
  <1>16. CASE UNCHANGED vars
    BY <1>1, <1>2, <1>16 DEF vars
  <1> QED BY <1>4, <1>5, <1>6, <1>7, <1>9, <1>10, <1>11, <1>12, <1>13, <1>14, <1>15, <1>16
          DEF Next, Life, Decisions, Crash, End
-----------------------------------------------------------------------------
(* One order per mark. *)

LEMMA SentIsFinite ==
  ASSUME orders \in Seq(Order), NEW t
  PROVE  IsFiniteSet(Sent(t)) /\ Cardinality(Sent(t)) \in Nat
  <1>1. Len(orders) \in Nat /\ Sent(t) \subseteq 1..Len(orders)
    BY LenProperties DEF Sent
  <1>2. IsFiniteSet(1..Len(orders))
    BY <1>1, FS_Interval
  <1>3. IsFiniteSet(Sent(t))
    BY <1>1, <1>2, FS_Subset
  <1> QED BY <1>3, FS_CardinalityType

LEMMA MarksAreFinite ==
  ASSUME NEW M \in SUBSET Marks
  PROVE  /\ IsFiniteSet(M) /\ Cardinality(M) \in Nat /\ Cardinality(Marks) \in Nat
         /\ Cardinality(M) <= Cardinality(Marks)
         /\ \A m \in Marks \ M : Cardinality(M \cup {m}) = Cardinality(M) + 1
  <1>1. IsFiniteSet(Marks) /\ Cardinality(Marks) \in Nat
    BY CommodityAssumption, FS_CardinalityType
  <1>2. IsFiniteSet(M) /\ Cardinality(M) <= Cardinality(Marks)
    BY <1>1, FS_Subset
  <1>3. Cardinality(M) \in Nat
    BY <1>2, FS_CardinalityType
  <1>4. ASSUME NEW m \in Marks \ M PROVE Cardinality(M \cup {m}) = Cardinality(M) + 1
    BY <1>2, FS_AddElement
  <1> QED BY <1>1, <1>2, <1>3, <1>4

\* The marks of a listed market cover its orders; one that is not has none to
\* come.
Covered(t, listed, fired) ==
    /\ t \in listed => Cardinality(Sent(t)) <= Cardinality(fired[t])
    /\ t \notin listed =>
        /\ Cardinality(Sent(t)) <= Cardinality(Marks)
        /\ Sent(t) = {} \/ CloseAt[t] <= clock'

LEMMA MarksPass ==
  ASSUME orders \in Seq(Order), UNCHANGED orders,
         NEW rest \in SUBSET Tickers, NEW ent, NEW fired \in [Tickers -> SUBSET Marks],
         Passed(rest, ent, fired),
         \A t \in Tickers : Covered(t, markets', fired)
  PROVE  MarksOK'
  <1>1. \A t : Sent(t)' = Sent(t) /\ Cardinality(Sent(t)) \in Nat
    <2>1. \A t : Sent(t)' = Sent(t)
      BY DEF Sent
    <2> QED BY <2>1, SentIsFinite
  <1>2. \A t \in Tickers : Cardinality(fired[t]) \in Nat
    BY MarksAreFinite
  <1>3. CASE phase' = "sleep" /\ evaluated' = fired
    BY <1>1, <1>2, <1>3 DEF MarksOK, Covered, Gone
  <1>4. ASSUME NEW u \in rest \ ent, NEW m \in Marks \ fired[u], phase' = "book",
               current' \in [t : {u}, quote : Quotes \ {"none"}],
               evaluated' = [fired EXCEPT ![u] = @ \cup {m}]
        PROVE  MarksOK'
    <2>1. current'.t = u /\ u \in Tickers
      BY <1>4
    <2>2. Cardinality(evaluated'[u]) = Cardinality(fired[u]) + 1
      BY <1>4, <2>1, MarksAreFinite
    <2>3. \A t \in Tickers \ {u} : evaluated'[t] = fired[t]
      BY <1>4
    <2>4. ASSUME NEW t \in Tickers, t \in markets'
          PROVE  Cardinality(Sent(t)) + (IF current'.t = t THEN 1 ELSE 0)
                    <= Cardinality(evaluated'[t])
      <3>1. Cardinality(Sent(t)) <= Cardinality(fired[t])
        BY <2>4 DEF Covered
      <3>2. CASE t = u
        BY <1>1, <1>2, <2>1, <2>2, <3>1, <3>2
      <3>3. CASE t # u
        BY <1>1, <1>2, <2>1, <2>3, <3>1, <3>3
      <3> QED BY <3>2, <3>3
    <2>5. ASSUME NEW t \in Tickers, t \notin markets'
          PROVE  Cardinality(Sent(t)) <= Cardinality(Marks) /\ (Sent(t) = {} \/ Gone(t)')
      BY <2>5 DEF Covered, Gone
    <2> QED BY <1>1, <1>4, <2>4, <2>5 DEF MarksOK
  <1> QED BY <1>3, <1>4 DEF Passed

LEMMA MarksStep == Inv /\ TimeOK' /\ [Next]_vars => MarksOK'
  <1> SUFFICES ASSUME TimeOK, PassOK, OrdersOK, MarksOK, TimeOK', [Next]_vars PROVE MarksOK'
    BY DEF Inv
  <1> USE DEF spendVars, shimVars, passVars, paidVars, histVars
  <1>1. orders \in Seq(Order) /\ clock \in Nat /\ clock <= clock
    BY Bounds DEF OrdersOK, TimeOK
  <1>2. \A t \in Tickers : /\ Cardinality(Sent(t)) \in Nat /\ CloseAt[t] \in Nat
                           /\ Cardinality(evaluated[t]) \in Nat
                           /\ Cardinality(evaluated[t]) <= Cardinality(Marks)
                           /\ Cardinality(Marks) \in Nat
    <2> TAKE t \in Tickers
    <2>1. CloseAt[t] \in Nat /\ evaluated[t] \in SUBSET Marks
      BY CommodityAssumption DEF PassOK
    <2> QED BY <1>1, <2>1, SentIsFinite, MarksAreFinite
  <1>3. \A t \in Tickers : t \in markets => Cardinality(Sent(t)) <= Cardinality(evaluated[t])
    BY <1>2 DEF MarksOK
  <1>4. ASSUME UNCHANGED <<orders, markets, evaluated>>, clock <= clock',
               phase' = "book" => phase = "book" /\ current' = current
        PROVE  MarksOK'
    <2>1. \A t : Sent(t)' = Sent(t)
      BY <1>4 DEF Sent
    <2>2. \A t \in Tickers : Gone(t) => Gone(t)'
      BY <1>1, <1>2, <1>4 DEF Gone, TimeOK
    <2>3. ASSUME NEW t \in Tickers, t \in markets'
          PROVE  Cardinality(Sent(t)) + (IF phase' = "book" /\ current'.t = t THEN 1 ELSE 0)
                    <= Cardinality(evaluated'[t])
      BY <1>2, <1>3, <1>4, <2>3 DEF MarksOK
    <2>4. ASSUME NEW t \in Tickers, t \notin markets'
          PROVE  Cardinality(Sent(t)) <= Cardinality(Marks) /\ (Sent(t) = {} \/ Gone(t)')
      BY <1>4, <2>2, <2>4 DEF MarksOK
    <2> QED BY <2>1, <2>3, <2>4 DEF MarksOK
  \* The pass goes on over the same markets.
  <1>5. ASSUME NEW rest \in SUBSET Tickers, NEW order, NEW now, NEW ent,
               UNCHANGED <<orders, markets, clock>>, GoOn(rest, order, now, ent, evaluated)
        PROVE  MarksOK'
    <2>1. Passed(rest, ent, evaluated)
      BY <1>5, GoOnPasses DEF TimeOK
    <2>2. \A t \in Tickers : Covered(t, markets', evaluated)
      BY <1>3, <1>5 DEF MarksOK, Covered, Gone
    <2> QED BY <1>1, <1>5, <2>1, <2>2, MarksPass DEF PassOK
  \* A listing adds open markets and forgets closed ones.
  <1>6. ASSUME NEW series, RefreshMarkets(series), UNCHANGED clock
        PROVE  \A t \in Tickers : Covered(t, markets', Kept)
    <2> TAKE t \in Tickers
    <2>1. CASE t \in markets /\ t \in markets'
      BY <1>3, <1>6, <2>1, RefreshKeepsTypes DEF Covered
    <2>2. CASE t \in markets /\ t \notin markets'
      <3>1. CloseAt[t] <= clock
        BY <1>6, <2>2, RefreshKeepsTypes
      <3> QED BY <1>2, <1>3, <1>6, <2>2, <3>1 DEF Covered
    <2>3. CASE t \notin markets /\ t \in markets'
      <3>1. clock < CloseAt[t] /\ Kept \in [Tickers -> SUBSET Marks]
        BY <1>6, <2>3, RefreshKeepsTypes
      <3>2. Sent(t) = {}
        BY <1>1, <1>2, <2>3, <3>1 DEF MarksOK, Gone
      <3>3. Cardinality(Sent(t)) = 0 /\ Cardinality(Kept[t]) \in Nat
        BY <3>1, <3>2, FS_EmptySet, MarksAreFinite
      <3> QED BY <2>3, <3>3 DEF Covered
    <2>4. CASE t \notin markets /\ t \notin markets'
      BY <1>6, <2>4 DEF MarksOK, Covered, Gone
    <2> QED BY <2>1, <2>2, <2>3, <2>4
  <1>7. ASSUME NEW series, Listed(series) PROVE MarksOK'
    <2>1. /\ RefreshMarkets(series) /\ GoOn(markets', before', passNow, entered', Kept)
          /\ UNCHANGED <<clock, orders>>
      BY <1>7 DEF Listed
    <2>2. markets' \subseteq Tickers /\ Kept \in [Tickers -> SUBSET Marks]
      BY <2>1, RefreshKeepsTypes
    <2>3. Passed(markets', entered', Kept)
      BY <2>1, <2>2, GoOnPasses DEF TimeOK
    <2> QED BY <1>1, <1>6, <2>1, <2>2, <2>3, MarksPass
  <1>8. ASSUME NEW series, Boot(series) PROVE MarksOK'
    <2>1. /\ RefreshMarkets(series) /\ phase = "sleep"
          /\ UNCHANGED <<clock, orders, evaluated, phase>>
      BY <1>8 DEF Boot, PassOK
    <2>2. /\ \A t \in Tickers : Covered(t, markets', Kept)
          /\ \A t \in markets' : t \in Tickers /\ Kept[t] = evaluated[t]
      BY <1>6, <2>1, RefreshKeepsTypes
    <2>3. \A t : Sent(t)' = Sent(t)
      BY <2>1 DEF Sent
    <2>4. ASSUME NEW t \in Tickers, t \in markets'
          PROVE  Cardinality(Sent(t)) + (IF phase' = "book" /\ current'.t = t THEN 1 ELSE 0)
                    <= Cardinality(evaluated'[t])
      BY <1>2, <2>1, <2>2, <2>4 DEF Covered
    <2>5. ASSUME NEW t \in Tickers, t \notin markets'
          PROVE  Cardinality(Sent(t)) <= Cardinality(Marks) /\ (Sent(t) = {} \/ Gone(t)')
      BY <2>1, <2>2, <2>5 DEF Covered, Gone
    <2> QED BY <2>3, <2>4, <2>5 DEF MarksOK
  \* The order takes the place of the evaluation.
  <1>9. ASSUME NEW cost, Submit(cost) PROVE MarksOK'
    <2> DEFINE n == Len(orders)
               new == [t |-> current.t, cost |-> cost, day |-> Today]
    <2>1. /\ phase = "book" /\ phase' = "order" /\ current.t \in markets
          /\ orders' = Append(orders, new)
          /\ UNCHANGED <<clock, markets, evaluated, current>>
      BY <1>9 DEF Submit, PassOK
    <2>2. /\ Len(orders') = n + 1 /\ orders'[n + 1] = new
          /\ \A i \in 1..n : orders'[i] = orders[i]
      <3>1. orders \in Seq(Order \cup {new}) /\ new \in Order \cup {new}
        BY <1>1
      <3> HIDE DEF new
      <3> QED BY <2>1, <3>1, AppendProperties
    <2>3. new.t = current.t
      OBVIOUS
    <2>4. n \in Nat /\ \A i \in 1..(n + 1) : i \in 1..n \/ i = n + 1
      BY <1>1, LenProperties
    <2> HIDE DEF new
    <2>5. ASSUME NEW t \in Tickers
          PROVE  Sent(t)' = IF t = current.t THEN Sent(t) \cup {n + 1} ELSE Sent(t)
      BY <2>2, <2>3, <2>4 DEF Sent
    <2>6. \A t \in Tickers : n + 1 \notin Sent(t)
      BY <2>4 DEF Sent
    <2> HIDE DEF n
    <2>7. ASSUME NEW t \in Tickers
          PROVE  Cardinality(Sent(t)') =
                    IF t = current.t THEN Cardinality(Sent(t)) + 1 ELSE Cardinality(Sent(t))
      <3>1. IsFiniteSet(Sent(t))
        BY <1>1, SentIsFinite
      <3>2. Cardinality(Sent(t) \cup {n + 1}) = Cardinality(Sent(t)) + 1
        BY <2>6, <3>1, FS_AddElement
      <3> QED BY <2>5, <3>2
    <2>8. ASSUME NEW t \in Tickers, t \in markets
          PROVE  Cardinality(Sent(t)') <= Cardinality(evaluated[t])
      BY <1>2, <2>1, <2>7, <2>8 DEF MarksOK
    <2>9. ASSUME NEW t \in Tickers, t \notin markets
          PROVE  Sent(t)' = Sent(t)
      BY <2>1, <2>5, <2>9
    <2>10. ASSUME NEW t \in Tickers PROVE Cardinality(Sent(t)') \in Nat
      BY <1>2, <2>7
    <2> QED BY <2>1, <2>8, <2>9, <2>10 DEF MarksOK, Gone
  <1>10. CASE NoShim /\ UNCHANGED clock
    BY <1>10, InvNoShim DEF Inv
  <1>11. CASE StartPass
    <2>1. UNCHANGED <<orders, markets, clock>>
      BY <1>11 DEF StartPass
    <2>2. CASE GoOn(markets, before, clock, entered, evaluated)
      BY <1>5, <2>1, <2>2 DEF PassOK
    <2>3. CASE phase' = "listing" /\ UNCHANGED <<evaluated, todo, current>>
      BY <1>1, <1>4, <2>1, <2>3
    <2> QED BY <1>11, <2>2, <2>3 DEF StartPass
  <1>12. todo \in SUBSET Tickers
    BY DEF PassOK
  <1>13. CASE NoEntry
    BY <1>5, <1>12, <1>13 DEF NoEntry
  <1>14. ASSUME NEW cost, CapBlock(cost) PROVE MarksOK'
    BY <1>5, <1>12, <1>14 DEF CapBlock
  <1>15. CASE OrderReply
    BY <1>5, <1>12, <1>15 DEF OrderReply
  <1>16. CASE OrderError
    BY <1>5, <1>12, <1>16 DEF OrderError
  <1>17. CASE Tick
    BY <1>1, <1>4, <1>17 DEF Tick
  <1>18. CASE Spot \/ Stop
    BY <1>1, <1>4, <1>18 DEF Spot, Bootstrap, PollSpot, Stale, Quote, Stop
  <1>19. CASE UNCHANGED vars
    BY <1>1, <1>4, <1>19 DEF vars
  <1> QED BY <1>7, <1>8, <1>9, <1>10, <1>11, <1>13, <1>14, <1>15, <1>16, <1>17, <1>18, <1>19
          DEF Next, Life, Decisions, Crash, End
-----------------------------------------------------------------------------
(* The caps. *)

LEMMA PaidIsSpent ==
  ASSUME TimeOK, SpendOK, phase # "order"
  PROVE  /\ Today \in DaysHere /\ Today \in Nat
         /\ paidTotal[Today] = SpentTotal /\ SpentTotal \in Nat
         /\ \A c \in Commodities : paid[Today][c] = Spent(c) /\ Spent(c) \in Nat
         /\ \A day \in DaysHere : day > Today =>
                paidTotal[day] = 0 /\ \A c \in Commodities : paid[day][c] = 0
  <1>1. Today \in DaysHere /\ Today \in Nat /\ DaysHere \subseteq Int
    BY DaysInRange DEF DaysHere
  <1>2. spendDay \in Int /\ spendDay <= Today
    BY <1>1 DEF SpendOK, Never
  <1>3. \A day \in DaysHere : day > Today => day > spendDay
    BY <1>1, <1>2
  <1>4. CASE spendDay = Today
    <2>1. spendDay # Never
      BY <1>1, <1>4 DEF Never
    <2> QED BY <1>1, <1>3, <1>4, <2>1 DEF SpendOK, Spent, SpentTotal, Awaited, AwaitedOf
  <1>5. CASE spendDay # Today
    <2>1. Today > spendDay
      BY <1>1, <1>2, <1>5
    <2> QED BY <1>1, <1>3, <1>5, <2>1 DEF SpendOK, Spent, SpentTotal
  <1> QED BY <1>4, <1>5

\* Nothing is paid or recorded.
LEMMA SpendKeep ==
  ASSUME TimeOK, TimeOK', SpendOK, clock <= clock', UNCHANGED <<spendVars, paidVars>>,
         \/ UNCHANGED <<phase, orders>>
         \/ phase # "order" /\ phase' # "order"
  PROVE  SpendOK'
  <1> USE DEF spendVars, paidVars
  <1>1. Today \in Nat /\ Today' \in Nat /\ Today <= Today'
    BY DaysGrow, Bounds DEF TimeOK, Today
  <1>2. Awaited' = Awaited /\ \A c : AwaitedOf(c)' = AwaitedOf(c)
    BY DEF Awaited, AwaitedOf, Placed
  <1>3. spendDay' \in {Never} \cup 0..Today'
    BY <1>1 DEF SpendOK
  <1>4. phase' = "order" => spendDay' = Placed'.day
    BY DEF SpendOK, Placed
  <1> QED BY <1>2, <1>3, <1>4 DEF SpendOK, CapsHold

LEMMA ResetKeeps ==
  ASSUME TimeOK, SpendOK, DailyReset, UNCHANGED <<clock, paidVars>>,
         phase # "order", phase' # "order"
  PROVE  SpendOK'
  <1> USE DEF paidVars
  <1>1. /\ spend' = [c \in Commodities |-> Spent(c)] /\ spendTotal' = SpentTotal
        /\ spendDay' = Today /\ Today' = Today
    BY DEF DailyReset, Today
  <1>2. Awaited' = 0 /\ \A c : AwaitedOf(c)' = 0
    BY DEF Awaited, AwaitedOf
  <1>3. Today # Never
    BY DaysInRange DEF Never
  <1>4. spendTotal' \in Nat /\ spend' \in [Commodities -> Nat]
    BY <1>1, PaidIsSpent
  <1>5. /\ paidTotal'[spendDay'] = spendTotal' + Awaited'
        /\ \A c \in Commodities : paid'[spendDay'][c] = spend'[c] + AwaitedOf(c)'
    BY <1>1, <1>2, PaidIsSpent
  <1>6. \A day \in DaysHere : day > spendDay' =>
            paidTotal'[day] = 0 /\ \A c \in Commodities : paid'[day][c] = 0
    BY <1>1, PaidIsSpent
  <1>7. spendDay' \in 0..Today' /\ spendDay' # Never
    BY <1>1, <1>3, DaysInRange
  <1> QED BY <1>4, <1>5, <1>6, <1>7 DEF SpendOK, CapsHold

LEMMA SubmitKeeps ==
  ASSUME TimeOK, PassOK, OrdersOK, SpendOK, NEW cost, Submit(cost)
  PROVE  SpendOK'
  <1> USE DEF spendVars, paidVars
  <1> DEFINE co == CommodityOf[current.t]
             new == [t |-> current.t, cost |-> cost, day |-> Today]
  <1>1. /\ phase = "book" /\ phase' = "order" /\ cost \in CostsOf[current.t]
        /\ ~CapBlocks(co, cost)
        /\ spend' = [c \in Commodities |-> Spent(c)] /\ spendTotal' = SpentTotal
        /\ spendDay' = Today /\ Today' = Today
        /\ paid' = [paid EXCEPT ![Today][co] = @ + cost]
        /\ paidTotal' = [paidTotal EXCEPT ![Today] = @ + cost]
        /\ orders' = Append(orders, new)
    BY DEF Submit, DailyReset, Pay, Today
  <1>2. co \in Commodities /\ cost \in Nat
    BY <1>1, CommodityAssumption DEF PassOK
  <1>3. Placed' = new
    <2>1. orders \in Seq(Order \cup {new}) /\ new \in Order \cup {new}
      BY DEF OrdersOK
    <2> HIDE DEF new
    <2>2. Len(orders') = Len(orders) + 1 /\ orders'[Len(orders) + 1] = new
      BY <1>1, <2>1, AppendProperties
    <2> QED BY <2>2 DEF Placed
  <1>4. /\ Placed'.cost = cost /\ Placed'.day = Today /\ CommodityOf[Placed'.t] = co
    BY <1>3
  <1> HIDE DEF co, new
  <1>5. /\ Today \in DaysHere /\ Today \in Nat
        /\ paidTotal[Today] = SpentTotal /\ SpentTotal \in Nat
        /\ \A c \in Commodities : paid[Today][c] = Spent(c) /\ Spent(c) \in Nat
        /\ \A day \in DaysHere : day > Today =>
                paidTotal[day] = 0 /\ \A c \in Commodities : paid[day][c] = 0
    BY <1>1, PaidIsSpent
  <1>6. Spent(co) + cost <= DailyCap /\ SpentTotal + cost <= TotalCap
    BY <1>1, <1>2, <1>5, Bounds DEF CapBlocks
  <1>7. paid \in [DaysHere -> [Commodities -> Nat]] /\ paidTotal \in [DaysHere -> Nat]
    BY DEF SpendOK
  <1>8. /\ paid'[Today][co] = Spent(co) + cost
        /\ \A c \in Commodities \ {co} : paid'[Today][c] = Spent(c)
        /\ \A day \in DaysHere \ {Today} : paid'[day] = paid[day]
        /\ paid' \in [DaysHere -> [Commodities -> Nat]]
    BY <1>1, <1>2, <1>5, <1>7
  <1>9. /\ paidTotal'[Today] = SpentTotal + cost
        /\ \A day \in DaysHere \ {Today} : paidTotal'[day] = paidTotal[day]
        /\ paidTotal' \in [DaysHere -> Nat]
    BY <1>1, <1>2, <1>5, <1>7
  <1>10. Awaited' = cost /\ \A c : AwaitedOf(c)' = IF c = co THEN cost ELSE 0
    BY <1>1, <1>4 DEF Awaited, AwaitedOf
  <1>11. /\ paidTotal'[spendDay'] = spendTotal' + Awaited'
         /\ \A c \in Commodities : paid'[spendDay'][c] = spend'[c] + AwaitedOf(c)'
    BY <1>1, <1>5, <1>8, <1>9, <1>10
  <1>12. \A day \in DaysHere : day > spendDay' =>
            paidTotal'[day] = 0 /\ \A c \in Commodities : paid'[day][c] = 0
    <2> TAKE day \in DaysHere
    <2> HAVE day > spendDay'
    <2>1. day # Today /\ day > Today
      BY <1>1, <1>5 DEF DaysHere
    <2> QED BY <1>5, <1>8, <1>9, <2>1
  <1>13. CapsHold'
    <2>1. \A day \in DaysHere : paidTotal[day] <= TotalCap
                                /\ \A c \in Commodities : paid[day][c] <= DailyCap
      BY DEF SpendOK, CapsHold
    <2>2. \A day \in DaysHere : paidTotal'[day] <= TotalCap
      BY <1>6, <1>9, <2>1
    <2>3. \A day \in DaysHere, c \in Commodities : paid'[day][c] <= DailyCap
      BY <1>5, <1>6, <1>8, <2>1
    <2> QED BY <2>2, <2>3 DEF CapsHold
  <1>14. spendTotal' \in Nat /\ spend' \in [Commodities -> Nat]
    BY <1>1, <1>5
  <1>15. spendDay' \in 0..Today' /\ spendDay' # Never /\ spendDay' = Placed'.day
    BY <1>1, <1>4, <1>5 DEF Never
  <1> QED BY <1>8, <1>9, <1>11, <1>12, <1>13, <1>14, <1>15 DEF SpendOK

\* What an order awaited in this state is worth.
LEMMA AwaitedOrder ==
  ASSUME TimeOK, OrdersOK, SpendOK, phase = "order"
  PROVE  /\ Placed.cost \in Nat /\ CommodityOf[Placed.t] \in Commodities
         /\ spendDay = Placed.day /\ spendDay \in DaysHere /\ spendDay # Never
         /\ paidTotal[spendDay] = spendTotal + Placed.cost
         /\ \A c \in Commodities :
                paid[spendDay][c] = spend[c] + (IF c = CommodityOf[Placed.t]
                                                THEN Placed.cost ELSE 0)
  <1>1. orders # <<>> /\ orders \in Seq(Order)
    BY DEF OrdersOK
  <1>2. Len(orders) \in 1..Len(orders) /\ Placed \in Order
    BY <1>1, EmptySeq, LenProperties, ElementOfSeq DEF Placed
  <1>3. Placed.day \in 0..Today
    BY <1>2 DEF OrdersOK, Placed
  <1>4. Today \in DaysHere /\ Today \in Nat
    BY DaysInRange
  <1>5. Placed.day \in DaysHere /\ Placed.day # Never
    <2>1. DayOf(MaxTime) \in Nat
      BY Bounds, DaysGrow
    <2> QED BY <1>3, <1>4, <2>1 DEF DaysHere, Never
  <1>6. Placed.cost \in Nat /\ CommodityOf[Placed.t] \in Commodities
    BY <1>2, CommodityAssumption DEF Order
  <1> QED BY <1>5, <1>6 DEF SpendOK, Awaited, AwaitedOf

LEMMA ReplyKeeps ==
  ASSUME TimeOK, OrdersOK, SpendOK, phase = "order", phase' # "order",
         RecordSpend(CommodityOf[Placed.t], Placed.cost), UNCHANGED <<clock, paidVars>>
  PROVE  SpendOK'
  <1> USE DEF paidVars
  <1> DEFINE co == CommodityOf[Placed.t]
             cost == Placed.cost
  <1>1. /\ spend' = [spend EXCEPT ![co] = @ + cost] /\ spendTotal' = spendTotal + cost
        /\ spendDay' = spendDay /\ Today' = Today
    BY DEF RecordSpend, Today
  <1>2. /\ cost \in Nat /\ co \in Commodities /\ spendDay \in DaysHere /\ spendDay # Never
        /\ paidTotal[spendDay] = spendTotal + cost
        /\ \A c \in Commodities : paid[spendDay][c] = spend[c] + (IF c = co THEN cost ELSE 0)
    BY AwaitedOrder
  <1>3. spend \in [Commodities -> Nat] /\ spendTotal \in Nat
    BY DEF SpendOK
  <1>4. Awaited' = 0 /\ \A c : AwaitedOf(c)' = 0
    BY DEF Awaited, AwaitedOf
  <1> HIDE DEF co, cost
  <1>5. spend' \in [Commodities -> Nat] /\ spendTotal' \in Nat
    BY <1>1, <1>2, <1>3
  <1>6. \A c \in Commodities : spend'[c] = spend[c] + (IF c = co THEN cost ELSE 0)
    BY <1>1, <1>2, <1>3
  <1>7. /\ paidTotal'[spendDay'] = spendTotal' + Awaited'
        /\ \A c \in Commodities : paid'[spendDay'][c] = spend'[c] + AwaitedOf(c)'
    BY <1>1, <1>2, <1>4, <1>5, <1>6
  <1> QED BY <1>1, <1>2, <1>5, <1>7 DEF SpendOK, CapsHold

LEMMA ErrorKeeps ==
  ASSUME TimeOK, OrdersOK, SpendOK, phase = "order", phase' # "order",
         Pay(CommodityOf[Placed.t], Placed.day, -Placed.cost), UNCHANGED <<clock, spendVars>>
  PROVE  SpendOK'
  <1> USE DEF spendVars
  <1> DEFINE co == CommodityOf[Placed.t]
             cost == Placed.cost
  <1>1. /\ spendDay = Placed.day
        /\ cost \in Nat /\ co \in Commodities /\ spendDay \in DaysHere /\ spendDay # Never
        /\ paidTotal[spendDay] = spendTotal + cost
        /\ \A c \in Commodities : paid[spendDay][c] = spend[c] + (IF c = co THEN cost ELSE 0)
    BY AwaitedOrder
  <1>2. /\ paid' = [paid EXCEPT ![spendDay][co] = @ + (-cost)]
        /\ paidTotal' = [paidTotal EXCEPT ![spendDay] = @ + (-cost)]
        /\ Today' = Today
    BY <1>1 DEF Pay, Today
  <1>3. /\ spend \in [Commodities -> Nat] /\ spendTotal \in Nat
        /\ paid \in [DaysHere -> [Commodities -> Nat]] /\ paidTotal \in [DaysHere -> Nat]
    BY DEF SpendOK
  <1>4. Awaited' = 0 /\ \A c : AwaitedOf(c)' = 0
    BY DEF Awaited, AwaitedOf
  <1> HIDE DEF co, cost
  <1>5. /\ paid'[spendDay][co] = spend[co]
        /\ \A c \in Commodities \ {co} : paid'[spendDay][c] = spend[c]
        /\ \A day \in DaysHere \ {spendDay} : paid'[day] = paid[day]
    BY <1>1, <1>2, <1>3
  <1>6. /\ paidTotal'[spendDay] = spendTotal
        /\ \A day \in DaysHere \ {spendDay} : paidTotal'[day] = paidTotal[day]
        /\ paidTotal' \in [DaysHere -> Nat]
    BY <1>1, <1>2, <1>3
  <1>7. paid' \in [DaysHere -> [Commodities -> Nat]]
    <2>1. paid[spendDay][co] + (-cost) \in Nat
      BY <1>1, <1>3
    <2>2. [paid[spendDay] EXCEPT ![co] = @ + (-cost)] \in [Commodities -> Nat]
      BY <1>1, <1>3, <2>1
    <2> QED BY <1>1, <1>2, <1>3, <2>2
  <1>8. /\ paidTotal'[spendDay'] = spendTotal' + Awaited'
        /\ \A c \in Commodities : paid'[spendDay'][c] = spend'[c] + AwaitedOf(c)'
    BY <1>3, <1>4, <1>5, <1>6
  <1>9. \A day \in DaysHere : day > spendDay' =>
            paidTotal'[day] = 0 /\ \A c \in Commodities : paid'[day][c] = 0
    <2> TAKE day \in DaysHere
    <2> HAVE day > spendDay'
    <2>1. day # spendDay
      BY DEF DaysHere
    <2> QED BY <1>5, <1>6, <2>1 DEF SpendOK
  <1>10. CapsHold'
    <2>1. \A day \in DaysHere : paidTotal[day] <= TotalCap
                                /\ \A c \in Commodities : paid[day][c] <= DailyCap
      BY DEF SpendOK, CapsHold
    <2>2. \A day \in DaysHere : paidTotal'[day] <= TotalCap
      BY <1>1, <1>3, <1>6, <2>1, Bounds
    <2>3. \A day \in DaysHere, c \in Commodities : paid'[day][c] <= DailyCap
      <3> TAKE day \in DaysHere, c \in Commodities
      <3>1. CASE day # spendDay
        BY <1>5, <2>1, <3>1
      <3>2. CASE day = spendDay
        <4>1. paid'[day][c] = spend[c] /\ paid[day][c] <= DailyCap
          BY <1>5, <2>1, <3>2
        <4> QED BY <1>1, <1>3, <3>2, <4>1, Bounds
      <3> QED BY <3>1, <3>2
    <2> QED BY <2>2, <2>3 DEF CapsHold
  <1> QED BY <1>1, <1>2, <1>6, <1>7, <1>8, <1>9, <1>10 DEF SpendOK

LEMMA SpendStep == Inv /\ TimeOK' /\ [Next]_vars => SpendOK'
  <1> SUFFICES ASSUME TimeOK, PassOK, OrdersOK, SpendOK, TimeOK', [Next]_vars PROVE SpendOK'
    BY DEF Inv
  <1> USE DEF spendVars, shimVars, passVars, paidVars, histVars
  <1>1. clock \in Nat /\ clock <= clock
    BY Bounds DEF TimeOK
  <1>2. ASSUME NEW rest \in SUBSET Tickers, NEW order, NEW now, NEW ent,
               NEW fired, GoOn(rest, order, now, ent, fired)
        PROVE  phase' # "order"
    <2>1. Passed(rest, ent, fired)
      BY <1>2, GoOnPasses DEF TimeOK
    <2> QED BY <2>1, NotOrdering
  <1>3. markets \in SUBSET Tickers /\ todo \in SUBSET Tickers
    BY DEF PassOK
  <1>4. CASE Tick
    <2>1. UNCHANGED <<spendVars, paidVars>> /\ UNCHANGED <<phase, orders>> /\ clock <= clock'
      BY <1>1, <1>4 DEF Tick
    <2> QED BY <2>1, SpendKeep
  <1>5. CASE Spot \/ Stop
    <2>1. UNCHANGED <<spendVars, paidVars>> /\ UNCHANGED <<phase, orders>> /\ clock' = clock
      BY <1>5 DEF Spot, Bootstrap, PollSpot, Stale, Quote, Stop
    <2> QED BY <1>1, <2>1, SpendKeep
  <1>6. ASSUME NEW series, Boot(series) PROVE SpendOK'
    <2>1. UNCHANGED <<spendVars, paidVars>> /\ UNCHANGED <<phase, orders>> /\ clock' = clock
      BY <1>6 DEF Boot
    <2> QED BY <1>1, <2>1, SpendKeep
  <1>7. CASE NoShim /\ UNCHANGED clock
    BY <1>7, InvNoShim DEF Inv
  <1>8. CASE StartPass
    <2>1. /\ UNCHANGED <<spendVars, paidVars>> /\ clock' = clock
          /\ phase # "order" /\ phase' # "order"
      BY <1>2, <1>3, <1>8 DEF StartPass
    <2> QED BY <1>1, <2>1, SpendKeep
  <1>9. ASSUME NEW series, Listed(series) PROVE SpendOK'
    <2>1. /\ UNCHANGED <<spendVars, paidVars>> /\ clock' = clock /\ phase = "listing"
          /\ RefreshMarkets(series) /\ GoOn(markets', before', passNow, entered', Kept)
      BY <1>9 DEF Listed
    <2>2. markets' \in SUBSET Tickers
      BY <2>1, RefreshKeepsTypes
    <2>3. phase' # "order"
      BY <1>2, <2>1, <2>2
    <2> QED BY <1>1, <2>1, <2>3, SpendKeep
  <1>10. CASE NoEntry
    <2>1. /\ UNCHANGED <<spendVars, paidVars>> /\ clock' = clock
          /\ phase # "order" /\ phase' # "order"
      BY <1>2, <1>3, <1>10 DEF NoEntry
    <2> QED BY <1>1, <2>1, SpendKeep
  <1>11. ASSUME NEW cost, CapBlock(cost) PROVE SpendOK'
    <2>1. /\ DailyReset /\ UNCHANGED <<clock, paidVars>>
          /\ phase # "order" /\ phase' # "order"
      BY <1>2, <1>3, <1>11 DEF CapBlock
    <2> QED BY <2>1, ResetKeeps
  <1>12. ASSUME NEW cost, Submit(cost) PROVE SpendOK'
    BY <1>12, SubmitKeeps
  <1>13. CASE OrderReply
    <2>1. /\ RecordSpend(CommodityOf[Placed.t], Placed.cost) /\ UNCHANGED <<clock, paidVars>>
          /\ phase = "order" /\ phase' # "order"
      BY <1>2, <1>3, <1>13 DEF OrderReply
    <2> QED BY <2>1, ReplyKeeps
  <1>14. CASE OrderError
    <2>1. /\ Pay(CommodityOf[Placed.t], Placed.day, -Placed.cost)
          /\ UNCHANGED <<clock, spendVars>>
          /\ phase = "order" /\ phase' # "order"
      BY <1>2, <1>3, <1>14 DEF OrderError
    <2> QED BY <2>1, ErrorKeeps
  <1>15. CASE UNCHANGED vars
    <2>1. UNCHANGED <<spendVars, paidVars>> /\ UNCHANGED <<phase, orders>> /\ clock' = clock
      BY <1>15 DEF vars
    <2> QED BY <1>1, <2>1, SpendKeep
  <1> QED BY <1>4, <1>5, <1>6, <1>7, <1>8, <1>9, <1>10, <1>11, <1>12, <1>13, <1>14, <1>15
          DEF Next, Life, Decisions, Crash, End
-----------------------------------------------------------------------------
(* The theorems. *)

THEOREM InvAlways == Spec => []Inv
  <1>1. Inv /\ [Next]_vars => Inv'
    <2> SUFFICES ASSUME Inv, [Next]_vars PROVE Inv'
      OBVIOUS
    <2>1. TimeOK' /\ KeysOK' /\ PassOK'
      BY TimeStep, KeysStep, PassStep DEF Inv
    <2> QED BY <2>1, OrdersStep, MarksStep, SpendStep DEF Inv
  <1> QED BY <1>1, InvInit, PTL DEF Spec

\* Every variable keeps its type, and the spend that is kept per commodity and
\* in total never exceeds its cap.
THEOREM TypeCorrect == Spec => []TypeOK
  <1>1. Inv => TypeOK
    <2> SUFFICES ASSUME Inv PROVE TypeOK
      OBVIOUS
    <2> USE DEF Inv
    <2>1. spend \in [Commodities -> 0..DailyCap] /\ spendTotal \in 0..TotalCap
      <3>1. /\ spend \in [Commodities -> Nat] /\ spendTotal \in Nat
            /\ spendDay = Never => spendTotal = 0 /\ \A c \in Commodities : spend[c] = 0
        BY DEF SpendOK
      <3>2. ASSUME spendDay # Never
            PROVE  spendTotal <= TotalCap /\ \A c \in Commodities : spend[c] <= DailyCap
        <4>1. spendDay \in DaysHere
          <5>1. Today \in 0..DayOf(MaxTime) /\ Today \in Nat /\ DayOf(MaxTime) \in Nat
            BY DaysInRange, DaysGrow, Bounds DEF DaysHere
          <5> QED BY <3>2, <5>1 DEF SpendOK, DaysHere
        <4>2. /\ paidTotal[spendDay] = spendTotal + Awaited /\ paidTotal[spendDay] <= TotalCap
              /\ \A c \in Commodities : /\ paid[spendDay][c] = spend[c] + AwaitedOf(c)
                                       /\ paid[spendDay][c] <= DailyCap
          BY <3>2, <4>1 DEF SpendOK, CapsHold
        <4>3. Awaited \in Nat /\ \A c : AwaitedOf(c) \in Nat
          BY AwaitedOrder DEF Awaited, AwaitedOf
        <4> QED BY <3>1, <4>2, <4>3, Bounds
      <3> QED BY <3>1, <3>2, Bounds
    <2>2. orders \in Seq([t : Tickers, cost : UNION Range(CostsOf), day : 0..Today])
      <3>1. \A i \in 1..Len(orders) : orders[i] \in Order
        BY ElementOfSeq DEF OrdersOK
      <3>2. Len(orders) \in Nat /\ orders \in [1..Len(orders) -> Order]
        BY LenProperties DEF OrdersOK
      <3>3. \A i \in 1..Len(orders) :
                orders[i] \in [t : Tickers, cost : UNION Range(CostsOf), day : 0..Today]
        BY <3>1 DEF OrdersOK, Order
      <3> DEFINE n == Len(orders)
                 Orders == [t : Tickers, cost : UNION Range(CostsOf), day : 0..Today]
      <3>4. orders \in [1..n -> Orders] /\ n \in Nat
        BY <3>2, <3>3
      <3> HIDE DEF n, Orders
      <3>5. Seq(Orders) = UNION {[1..k -> Orders] : k \in Nat}
        BY SeqDef, Zenon
      <3>6. orders \in Seq(Orders)
        BY <3>4, <3>5, Zenon
      <3> QED BY <3>6 DEF Orders
    <2>3. spendDay \in {Never} \cup 0..Today /\ paid \in [DaysHere -> [Commodities -> Nat]]
          /\ paidTotal \in [DaysHere -> Nat]
      BY DEF SpendOK
    <2>4. IF phase \in {"book", "order"}
          THEN current \in [t : Tickers, quote : Quotes \ {"none"}]
          ELSE current = Nobody
      BY DEF PassOK
    <2>5. failed \subseteq 1..Len(orders) /\ onOld \in BOOLEAN
      BY DEF OrdersOK
    <2> QED BY <2>1, <2>2, <2>3, <2>4, <2>5, Zenon DEF TypeOK, TimeOK, KeysOK, PassOK
  <1> QED BY <1>1, InvAlways, PTL

\* However passes, listings, errors and midnights interleave, a process sends a
\* second order for a strike only after the first failed.
THEOREM EntersOnce == Spec => []OneEntry
  <1>1. Inv => OneEntry
    BY DEF Inv, OrdersOK
  <1> QED BY <1>1, InvAlways, PTL

\* A process sends no more orders for a strike than there are marks.
THEOREM AttemptsAreBounded == Spec => []AttemptsBounded
  <1>1. Inv => AttemptsBounded
    <2> SUFFICES ASSUME Inv, NEW t \in Tickers
                 PROVE  Cardinality(Sent(t)) <= Cardinality(Marks)
      BY DEF AttemptsBounded, Sent
    <2>1. Cardinality(Sent(t)) \in Nat
      BY SentIsFinite DEF Inv, OrdersOK
    <2>2. evaluated[t] \in SUBSET Marks
      BY DEF Inv, PassOK
    <2>3. /\ Cardinality(evaluated[t]) \in Nat /\ Cardinality(Marks) \in Nat
          /\ Cardinality(evaluated[t]) <= Cardinality(Marks)
      BY <2>2, MarksAreFinite
    <2> QED BY <2>1, <2>3 DEF Inv, MarksOK
  <1> QED BY <1>1, InvAlways, PTL

\* What a process pays on any day, by its own estimates, stays within the cap
\* of each commodity and within the total.
THEOREM CapsAlwaysHold == Spec => []CapsHold
  <1>1. Inv => CapsHold
    BY DEF Inv, SpendOK
  <1> QED BY <1>1, InvAlways, PTL
-----------------------------------------------------------------------------
(* How a pass goes to its end. *)

\* The pass is one step nearer to its end: it has the listing, an order is on
\* its way for the market evaluated, it is over, or it has come to a market it
\* had before it and leaves that one behind.
Nearer ==
    \/ phase = "listing" /\ phase' \in {"book", "sleep"}
    \/ phase = "book" /\ phase' = "order" /\ UNCHANGED <<todo, current>>
    \/ phase \in {"book", "order"} /\ phase' = "sleep"
    \/ /\ phase \in {"book", "order"} /\ phase' = "book"
       /\ current'.t \in todo /\ todo' \subseteq todo \ {current'.t}

LEMMA GoOnIsNearer ==
  ASSUME PassOK, KeysOK, phase \in {"book", "order"}, NEW now, NEW ent, NEW fired,
         GoOn(todo, before, now, ent, fired)
  PROVE  Nearer
  <1>1. ASSUME NEW t \in {u \in todo : Due(u, now, ent, fired)},
               phase' = "book",
               todo' = {u \in todo : <<t, u>> \in before},
               current' = [t |-> t, quote |-> quote[CommodityOf[t]]]
        PROVE  Nearer
    <2>1. t \in todo /\ current'.t = t
      BY <1>1
    <2>2. <<t, t>> \notin before
      BY <2>1 DEF PassOK, KeysOK
    <2> QED BY <1>1, <2>1, <2>2 DEF Nearer
  <1>2. CASE phase' = "sleep"
    BY <1>2 DEF Nearer
  <1> QED BY <1>1, <1>2 DEF GoOn

\* A process asked to stop stays asked, begins no pass, and whatever replies,
\* prices and errors come, each of its steps takes the pass under way nearer to
\* its end, leaves it where it is, or ends the process: what StopEnds needs
\* besides the fairness of the loop.
THEOREM StopRunsDown ==
    Spec => [][stop /\ running /\ running' =>
                   stop' /\ (Nearer \/ UNCHANGED <<phase, todo, current>>)]_vars
  <1> DEFINE RunsDown == stop' /\ (Nearer \/ UNCHANGED <<phase, todo, current>>)
  <1>1. Inv /\ [Next]_vars => [stop /\ running /\ running' => RunsDown]_vars
    <2> SUFFICES ASSUME Inv, Next, stop, running, running' PROVE RunsDown
      OBVIOUS
    <2> PassOK /\ KeysOK
      BY DEF Inv
    <2>1. CASE Tick \/ Spot
      BY <2>1 DEF Tick, Spot, Bootstrap, PollSpot, Stale, Quote, passVars
    <2>2. CASE Life
      BY <2>2 DEF Life, Stop, Crash, Boot, NoShim
    <2>3. CASE StartPass \/ End
      BY <2>3 DEF StartPass, End, NoShim
    <2>4. ASSUME NEW series, Listed(series) PROVE RunsDown
      <3>1. stop' = stop /\ phase = "listing"
        BY <2>4 DEF Listed
      <3>2. phase' \in {"book", "sleep"}
        BY <2>4 DEF Listed, GoOn
      <3> QED BY <3>1, <3>2 DEF Nearer
    <2>5. CASE NoEntry
      BY <2>5, GoOnIsNearer DEF NoEntry
    <2>6. ASSUME NEW cost, CapBlock(cost) PROVE RunsDown
      BY <2>6, GoOnIsNearer DEF CapBlock
    <2>7. ASSUME NEW cost, Submit(cost) PROVE RunsDown
      BY <2>7 DEF Submit, Nearer
    <2>8. CASE OrderReply
      BY <2>8, GoOnIsNearer DEF OrderReply
    <2>9. CASE OrderError
      <3>1. GoOn(todo, before, passNow, entered', evaluated) /\ stop' = stop
            /\ phase = "order"
        BY <2>9 DEF OrderError
      <3> HIDE DEF Nearer
      <3> QED BY <3>1, GoOnIsNearer
    <2> QED BY <2>1, <2>2, <2>3, <2>4, <2>5, <2>6, <2>7, <2>8, <2>9 DEF Next, Decisions
  <1> QED BY <1>1, InvAlways, PTL DEF Spec
=============================================================================
