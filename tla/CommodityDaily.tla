--------------------------- MODULE CommodityDaily ---------------------------
(***************************************************************************)
(* The commodity engine, bin/live_commodity.py: one task polls Pyth for    *)
(* spot prices, one passes over the markets every few seconds and, in the  *)
(* hour before a market closes, evaluates it once at each of a few marks.  *)
(* Both live in one asyncio loop; an action runs from one await to the     *)
(* next, so a pass goes on by itself from a market it need not ask the     *)
(* exchange about to the next one.                                         *)
(*                                                                         *)
(* The model's verdict, the book and the confidence of the price are a     *)
(* choice; the engine never reads the account, so an order sent counts.    *)
(* Minutes and days are those of a clock that starts at 0.                 *)
(***************************************************************************)
EXTENDS Integers, Sequences, FiniteSets, Functions

CONSTANTS Tickers, Commodities,
          CommodityOf,      \* Tickers -> Commodities
          CloseAt,          \* Tickers -> close time
          Listing,          \* the order in which the exchange lists markets
          Marks,            \* observe_marks, minutes before close
          Tolerance,        \* tolerance_s of active_observe_mark
          OpenMinutes, CloseMinutes,   \* DailyWindow
          DailyCap, TotalCap,   \* --daily-cap-cents, --total-daily-cap-cents
          CostsOf,          \* Tickers -> what an order may cost, est_cost_cents
          RefreshEvery,     \* seconds between two refresh_markets
          Keep,             \* a closed market is kept this long
          DayLen,           \* length of a UTC day
          MaxTime           \* bound of the model

ASSUME CommodityAssumption ==
    /\ CommodityOf \in [Tickers -> Commodities]
    /\ CloseAt \in [Tickers -> Nat]
    /\ Listing \in Seq(Tickers) /\ Range(Listing) = Tickers
    /\ \A i, j \in 1..Len(Listing) : i # j => Listing[i] # Listing[j]
    /\ Marks \subseteq Nat /\ IsFiniteSet(Marks) /\ Tolerance \in Nat \ {0}
    /\ OpenMinutes \in Nat /\ CloseMinutes \in 0..OpenMinutes - 1
    /\ CostsOf \in [Tickers -> SUBSET Nat] /\ DailyCap \in Nat /\ TotalCap \in Nat
    /\ RefreshEvery \in Nat /\ Keep \in Nat /\ DayLen \in Nat \ {0}
    /\ MaxTime \in Nat

VARIABLES
    clock,
    running,
    stop,         \* a shutdown was requested, or the deadline has come
    quote,        \* what is known of each commodity's price
    \* CommodityShim
    markets,      \* keys of markets
    before,       \* the order in which they were added
    entered,
    evaluated,    \* Tickers -> marks that fired
    spend,        \* daily_spend_cents
    spendTotal,   \* daily_spend_total_cents
    spendDay,     \* _daily_start_utc_date
    lastRefresh,
    \* the decision loop
    phase,        \* what it awaits: sleep, the listing, a book, an order
    passNow,      \* now, read at the start of the pass
    todo,         \* markets the pass has not come to
    current,      \* the market being evaluated, with the quote it started from
    \* history of this process
    orders,       \* orders sent
    failed,       \* those that ended in order_error
    paid,         \* what those that did not fail cost, by day and commodity
    paidTotal,    \* and by day
    onOld         \* one was decided on a price that was too old

spendVars == <<spend, spendTotal, spendDay>>
shimVars == <<markets, before, entered, evaluated, spendVars, lastRefresh>>
passVars == <<phase, passNow, todo, current>>
paidVars == <<paid, paidTotal>>
histVars == <<orders, failed, paidVars, onOld>>
vars == <<clock, running, stop, quote, shimVars, passVars, histVars>>

DayOf(time) == time \div DayLen
Today == DayOf(clock)
DaysHere == 0..DayOf(MaxTime)
Never == -1
Nobody == [t |-> "none", quote |-> "none"]

\* none: no spot at all.  history: candles, no Pyth price.  fresh, old: a Pyth
\* price, within --pyth-max-stale-s or beyond it.
Quotes == {"none", "history", "fresh", "old"}

TypeOK ==
    /\ clock \in 0..MaxTime /\ running \in BOOLEAN /\ stop \in BOOLEAN
    /\ quote \in [Commodities -> Quotes]
    /\ markets \subseteq Tickers /\ entered \subseteq markets
    /\ before \subseteq markets \X markets
    /\ \A t, u \in markets : <<t, u>> \in before <=> t # u /\ <<u, t>> \notin before
    /\ evaluated \in [Tickers -> SUBSET Marks]
    /\ spend \in [Commodities -> 0..DailyCap] /\ spendTotal \in 0..TotalCap
    /\ spendDay \in {Never} \cup 0..Today
    /\ lastRefresh \in {Never} \cup 0..clock
    /\ phase \in {"sleep", "listing", "book", "order"}
    /\ passNow \in 0..clock /\ todo \subseteq markets
    /\ IF phase \in {"book", "order"}
       THEN current \in [t : Tickers, quote : Quotes \ {"none"}]
       ELSE current = Nobody
    /\ orders \in Seq([t : Tickers, cost : UNION Range(CostsOf), day : 0..Today])
    /\ failed \subseteq 1..Len(orders) /\ onOld \in BOOLEAN
    /\ paid \in [DaysHere -> [Commodities -> Nat]] /\ paidTotal \in [DaysHere -> Nat]

\* A process that has not started, or has ended.
NoShim ==
    /\ running' = FALSE /\ stop' = FALSE
    /\ quote' = [c \in Commodities |-> "none"]
    /\ markets' = {} /\ before' = {} /\ entered' = {} /\ evaluated' = [t \in Tickers |-> {}]
    /\ spend' = [c \in Commodities |-> 0] /\ spendTotal' = 0 /\ spendDay' = Never
    /\ lastRefresh' = Never
    /\ phase' = "sleep" /\ passNow' = 0 /\ todo' = {} /\ current' = Nobody
    /\ orders' = <<>> /\ failed' = {} /\ onOld' = FALSE
    /\ paid' = [day \in DaysHere |-> [c \in Commodities |-> 0]]
    /\ paidTotal' = [day \in DaysHere |-> 0]

Init ==
    /\ clock = 0
    /\ running = FALSE /\ stop = FALSE
    /\ quote = [c \in Commodities |-> "none"]
    /\ markets = {} /\ before = {} /\ entered = {} /\ evaluated = [t \in Tickers |-> {}]
    /\ spend = [c \in Commodities |-> 0] /\ spendTotal = 0 /\ spendDay = Never
    /\ lastRefresh = Never
    /\ phase = "sleep" /\ passNow = 0 /\ todo = {} /\ current = Nobody
    /\ orders = <<>> /\ failed = {} /\ onOld = FALSE
    /\ paid = [day \in DaysHere |-> [c \in Commodities |-> 0]]
    /\ paidTotal = [day \in DaysHere |-> 0]
-----------------------------------------------------------------------------
(* Time, spot prices and the life of the process. *)

Tick ==
    /\ clock < MaxTime
    /\ clock' = clock + 1
    /\ UNCHANGED <<running, stop, quote, shimVars, passVars, histVars>>

Quote(c, q) ==
    /\ running
    /\ quote' = [quote EXCEPT ![c] = q]
    /\ UNCHANGED <<clock, running, stop, shimVars, passVars, histVars>>

\* spot_poll_loop: candles of every commodity first, each list may be empty.
Bootstrap(c) ==
    /\ quote[c] = "none"
    /\ \A d \in Commodities : quote[d] \in {"none", "history"}
    /\ Quote(c, "history")

\* get_latest returns a price not older than --pyth-max-stale-s.  When it
\* returns None the loop goes on and leaves latest_pyth as it is.
PollSpot(c) == quote[c] # "fresh" /\ Quote(c, "fresh")

\* The price read last outlives --pyth-max-stale-s.
Stale(c) == quote[c] = "fresh" /\ Quote(c, "old")

Stop ==
    /\ running /\ ~stop
    /\ stop' = TRUE
    /\ UNCHANGED <<clock, running, quote, shimVars, passVars, histVars>>

Crash ==
    /\ running
    /\ NoShim
    /\ UNCHANGED clock
-----------------------------------------------------------------------------
(* refresh_markets *)

\* Markets of the series whose listing worked.
Found(series) == {t \in Tickers : CommodityOf[t] \in series /\ clock < CloseAt[t]}

Pruned(t) == CloseAt[t] < clock - Keep

\* t comes before u among the keys: a new key is the last, and a pass over the
\* series adds them as they are listed.
Precedes(t, u) ==
    \/ <<t, u>> \in before
    \/ t \in markets /\ u \notin markets
    \/ /\ t \notin markets /\ u \notin markets
       /\ \E i, j \in 1..Len(Listing) : i < j /\ t = Listing[i] /\ u = Listing[j]

\* Closed markets are forgotten, with their marks and their entries.
RefreshMarkets(series) ==
    /\ markets' = {t \in markets \cup Found(series) : ~Pruned(t)}
    /\ before' = {p \in markets' \X markets' : Precedes(p[1], p[2])}
    /\ entered' = {t \in entered : ~Pruned(t)}

Kept == [t \in Tickers |-> IF Pruned(t) THEN {} ELSE evaluated[t]]

\* The markets are listed once before the loops start.
Boot(series) ==
    /\ ~running
    /\ running' = TRUE
    /\ RefreshMarkets(series)
    /\ UNCHANGED <<clock, stop, quote, evaluated, spendVars, lastRefresh, passVars,
                   histVars>>
-----------------------------------------------------------------------------
(* decision_loop *)

InWindow(t, now) ==
    /\ CloseAt[t] - now <= OpenMinutes
    /\ CloseAt[t] - now > CloseMinutes

\* active_observe_mark
Hits(t, now) == {m \in Marks : m - Tolerance < CloseAt[t] - now /\ CloseAt[t] - now <= m}
Mark(t, now) == {m \in Hits(t, now) : \A k \in Hits(t, now) : k <= m}

\* Mutant: the marks that fired are not remembered.
DueAgain(t, now, ent, fired) ==
    /\ t \notin ent
    /\ InWindow(t, now)
    /\ quote[CommodityOf[t]] # "none"
    /\ Mark(t, now) # {}

Due(t, now, ent, fired) ==
    /\ t \notin ent
    /\ InWindow(t, now)
    /\ quote[CommodityOf[t]] # "none"
    /\ Mark(t, now) \ fired[t] # {}

\* The pass goes on through rest in order, with the time read when it began: to
\* the first market that is due, whose mark fires now, or to the end.
GoOn(rest, order, now, ent, fired) ==
    LET due == {t \in rest : Due(t, now, ent, fired)} IN
    \/ /\ due = {}
       /\ phase' = "sleep" /\ todo' = {} /\ current' = Nobody
       /\ evaluated' = fired
    \/ \E t \in due :
        /\ \A u \in due \ {t} : <<t, u>> \in order
        /\ phase' = "book"
        /\ todo' = {u \in rest : <<t, u>> \in order}
        /\ current' = [t |-> t, quote |-> quote[CommodityOf[t]]]
        /\ evaluated' = [fired EXCEPT ![t] = @ \cup Mark(t, now)]

RefreshDue == lastRefresh = Never \/ clock - lastRefresh > RefreshEvery

StartPass ==
    /\ running /\ phase = "sleep" /\ ~stop
    /\ passNow' = clock
    /\ IF RefreshDue
       THEN phase' = "listing" /\ UNCHANGED <<evaluated, todo, current>>
       ELSE GoOn(markets, before, clock, entered, evaluated)
    /\ UNCHANGED <<clock, running, stop, quote, markets, before, entered, spendVars,
                   lastRefresh, histVars>>

Listed(series) ==
    /\ phase = "listing"
    /\ RefreshMarkets(series)
    /\ lastRefresh' = passNow
    /\ GoOn(markets', before', passNow, entered', Kept)
    /\ UNCHANGED <<clock, running, stop, quote, spendVars, passNow, histVars>>

\* stop is looked at between two passes only.
End ==
    /\ running /\ phase = "sleep" /\ stop
    /\ NoShim
    /\ UNCHANGED clock
-----------------------------------------------------------------------------
(* evaluate_ticker *)

Spent(c) == IF spendDay = Today THEN spend[c] ELSE 0
SpentTotal == IF spendDay = Today THEN spendTotal ELSE 0

DailyReset ==
    /\ spend' = [c \in Commodities |-> Spent(c)]
    /\ spendTotal' = SpentTotal
    /\ spendDay' = Today

\* Mutant: the cap is compared with what is spent already.
CapReached(c, cost) == Spent(c) >= DailyCap \/ SpentTotal >= TotalCap

CapBlocks(c, cost) == Spent(c) + cost > DailyCap \/ SpentTotal + cost > TotalCap

HasPrice == current.quote \in {"fresh", "old"}

\* The book request fails, there is no Pyth price, a gate or the model says skip.
NoEntry ==
    /\ phase = "book"
    /\ GoOn(todo, before, passNow, entered, evaluated)
    /\ UNCHANGED <<clock, running, stop, quote, markets, before, entered, spendVars,
                   lastRefresh, passNow, histVars>>

CapBlock(cost) ==
    /\ phase = "book" /\ HasPrice /\ cost \in CostsOf[current.t]
    /\ CapBlocks(CommodityOf[current.t], cost)
    /\ DailyReset
    /\ GoOn(todo, before, passNow, entered, evaluated)
    /\ UNCHANGED <<clock, running, stop, quote, markets, before, entered, lastRefresh,
                   passNow, histVars>>

\* Mutant: the entry waits for the reply.
MarkNothing(t) == UNCHANGED entered

MarkEntered(t) == entered' = entered \cup {t}

\* History: n is paid for commodity c on that day.
Pay(c, day, n) ==
    /\ paid' = [paid EXCEPT ![day][c] = @ + n]
    /\ paidTotal' = [paidTotal EXCEPT ![day] = @ + n]

Submit(cost) ==
    /\ phase = "book" /\ HasPrice /\ cost \in CostsOf[current.t]
    /\ ~CapBlocks(CommodityOf[current.t], cost)
    /\ DailyReset
    /\ MarkEntered(current.t)
    /\ phase' = "order"
    /\ orders' = Append(orders, [t |-> current.t, cost |-> cost, day |-> Today])
    /\ Pay(CommodityOf[current.t], Today, cost)
    /\ onOld' = (onOld \/ current.quote = "old")
    /\ UNCHANGED <<clock, running, stop, quote, markets, before, evaluated, lastRefresh,
                   passNow, todo, current, failed>>

Placed == orders[Len(orders)]

\* Mutant: only the total is kept.
RecordTotal(c, cost) ==
    /\ spendTotal' = spendTotal + cost
    /\ UNCHANGED <<spend, spendDay>>

RecordSpend(c, cost) ==
    /\ spend' = [spend EXCEPT ![c] = @ + cost]
    /\ spendTotal' = spendTotal + cost
    /\ UNCHANGED spendDay

OrderReply ==
    /\ phase = "order"
    /\ RecordSpend(CommodityOf[Placed.t], Placed.cost)
    /\ GoOn(todo, before, passNow, entered, evaluated)
    /\ UNCHANGED <<clock, running, stop, quote, markets, before, entered, lastRefresh,
                   passNow, histVars>>

\* Mutant: an order that fails is sent again and again.
Resend ==
    /\ phase = "order"
    /\ UNCHANGED vars

\* An error or a timeout, whatever became of the order.
OrderError ==
    /\ phase = "order"
    /\ entered' = entered \ {current.t}
    /\ failed' = failed \cup {Len(orders)}
    /\ Pay(CommodityOf[Placed.t], Placed.day, -Placed.cost)
    /\ GoOn(todo, before, passNow, entered', evaluated)
    /\ UNCHANGED <<clock, running, stop, quote, markets, before, spendVars, lastRefresh,
                   passNow, orders, onOld>>

Spot == \E c \in Commodities : Bootstrap(c) \/ PollSpot(c) \/ Stale(c)
Life == Stop \/ Crash \/ \E series \in SUBSET Commodities : Boot(series)
Decisions ==
    \/ StartPass
    \/ \E series \in SUBSET Commodities : Listed(series)
    \/ End
    \/ NoEntry
    \/ \E cost \in UNION Range(CostsOf) : CapBlock(cost) \/ Submit(cost)
    \/ OrderReply
    \/ OrderError

Next == Tick \/ Spot \/ Life \/ Decisions

\* The loop runs on; a request ends within ten seconds, if only by its timeout.
Fairness ==
    /\ WF_vars(\E series \in SUBSET Commodities : Listed(series))
    /\ WF_vars(NoEntry)
    /\ WF_vars(OrderError)
    /\ WF_vars(End)

Spec == Init /\ [][Next]_vars /\ Fairness
-----------------------------------------------------------------------------
(* Properties. *)

\* What a process pays on one day, by its own estimates and leaving out what
\* failed, stays within the cap of each commodity and within the total, though
\* the spend is recorded only after the reply and the day may change in between.
CapsHold ==
    \A day \in DaysHere :
        /\ paidTotal[day] <= TotalCap
        /\ \A c \in Commodities : paid[day][c] <= DailyCap

\* A process sends a second order for a strike only after the first failed,
\* whatever is pruned, listed again and evaluated at a later mark.
OneEntry ==
    \A i, j \in 1..Len(orders) :
        i < j /\ orders[i].t = orders[j].t => i \in failed

\* Errors are retried, but at the next mark: no process sends more orders for
\* a strike than there are marks.
AttemptsBounded ==
    \A t \in Tickers :
        Cardinality({i \in 1..Len(orders) : orders[i].t = t}) <= Cardinality(Marks)

\* A process asked to stop ends, though a pass is not interrupted.
StopEnds == stop ~> ~running

\* What live_commodity.py states: "fail-closed on stale Pyth, never score on
\* bad data".  No order is decided on a price that was too old when its
\* evaluation began.
NeverStale == ~onOld
=============================================================================
