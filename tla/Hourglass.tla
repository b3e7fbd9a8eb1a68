----------------------------- MODULE Hourglass -----------------------------
(***************************************************************************)
(* The 1-hour engine, bin/live_1hr.py.  One asyncio loop feeds each event  *)
(* to three strategies: the trader, which enters one strike of a cycle,    *)
(* and two sweepers, the ladder and the deep-ITM sweeper, which buy        *)
(* several rungs at once and keep a loss cap of their own.  What they      *)
(* decide is sent one order after the other, each awaited, before the next *)
(* event is taken from the queue.                                          *)
(*                                                                         *)
(* Events leave the queue in the order they were received, any time later; *)
(* seen is the receipt stamp of the last one.  Time counts the half-minute *)
(* windows the strategies look at.  Prices, d_norm, depth and the model's  *)
(* score are a choice, and so are the vetoes of the risk envelope.         *)
(***************************************************************************)
EXTENDS Integers, Sequences, FiniteSets, Functions

CONSTANTS Tickers, Cryptos,
          CryptoOf,      \* Tickers -> Cryptos, crypto_of_ticker
          OpenAt,        \* Tickers -> open time
          Length,        \* Tickers -> duration of the market
          MaxCycle,      \* MAX_1HR_CYCLE_MIN
          TraderMarks,   \* --trigger-minutes
          SkipTimes,     \* times of the skip_hours_utc
          MaxSize,       \* largest size the model asks for
          Levered,       \* cryptos with the size levers of Phase 14.19 (BTC)
          TiltAt, TiltSize, DownSize,   \* BTC_SIZE_TILT_*, BTC_DOWNSIZE_CONTRACTS
          CryptoCap,     \* Cryptos -> per_crypto_max_contracts
          MaxContracts,  \* max_contracts, of the trader and of the envelope
          SweepMarks,    \* Sweepers -> minutes at which it may fire
          SweepCryptos,  \* Sweepers -> crypto_allowlist
          MaxRungs, RungSize, LossCap,  \* Sweepers -> Nat
          Books,         \* favorites and what a contract of theirs costs, in
                         \* cents with the fee
          DayLen,        \* length of a UTC day
          MaxTime, MaxBoots   \* bounds of the model

Sides == {"yes", "no"}
Sweepers == {"ladder", "deep_itm"}
Strategies == Sweepers \cup {"trader"}

ASSUME HourMarketAssumption ==
    /\ IsFiniteSet(Tickers) /\ CryptoOf \in [Tickers -> Cryptos]
    /\ OpenAt \in [Tickers -> Nat] /\ Length \in [Tickers -> Nat \ {0}]
    /\ MaxCycle \in Nat /\ DayLen \in Nat \ {0}
    /\ MaxTime \in Nat /\ MaxBoots \in Nat

ASSUME TraderAssumption ==
    /\ TraderMarks \subseteq Nat /\ SkipTimes \subseteq Nat
    /\ MaxSize \in Nat \ {0} /\ MaxContracts \in Nat \ {0}
    /\ TiltAt \in Nat /\ TiltSize \in Nat \ {0} /\ DownSize \in Nat \ {0}
    /\ Levered \subseteq Cryptos
    /\ CryptoCap \in [Cryptos -> Nat \ {0}]

ASSUME SweeperAssumption ==
    /\ SweepMarks \in [Sweepers -> SUBSET Nat]
    /\ SweepCryptos \in [Sweepers -> SUBSET Cryptos]
    /\ MaxRungs \in [Sweepers -> Nat \ {0}]
    /\ RungSize \in [Sweepers -> Nat \ {0}]
    /\ LossCap \in [Sweepers -> Nat]
    /\ Books \subseteq [side : Sides, cost : 0..100]

VARIABLES
    clock,
    running,
    seen,        \* receipt stamp of the last event handled
    markets,     \* strategy.markets
    subscribed,  \* kalshi_ws._tickers
    \* HourglassTraderStrategy
    evaluated, entered, enteredCycles,
    \* LadderStrategy and DeepItmSweeperStrategy
    latest,      \* _latest_book: the favorite and its price
    fired,       \* _fired_cycles
    rungs,       \* _open_positions
    realized,    \* _daily_realized_cents
    day,         \* _daily_utc_date
    \* _run_loop
    pending,     \* decisions not looked at yet
    order,       \* the request whose reply is awaited
    \* the exchange
    account,     \* contracts held
    result,      \* how a market was determined
    \* history, of this process
    sent,        \* orders sent by strategy and market
    bought,      \* contracts filled by strategy and market
    booked,      \* rungs that were settled, under the day of their stamp
    left,        \* days a tally was thrown away for
    boots        \* number of processes started

traderVars == <<evaluated, entered, enteredCycles>>
tallyVars == <<realized, day>>
sweepVars == <<latest, fired, rungs, tallyVars>>
registry == <<markets, subscribed>>
strategyVars == <<seen, registry, traderVars, sweepVars>>
loopVars == <<pending, order>>
exchangeVars == <<account, result>>
histVars == <<sent, bought, booked, left, boots>>
vars == <<clock, running, strategyVars, loopVars, exchangeVars, histVars>>
-----------------------------------------------------------------------------
NoBook == [side |-> "none"]
Undetermined == "open"
Never == -1
NoOrder == [s |-> "none"]

Offset(t, at) == at - OpenAt[t]
CloseAt(t) == OpenAt[t] + Length[t]
OpenMarkets == {t \in Tickers : OpenAt[t] <= clock /\ clock < CloseAt(t)}
DayOf(at) == at \div DayLen
CycleOf(t) == <<CryptoOf[t], OpenAt[t]>>
Cycles == {CycleOf(t) : t \in Tickers}
OfCycle(c) == {t \in Tickers : CycleOf(t) = c}
\* Mutant: sizes are not cut.
Uncut(a, b) == a

AtMost(a, b) == IF a <= b THEN a ELSE b

Requests == [s : Strategies, t : Tickers, side : Sides, n : Nat \ {0}]
Rungs == [s : Sweepers, t : Tickers, side : Sides, cost : 0..100]

TypeOK ==
    /\ clock \in 0..MaxTime /\ running \in BOOLEAN /\ seen \in 0..clock
    /\ markets \subseteq Tickers /\ subscribed \subseteq markets
    /\ evaluated \in [Tickers -> SUBSET TraderMarks]
    /\ entered \subseteq Tickers /\ enteredCycles \subseteq Cycles
    /\ latest \in [Tickers -> Books \cup {NoBook}]
    /\ fired \in [Sweepers -> SUBSET Cycles]
    /\ rungs \subseteq Rungs
    /\ \A a, b \in rungs : a.s = b.s /\ a.t = b.t => a = b
    /\ realized \in [Sweepers -> Int]
    /\ day \in [Sweepers -> 0..DayOf(MaxTime) \cup {Never}]
    /\ pending \in Seq(Requests)
    /\ order \in {NoOrder} \cup {r \in Requests : r.n <= MaxContracts}
    /\ account \in [Tickers -> Nat]
    /\ result \in [Tickers -> Sides \cup {Undetermined}]
    /\ sent \in [Strategies -> [Tickers -> Nat]]
    /\ bought \in [Strategies -> [Tickers -> Nat]]
    /\ booked \subseteq [s : Sweepers, t : Tickers, gain : Int, day : Nat]
    /\ left \in [Sweepers -> SUBSET (Nat \cup {Never})]
    /\ boots \in 0..MaxBoots

NoProcess ==
    /\ running' = FALSE /\ seen' = 0
    /\ markets' = {} /\ subscribed' = {}
    /\ evaluated' = [t \in Tickers |-> {}]
    /\ entered' = {} /\ enteredCycles' = {}
    /\ latest' = [t \in Tickers |-> NoBook]
    /\ fired' = [s \in Sweepers |-> {}] /\ rungs' = {}
    /\ realized' = [s \in Sweepers |-> 0] /\ day' = [s \in Sweepers |-> Never]
    /\ pending' = <<>> /\ order' = NoOrder
    /\ sent' = [s \in Strategies |-> [t \in Tickers |-> 0]]
    /\ bought' = [s \in Strategies |-> [t \in Tickers |-> 0]]
    /\ booked' = {} /\ left' = [s \in Sweepers |-> {}]

Init ==
    /\ clock = 0 /\ running = FALSE /\ seen = 0
    /\ markets = {} /\ subscribed = {}
    /\ evaluated = [t \in Tickers |-> {}]
    /\ entered = {} /\ enteredCycles = {}
    /\ latest = [t \in Tickers |-> NoBook]
    /\ fired = [s \in Sweepers |-> {}] /\ rungs = {}
    /\ realized = [s \in Sweepers |-> 0] /\ day = [s \in Sweepers |-> Never]
    /\ pending = <<>> /\ order = NoOrder
    /\ account = [t \in Tickers |-> 0]
    /\ result = [t \in Tickers |-> Undetermined]
    /\ sent = [s \in Strategies |-> [t \in Tickers |-> 0]]
    /\ bought = [s \in Strategies |-> [t \in Tickers |-> 0]]
    /\ booked = {} /\ left = [s \in Sweepers |-> {}] /\ boots = 0
-----------------------------------------------------------------------------
(* The process, and what it knows of the markets. *)

\* Mutant: no filter on the duration.
ListedAll(found) == {t \in OpenMarkets : CryptoOf[t] \in found}

\* Markets longer than an hour are listed in the same series and filtered out.
Discovered(found) ==
    {t \in OpenMarkets : CryptoOf[t] \in found /\ Length[t] <= MaxCycle}

\* _amain: discovery is retried until it finds a market.  The positions of the
\* account are read too, and marked on an attribute the trader does not have.
Boot(found) ==
    /\ ~running /\ boots < MaxBoots
    /\ Discovered(found) # {}
    /\ running' = TRUE /\ boots' = boots + 1 /\ seen' = clock
    /\ markets' = Discovered(found) /\ subscribed' = Discovered(found)
    /\ UNCHANGED <<clock, traderVars, sweepVars, loopVars, exchangeVars, sent,
                   bought, booked, left>>

\* A crash, a cancellation or the end of --duration-s.
\* The order it awaits may have been matched.
Die(k) ==
    /\ running
    /\ IF order = NoOrder THEN k = 0 /\ UNCHANGED account
       ELSE /\ k <= order.n /\ (k > 0 => order.t \in OpenMarkets)
            /\ account' = [account EXCEPT ![order.t] = @ + k]
    /\ NoProcess
    /\ UNCHANGED <<clock, result, boots>>

\* _discovery_loop: what is registered already is not looked at again, and
\* the subscription may fail to grow.
Discover(found, extended) ==
    LET new == Discovered(found) \ markets IN
    /\ running /\ new # {}
    /\ markets' = markets \cup new
    /\ subscribed' = IF extended THEN subscribed \cup new ELSE subscribed
    /\ UNCHANGED <<clock, running, seen, traderVars, sweepVars,
                   loopVars, exchangeVars, histVars>>

Idle == running /\ pending = <<>> /\ order = NoOrder

\* _route: a lifecycle event registers a market of any length.
LifecycleRegister(t) ==
    /\ Idle /\ t \in OpenMarkets \ markets
    /\ markets' = markets \cup {t}
    /\ UNCHANGED <<clock, running, seen, subscribed, traderVars, sweepVars,
                   loopVars, exchangeVars, histVars>>
-----------------------------------------------------------------------------
(* The trader: _on_book. *)

\* The verdict of the gates and of the model, with what the levers look at:
\* a score above BTC_SIZE_TILT_SCORE, a d_norm below BTC_DOWNSIZE_DNORM.
Skip == [n |-> 0, strong |-> FALSE, near |-> FALSE]
Verdicts == [n : 1..MaxSize, strong : BOOLEAN, near : BOOLEAN]

Evaluates(t, at) ==
    /\ t \in markets \ entered
    /\ Offset(t, at) \in TraderMarks \ evaluated[t]

\* Mutant: the lock is the strike's only.
StrikeFree(t) == t \notin entered

\* The main trader is a single-strike selector.
CycleFree(t) == CycleOf(t) \notin enteredCycles

Enters(t, at, v) ==
    Evaluates(t, at) /\ at \notin SkipTimes /\ v # Skip /\ CycleFree(t)

\* _apply_btc_size_levers
Levers(t, at, v) ==
    LET tilted == IF v.strong \/ Offset(t, at) >= TiltAt THEN TiltSize ELSE v.n
    IN  IF v.near THEN AtMost(tilted, DownSize) ELSE tilted

TraderSize(t, at, v) ==
    LET n == IF CryptoOf[t] \in Levered THEN Levers(t, at, v) ELSE v.n
    IN  AtMost(AtMost(n, CryptoCap[CryptoOf[t]]), MaxContracts)

TraderDecision(t, fav, at, v) ==
    IF Enters(t, at, v)
    THEN <<[s |-> "trader", t |-> t, side |-> fav, n |-> TraderSize(t, at, v)]>>
    ELSE <<>>

\* The window is used up whatever the verdict; an entry locks strike and cycle.
TraderMarksEntry(t, at, v) ==
    /\ evaluated' = IF Evaluates(t, at)
                    THEN [evaluated EXCEPT ![t] = @ \cup {Offset(t, at)}]
                    ELSE evaluated
    /\ entered' = IF Enters(t, at, v) THEN entered \cup {t} ELSE entered
    /\ enteredCycles' = IF Enters(t, at, v)
                        THEN enteredCycles \cup {CycleOf(t)} ELSE enteredCycles
-----------------------------------------------------------------------------
(* The sweepers: _maybe_fire and _handle_settlement. *)

\* _check_daily_reset
Tally(s, at) == IF day[s] = DayOf(at) THEN realized[s] ELSE 0

\* Mutant: a loss of exactly the cap does not bind.
CapPassed(s, at) == Tally(s, at) < -LossCap[s]

CapBound(s, at) == Tally(s, at) <= -LossCap[s]

Triggers(s, t, at) ==
    /\ t \in markets /\ Offset(t, at) \in SweepMarks[s]
    /\ CryptoOf[t] \in SweepCryptos[s]
    /\ CycleOf(t) \notin fired[s]

\* known: the spot and its volatility are.
Fires(s, t, at, known) == Triggers(s, t, at) /\ ~CapBound(s, at) /\ known

\* Strikes of the cycle with a cached book.
Candidates(t) == {u \in markets : CycleOf(u) = CycleOf(t) /\ latest'[u] # NoBook}

\* The filters keep some candidates, the sort puts them in an order, and the
\* best are taken.
Selections(s, t) ==
    UNION {{p \in [1..n -> Candidates(t)] :
                \A i, j \in 1..n : i # j => p[i] # p[j]} : n \in 0..MaxRungs[s]}

Picks(s, t, at, known) == IF Fires(s, t, at, known) THEN Selections(s, t) ELSE {<<>>}

\* A rung is noted before the envelope and the exchange had their say.
NewRungs(s, p) ==
    {[s |-> s, t |-> p[i], side |-> latest'[p[i]].side, cost |-> latest'[p[i]].cost] :
        i \in 1..Len(p)}

RungDecisions(s, p) ==
    [i \in 1..Len(p) |->
        [s |-> s, t |-> p[i], side |-> latest'[p[i]].side, n |-> RungSize[s]]]

DaysLeft ==
    [s \in Sweepers |-> IF day'[s] = day[s] THEN left[s] ELSE left[s] \cup {day[s]}]

\* The daily counter is brought to the day of the event when the cap is asked.
SweepersFire(t, at, known, picks) ==
    /\ fired' = [s \in Sweepers |->
                    IF Triggers(s, t, at) /\ (CapBound(s, at) \/ known)
                    THEN fired[s] \cup {CycleOf(t)} ELSE fired[s]]
    /\ realized' = [s \in Sweepers |->
                       IF Triggers(s, t, at) THEN Tally(s, at) ELSE realized[s]]
    /\ day' = [s \in Sweepers |->
                  IF Triggers(s, t, at) THEN DayOf(at) ELSE day[s]]
    /\ rungs' = LET new == UNION {NewRungs(s, picks[s]) : s \in Sweepers} IN
                {r \in rungs : \A x \in new : x.s = r.s => x.t # r.t} \cup new

\* A book event: the trader sees it first, then the ladder, then the deep-ITM
\* sweeper, and their decisions are queued in that order.
BookEvent(t, book, at, v, known) ==
    /\ Idle /\ t \in subscribed
    /\ at \in seen..clock /\ OpenAt[t] <= at /\ at < CloseAt(t)
    /\ v = Skip \/ Enters(t, at, v)
    /\ ~known => \E s \in Sweepers : Triggers(s, t, at)
    /\ seen' = at
    /\ latest' = [latest EXCEPT ![t] = book]
    /\ TraderMarksEntry(t, at, v)
    /\ \E ladder \in Picks("ladder", t, at, known),
          deep \in Picks("deep_itm", t, at, known) :
        /\ SweepersFire(t, at, known, [s \in Sweepers |->
                                    IF s = "ladder" THEN ladder ELSE deep])
        /\ pending' = TraderDecision(t, book.side, at, v)
                        \o RungDecisions("ladder", ladder)
                        \o RungDecisions("deep_itm", deep)
    /\ left' = DaysLeft
    /\ UNCHANGED <<clock, running, registry, order, exchangeVars, sent, bought,
                   booked, boots>>

\* What a rung earns, in cents.
PerContract(r) == IF r.side = result[r.t] THEN 100 - r.cost ELSE -r.cost
GainOf(r) == PerContract(r) * RungSize[r.s]

RungsOn(s, t) == {r \in rungs : r.s = s /\ r.t = t}
Earned(s, t) == SumFunctionOnSet([r \in rungs |-> GainOf(r)], RungsOn(s, t))

\* Mutant: the rung stays in the table.
KeepRungs(t) == rungs' = rungs

\* Mutant: the table is kept by cycle.
PopCycle(t) == rungs' = {r \in rungs : CycleOf(r.t) # CycleOf(t)}

PopRungs(t) == rungs' = {r \in rungs : r.t # t}

\* A settlement, which may be announced again and stops before the trader.
\* The tally moves to its day only for a rung the sweeper knows, and that is
\* the day of the exchange's stamp, which may be another than the day of the
\* events around it: the tally then goes back, or ahead, to it.
Settlement(t, at, stamp) ==
    /\ Idle /\ result[t] # Undetermined
    /\ at \in seen..clock /\ CloseAt(t) <= at /\ CloseAt(t) <= stamp
    /\ seen' = at
    /\ realized' = [s \in Sweepers |->
                       IF RungsOn(s, t) = {} THEN realized[s]
                       ELSE Tally(s, stamp) + Earned(s, t)]
    /\ day' = [s \in Sweepers |->
                  IF RungsOn(s, t) = {} THEN day[s] ELSE DayOf(stamp)]
    /\ PopRungs(t)
    /\ booked' = booked \cup
                    {[s |-> r.s, t |-> t, gain |-> GainOf(r), day |-> DayOf(stamp)] :
                        r \in {x \in rungs : x.t = t}}
    /\ left' = DaysLeft
    /\ UNCHANGED <<clock, running, registry, traderVars, latest, fired,
                   loopVars, exchangeVars, sent, bought, boots>>
-----------------------------------------------------------------------------
(* _run_loop sends what is pending, and the exchange. *)

Serving == pending # <<>> /\ order = NoOrder

\* RiskEnvelope.check: daily loss, stale spot.
Veto ==
    /\ Serving
    /\ pending' = Tail(pending)
    /\ UNCHANGED <<clock, running, strategyVars, order, exchangeVars, histVars>>

\* The envelope lets the decision through, cut to max_contracts_per_trade.
Submit ==
    LET d == Head(pending) IN
    /\ Serving
    /\ pending' = Tail(pending)
    /\ order' = [d EXCEPT !.n = AtMost(d.n, MaxContracts)]
    /\ sent' = [sent EXCEPT ![d.s][d.t] = @ + 1]
    /\ UNCHANGED <<clock, running, strategyVars, exchangeVars, bought, booked, left, boots>>

\* The exchange matches k contracts of the IOC order; a closed market none.
Matched(k) ==
    /\ order # NoOrder /\ k <= order.n
    /\ (k > 0 => order.t \in OpenMarkets)
    /\ account' = [account EXCEPT ![order.t] = @ + k]
    /\ bought' = [bought EXCEPT ![order.s][order.t] = @ + k]

\* The request ends with its reply, or with order_error, whatever was matched:
\* no strategy looks at the difference.
OrderEnds(k) ==
    /\ Matched(k)
    /\ order' = NoOrder
    /\ UNCHANGED <<clock, running, strategyVars, pending, result, sent, booked, left,
                   boots>>

Tick ==
    /\ clock < MaxTime
    /\ clock' = clock + 1
    /\ UNCHANGED <<running, strategyVars, loopVars, exchangeVars, histVars>>

Determine(t, side) ==
    /\ result[t] = Undetermined /\ CloseAt(t) <= clock
    /\ result' = [result EXCEPT ![t] = side]
    /\ UNCHANGED <<clock, running, strategyVars, loopVars, account, histVars>>
-----------------------------------------------------------------------------
Process ==
    \/ \E found \in SUBSET Cryptos : Boot(found)
    \/ \E k \in 0..MaxContracts : Die(k)
    \/ \E found \in SUBSET Cryptos, extended \in BOOLEAN : Discover(found, extended)

Events ==
    \/ \E t \in Tickers : LifecycleRegister(t)
    \/ \E t \in Tickers, book \in Books, at \in 0..MaxTime, v \in Verdicts \cup {Skip},
         known \in BOOLEAN :
        BookEvent(t, book, at, v, known)
    \/ \E t \in Tickers, at \in 0..MaxTime, stamp \in 0..MaxTime : Settlement(t, at, stamp)

Orders == Veto \/ Submit \/ \E k \in 0..MaxContracts : OrderEnds(k)

Exchange ==
    \/ Tick
    \/ \E t \in Tickers, side \in Sides : Determine(t, side)

Next == Process \/ Events \/ Orders \/ Exchange

Spec == Init /\ [][Next]_vars
-----------------------------------------------------------------------------
(* Properties. *)

SentIn(s, c) == SumFunctionOnSet(sent[s], OfCycle(c))

\* However books, settlements and slow orders interleave, a process sends one
\* trader order per crypto and cycle ("single-strike selector"), and a sweeper
\* fires once in it, for at most max_rungs rungs.
OrdersBounded ==
    \A c \in Cycles :
        /\ SentIn("trader", c) <= 1
        /\ \A s \in Sweepers : SentIn(s, c) <= MaxRungs[s]

\* Every contract a sweeper got is on the books the cap is computed from: as
\* an open rung or as a rung that was settled, whatever became of the reply.
RungsTracked ==
    \A s \in Sweepers, t \in Tickers :
        bought[s][t] > 0 =>
            \/ RungsOn(s, t) # {}
            \/ \E b \in booked : b.s = s /\ b.t = t

BookedOn(s, d) == {b \in booked : b.s = s /\ b.day = d}
GainOn(s, d) == SumFunctionOnSet([b \in booked |-> b.gain], BookedOn(s, d))

\* The tally of a sweeper is what the rungs settled on its day earned, each
\* counted once though settlements may be announced again, as long as the
\* sweeper did not leave that day and come back: _check_daily_reset then
\* started it anew.
TallyExact ==
    \A s \in Sweepers :
        day[s] \notin left[s] => realized[s] = GainOn(s, day[s])

\* Orders go only to markets of an hour: a longer one may be registered by a
\* lifecycle event, but its books never come.
HourOnly == \A s \in Strategies, t \in Tickers :
                sent[s][t] > 0 => Length[t] <= MaxCycle

\* Once the rungs settled today lost what the cap of their sweeper allows, it
\* takes no further rung that day, unless the exchange's stamps made its tally
\* leave the day in between.
CapStopsSweeper ==
    [][\A s \in Sweepers :
        GainOn(s, DayOf(seen')) <= -LossCap[s] /\ DayOf(seen') \notin left[s]
            => {r \in rungs' : r.s = s} \subseteq rungs]_vars
=============================================================================
