--------------------------- MODULE FavoriteChase ---------------------------
(***************************************************************************)
(* The 15-minute live engine: FavoriteChaseStrategy behind RiskEnvelope    *)
(* and LiveExecution, driven by the queue of bin/live.py, against the      *)
(* exchange.  The engine is one asyncio loop: an action is what runs       *)
(* between two awaits.  While the loop awaits the reply to an order the    *)
(* feeds, the fill listener, discovery and the exchange go on.             *)
(*                                                                         *)
(* The Phase-4 model is abstracted to its verdict (SKIP, or ENTER with a   *)
(* size) and the daily-loss counter to a veto that may strike any entry.   *)
(***************************************************************************)
EXTENDS Integers, Sequences, FiniteSets

CONSTANTS Tickers,        \* 15-minute markets
          Cryptos,        \* underlyings, one spot stream each
          CryptoOf,       \* Tickers -> Cryptos, crypto_of_ticker
          OpenAt,         \* Tickers -> open time of the market
          CycleLen,       \* rules.CYCLE_MS
          TriggerOpen,    \* rules.TRIGGER_OPEN_MS
          Cutoff,         \* reentry_cutoff_ms
          Throttle,       \* reentry_throttle_ms
          MaxSpotAge,     \* RiskEnvelope.max_spot_age_ms
          MaxContracts,   \* RiskEnvelope.max_contracts_per_trade
          MaxConcurrent,  \* RiskEnvelope.max_concurrent_positions
          MaxSize,        \* largest size the model asks for
          Modes,          \* reentry modes an operator may start with
          MaxLag, MaxLead,   \* how far the stamp of a spot, which is the
                             \* venue's, may be behind and ahead of our clock
          MaxTime, MaxQueue, MaxBoots   \* bounds of the model

ASSUME MarketAssumption ==
    /\ CryptoOf \in [Tickers -> Cryptos]
    /\ OpenAt \in [Tickers -> Nat]
    /\ CycleLen \in Nat /\ TriggerOpen \in Nat

ASSUME LimitAssumption ==
    /\ MaxContracts \in Nat \ {0}
    /\ MaxConcurrent \in Nat \ {0}
    /\ MaxSize \in Nat \ {0}
    /\ MaxSpotAge \in Nat /\ Cutoff \in Nat /\ Throttle \in Nat
    /\ MaxLag \in Nat /\ MaxLead \in Nat
    /\ MaxTime \in Nat /\ MaxQueue \in Nat /\ MaxBoots \in Nat

ASSUME ModeAssumption == Modes \subseteq {"disabled", "polling"}

VARIABLES
    clock,      \* wall clock, shared by the engine and the exchange
    \* the engine process; all of it is lost when the process ends
    running, mode,
    markets,    \* strategy.markets
    decided,    \* strategy.decided
    entered,    \* strategy.entered
    lastEval,   \* strategy._last_eval_ms
    riskNow,    \* risk_state.now_ms
    lastSpot,   \* risk_state.last_spot_ms
    riskOpen,   \* risk_state.open_positions
    local,      \* execution.open_positions, signed: positive is YES
    queue,      \* the asyncio.Queue of bin/live.py
    order,      \* the request the loop is awaiting the reply of
    reply,      \* filled count of that reply, once the exchange sent it
    fillUp,     \* the fill channel is connected
    fills,      \* fill messages on that channel
    \* the exchange
    account,    \* signed position, /portfolio/positions
    wire,       \* orders sent and not yet matched
    \* history
    bought,     \* contracts ever filled
    exposed,    \* markets the last boot could not vouch for
    blind,      \* markets bought or on the wire that the last boot did not import
    missed,     \* markets with a fill message this process did not get
    unanswered, \* markets with an order whose reply this process did not get
    boots       \* number of processes started

riskVars == <<riskNow, lastSpot, riskOpen>>
lockVars == <<markets, decided, entered, lastEval>>
fillVars == <<fillUp, fills>>
histVars == <<bought, exposed, blind, missed, unanswered, boots>>
vars == <<clock, running, mode, lockVars, riskVars, local, queue, order,
          reply, fillVars, account, wire, histVars>>

-----------------------------------------------------------------------------
Sides == {"yes", "no"}
NoFavorite == "none"
Never == -1                  \* a timestamp that was not recorded
NoOrder == [t |-> "none"]
NoReply == -1

Time == 0..MaxTime
Stamps == 0..(MaxTime + MaxLead)
Requests == [t : Tickers, side : Sides, n : 1..MaxContracts, gen : 0..MaxBoots]
SpotEvents == [kind : {"spot"}, c : Cryptos, at : Stamps]
BookEvents == [kind : {"book"}, t : Tickers, fav : Sides \cup {NoFavorite},
               at : Time]

CloseAt(t) == OpenAt[t] + CycleLen
OpenMarkets == {t \in Tickers : OpenAt[t] <= clock /\ clock < CloseAt(t)}
Holdings == {t \in Tickers : account[t] # 0}
Signed(side, n) == IF side = "yes" THEN n ELSE -n
Max2(a, b) == IF a >= b THEN a ELSE b
Min2(a, b) == IF a <= b THEN a ELSE b

TypeOK ==
    /\ clock \in Time
    /\ running \in BOOLEAN /\ mode \in {"disabled", "polling"}
    /\ markets \subseteq Tickers /\ decided \subseteq Tickers
    /\ entered \subseteq Tickers /\ riskOpen \subseteq Tickers
    /\ lastEval \in [Tickers -> Time \cup {Never}]
    /\ riskNow \in Stamps
    /\ lastSpot \in [Cryptos -> Stamps \cup {Never}]
    /\ local \in [Tickers -> Int] /\ account \in [Tickers -> Int]
    /\ queue \in Seq(SpotEvents \cup BookEvents)
    /\ order \in Requests \cup {NoOrder}
    /\ reply \in {NoReply} \cup (0..MaxContracts)
    /\ fillUp \in BOOLEAN
    /\ fills \in Seq([t : Tickers, n : Int])
    /\ wire \subseteq Requests
    /\ bought \in [Tickers -> Nat]
    /\ exposed \subseteq Tickers /\ blind \subseteq Tickers
    /\ missed \subseteq Tickers /\ unanswered \subseteq Tickers
    /\ boots \in 0..MaxBoots

\* What a process that has not started yet, or has just ended, knows.
NoProcess ==
    /\ running' = FALSE
    /\ markets' = {} /\ decided' = {} /\ entered' = {} /\ riskOpen' = {}
    /\ lastEval' = [t \in Tickers |-> Never]
    /\ riskNow' = 0
    /\ lastSpot' = [c \in Cryptos |-> Never]
    /\ local' = [t \in Tickers |-> 0]
    /\ queue' = <<>> /\ order' = NoOrder /\ reply' = NoReply
    /\ fillUp' = FALSE /\ fills' = <<>>

Init ==
    /\ clock = 0
    /\ running = FALSE /\ mode = "disabled"
    /\ markets = {} /\ decided = {} /\ entered = {} /\ riskOpen = {}
    /\ lastEval = [t \in Tickers |-> Never]
    /\ riskNow = 0
    /\ lastSpot = [c \in Cryptos |-> Never]
    /\ local = [t \in Tickers |-> 0]
    /\ queue = <<>> /\ order = NoOrder /\ reply = NoReply
    /\ fillUp = FALSE /\ fills = <<>>
    /\ account = [t \in Tickers |-> 0]
    /\ wire = {}
    /\ bought = [t \in Tickers |-> 0]
    /\ exposed = {} /\ blind = {} /\ missed = {} /\ unanswered = {}
    /\ boots = 0
-----------------------------------------------------------------------------
(* Process life: _amain, and its death at any await. *)

\* Positions imported by reconcile_from_account_at_boot; none when the
\* request for them fails, which only logs boot_reconcile_error.
Imported(positionsRead) == IF positionsRead THEN Holdings ELSE {}

\* Markets a process cannot enter from its first event on.
Shielded(m, imported) == IF m = "disabled" THEN imported ELSE {}

\* Discovery of some series may fail; with no market at all boot aborts.
\* The account is read next, then warmup candles date the spot of each
\* crypto, and only then do the feeds and the event loop start.
Boot(m, found, positionsRead, warm) ==
    LET imported == Imported(positionsRead)
        live == {t \in OpenMarkets : CryptoOf[t] \in found}
    IN
    /\ ~running /\ boots < MaxBoots
    /\ live # {}
    /\ running' = TRUE /\ mode' = m
    /\ markets' = live
    /\ decided' = imported
    /\ local' = [t \in Tickers |-> IF t \in imported THEN account[t] ELSE 0]
    /\ entered' = {} /\ riskOpen' = {}
    /\ lastEval' = [t \in Tickers |-> Never]
    /\ riskNow' = clock
    /\ lastSpot' = warm
    /\ boots' = boots + 1
    /\ blind' = ({t \in Tickers : bought[t] > 0} \cup {r.t : r \in wire})
                \ imported
    /\ exposed' = ({t \in Tickers : bought[t] > 0} \ Shielded(m, imported))
                  \cup {r.t : r \in wire}
    /\ missed' = {} /\ unanswered' = {}
    /\ UNCHANGED <<clock, queue, order, reply, fillVars, account, wire, bought>>

\* The process ends: interrupt, deadline or crash.  A request already sent
\* stays on the wire; fill messages not yet applied are gone.
Die ==
    /\ running
    /\ NoProcess
    /\ missed' = missed \cup {fills[i].t : i \in 1..Len(fills)}
    /\ UNCHANGED <<clock, mode, account, wire, bought, exposed, blind,
                   unanswered, boots>>
-----------------------------------------------------------------------------
(* Feeds and discovery, each a task of the same loop. *)

Tick ==
    /\ clock < MaxTime
    /\ clock' = clock + 1
    /\ UNCHANGED <<running, mode, lockVars, riskVars, local, queue, order,
                   reply, fillVars, account, wire, histVars>>

\* pump: the queue has no limit in the code, MaxQueue is the model's.
Enqueue(ev) ==
    /\ running /\ Len(queue) < MaxQueue
    /\ queue' = Append(queue, ev)
    /\ UNCHANGED <<clock, running, mode, lockVars, riskVars, local, order,
                   reply, fillVars, account, wire, histVars>>

\* A spot keeps the stamp of its venue; a book has that of its receipt.
SpotTick(c, stamp) ==
    /\ clock - MaxLag <= stamp /\ stamp <= clock + MaxLead
    /\ Enqueue([kind |-> "spot", c |-> c, at |-> stamp])

BookUpdate(t, fav) ==
    /\ t \in OpenMarkets
    /\ Enqueue([kind |-> "book", t |-> t, fav |-> fav, at |-> clock])

\* One listed market of a discovery pass, or a lifecycle event with metadata.
RegisterMarket(t) ==
    /\ running /\ t \in OpenMarkets \ markets
    /\ markets' = markets \cup {t}
    /\ UNCHANGED <<clock, running, mode, decided, entered, lastEval, riskVars,
                   local, queue, order, reply, fillVars, account, wire, histVars>>
-----------------------------------------------------------------------------
(* The consumer: _route, FavoriteChaseStrategy._on_book, RiskEnvelope.check *)
(* and the part of LiveExecution._place that precedes its await.            *)

\* One event leaves the queue; risk_state.now_ms follows the stamps of the
\* events, not the clock.
Pop(kind) ==
    /\ running /\ order = NoOrder
    /\ queue # <<>> /\ Head(queue).kind = kind
    /\ queue' = Tail(queue)
    /\ riskNow' = Max2(riskNow, Head(queue).at)

HandleSpot ==
    /\ Pop("spot")
    /\ lastSpot' = [lastSpot EXCEPT ![Head(queue).c] = Head(queue).at]
    /\ UNCHANGED <<clock, running, mode, lockVars, riskOpen, local, order,
                   reply, fillVars, account, wire, histVars>>

InWindow(t, at) ==
    /\ at - OpenAt[t] >= TriggerOpen
    /\ at - OpenAt[t] < CycleLen

\* Mutant: the single-shot lock is taken for a duplicate of entered.
LockedByEntry(t) == t \in entered

\* entered blocks in both modes; decided only in single-shot mode.
Locked(t) == t \in entered \/ (mode = "disabled" /\ t \in decided)

Throttled(t, at) ==
    /\ mode = "polling"
    /\ \/ CloseAt(t) - at < Cutoff
       \/ lastEval[t] # Never /\ at - lastEval[t] < Throttle

Evaluates(ev) ==
    /\ ev.t \in markets
    /\ InWindow(ev.t, ev.at)
    /\ ev.fav # NoFavorite
    /\ ~Locked(ev.t)
    /\ ~Throttled(ev.t, ev.at)

\* RiskEnvelope.check, the daily cap aside, at event time now.
ConcurrencyOk(t) == t \in riskOpen \/ Cardinality(riskOpen) < MaxConcurrent

SpotFresh(t, now) ==
    /\ lastSpot[CryptoOf[t]] # Never
    /\ now - lastSpot[CryptoOf[t]] <= MaxSpotAge

MarkEvaluated(ev) ==
    /\ decided' = decided \cup {ev.t}
    /\ lastEval' = [lastEval EXCEPT ![ev.t] = ev.at]

\* Mutant: the lock is left to the fill.
NoEntryMark(t) == UNCHANGED entered

MarkEntered(t) == entered' = entered \cup {t}

\* A book that is not evaluated.
IgnoreBook ==
    /\ Pop("book")
    /\ ~Evaluates(Head(queue))
    /\ UNCHANGED <<clock, running, mode, lockVars, lastSpot, riskOpen, local,
                   order, reply, fillVars, account, wire, histVars>>

\* The model says SKIP.
EvaluateSkip ==
    /\ Pop("book")
    /\ Evaluates(Head(queue))
    /\ MarkEvaluated(Head(queue))
    /\ UNCHANGED <<clock, running, mode, markets, entered, lastSpot, riskOpen,
                   local, order, reply, fillVars, account, wire, histVars>>

\* The model says ENTER, which locks the market before anything else.
Enter ==
    /\ Pop("book")
    /\ Evaluates(Head(queue))
    /\ MarkEvaluated(Head(queue))
    /\ MarkEntered(Head(queue).t)

\* The envelope turns the entry into a SKIP: the daily cap, the concurrency
\* cap or the age of the spot.
EnterVetoed ==
    /\ Enter
    /\ UNCHANGED <<clock, running, mode, markets, lastSpot, riskOpen, local,
                   order, reply, fillVars, account, wire, histVars>>

\* Mutant: the envelope does not downsize.
Unsized(size) == size

\* RiskEnvelope.check on the size: it may only shrink.
Sized(size) == Min2(size, MaxContracts)

\* The envelope lets the entry through and the order leaves.
EnterSubmitted(size) ==
    LET ev == Head(queue)
        req == [t |-> ev.t, side |-> ev.fav, n |-> Sized(size), gen |-> boots]
    IN
    /\ Enter
    /\ ConcurrencyOk(ev.t)
    /\ SpotFresh(ev.t, riskNow')
    /\ order' = req
    /\ wire' = wire \cup {req}
    /\ UNCHANGED <<clock, running, mode, markets, lastSpot, riskOpen, local,
                   reply, fillVars, account, histVars>>
-----------------------------------------------------------------------------
(* The exchange, and the two ways the engine hears of a fill. *)

\* The messages of one execution: each fill is reported on its own.
Splits(n) == {<<n>>} \cup {<<i, n - i>> : i \in 1..(n - 1)}

FillMsgs(r, split) == [i \in 1..Len(split) |->
                          [t |-> r.t, n |-> Signed(r.side, split[i])]]

\* An IOC order is matched for k of its contracts; a closed market gives none.
Match(r, k, split) ==
    /\ r \in wire
    /\ k <= r.n /\ (k > 0 => r.t \in OpenMarkets)
    /\ wire' = wire \ {r}
    /\ account' = [account EXCEPT ![r.t] = @ + Signed(r.side, k)]
    /\ bought' = [bought EXCEPT ![r.t] = @ + k]
    /\ reply' = IF order = r THEN k ELSE reply
    /\ fills' = IF fillUp /\ k > 0 THEN fills \o FillMsgs(r, split) ELSE fills
    /\ missed' = IF ~fillUp /\ k > 0 THEN missed \cup {r.t} ELSE missed
    /\ UNCHANGED <<clock, running, mode, lockVars, riskVars, local, queue,
                   order, fillUp, exposed, blind, unanswered, boots>>

\* After close a market settles and its position leaves the account.
Settle(t) ==
    /\ clock >= CloseAt(t) /\ account[t] # 0
    /\ account' = [account EXCEPT ![t] = 0]
    /\ UNCHANGED <<clock, running, mode, lockVars, riskVars, local, queue,
                   order, reply, fillVars, wire, histVars>>

\* Mutant: recording the fill is left to the fill channel.
ReplyUnrecorded ==
    /\ order # NoOrder /\ reply # NoReply
    /\ order' = NoOrder /\ reply' = NoReply
    /\ UNCHANGED <<clock, running, mode, lockVars, riskVars, local, queue,
                   fillVars, account, wire, histVars>>

\* The reply reaches _place, which records a fill under the ticker.
OrderReply ==
    /\ order # NoOrder /\ reply # NoReply
    /\ local' = IF reply > 0
                THEN [local EXCEPT ![order.t] = Signed(order.side, reply)]
                ELSE local
    /\ order' = NoOrder /\ reply' = NoReply
    /\ UNCHANGED <<clock, running, mode, lockVars, riskVars, queue, fillVars,
                   account, wire, histVars>>

\* The request fails instead: HTTP error, ten-second timeout, malformed reply.
\* It is logged; the order may have been matched or still be on the wire.
OrderError ==
    /\ order # NoOrder
    /\ order' = NoOrder /\ reply' = NoReply
    /\ unanswered' = unanswered \cup {order.t}
    /\ UNCHANGED <<clock, running, mode, lockVars, riskVars, local, queue,
                   fillVars, account, wire, bought, exposed, blind, missed, boots>>

\* Mutant: fills add up on the reply's count.
FillAdded ==
    /\ fills # <<>>
    /\ local' = [local EXCEPT ![Head(fills).t] = @ + Head(fills).n]
    /\ fills' = Tail(fills)
    /\ UNCHANGED <<clock, running, mode, lockVars, riskVars, queue, order,
                   reply, fillUp, account, wire, histVars>>

\* Mutant: a fill of the awaited order is left to the reply.
FillLeftToReply ==
    /\ fills # <<>>
    /\ local' = IF order # NoOrder /\ order.t = Head(fills).t THEN local
                ELSE [local EXCEPT ![Head(fills).t] = Head(fills).n]
    /\ fills' = Tail(fills)
    /\ UNCHANGED <<clock, running, mode, lockVars, riskVars, queue, order,
                   reply, fillUp, account, wire, histVars>>

\* run_order_update_listener: the entry is overwritten with this fill's count.
ApplyFill ==
    /\ fills # <<>>
    /\ local' = [local EXCEPT ![Head(fills).t] = Head(fills).n]
    /\ fills' = Tail(fills)
    /\ UNCHANGED <<clock, running, mode, lockVars, riskVars, queue, order,
                   reply, fillUp, account, wire, histVars>>

\* A message it cannot use is dropped: no ticker, no count, or one that raises.
SkipFill ==
    /\ fills # <<>>
    /\ fills' = Tail(fills)
    /\ missed' = missed \cup {Head(fills).t}
    /\ UNCHANGED <<clock, running, mode, lockVars, riskVars, local, queue, order,
                   reply, fillUp, account, wire, bought, exposed, blind,
                   unanswered, boots>>

FillConnect ==
    /\ running /\ ~fillUp
    /\ fillUp' = TRUE
    /\ UNCHANGED <<clock, running, mode, lockVars, riskVars, local, queue,
                   order, reply, fills, account, wire, histVars>>

\* A dropped connection loses what was on it: nothing is replayed.
FillDrop ==
    /\ fillUp
    /\ fillUp' = FALSE /\ fills' = <<>>
    /\ missed' = missed \cup {fills[i].t : i \in 1..Len(fills)}
    /\ UNCHANGED <<clock, running, mode, lockVars, riskVars, local, queue,
                   order, reply, account, wire, bought, exposed, blind,
                   unanswered, boots>>
-----------------------------------------------------------------------------
Process ==
    \/ \E m \in Modes, found \in SUBSET Cryptos, positionsRead \in BOOLEAN :
        \E warm \in [Cryptos -> {Never} \cup 0..clock] :
            Boot(m, found, positionsRead, warm)
    \/ Die

Feeds ==
    \/ Tick
    \/ \E c \in Cryptos, stamp \in Stamps : SpotTick(c, stamp)
    \/ \E t \in Tickers, fav \in Sides \cup {NoFavorite} : BookUpdate(t, fav)
    \/ \E t \in Tickers : RegisterMarket(t)

Consumer ==
    \/ HandleSpot
    \/ IgnoreBook
    \/ EvaluateSkip
    \/ EnterVetoed
    \/ \E size \in 1..MaxSize : EnterSubmitted(size)
    \/ OrderReply
    \/ OrderError

Exchange ==
    \/ \E r \in wire, k \in 0..MaxContracts :
        \E split \in Splits(k) : Match(r, k, split)
    \/ \E t \in Tickers : Settle(t)

Listener == ApplyFill \/ SkipFill \/ FillConnect \/ FillDrop

Next == Process \/ Feeds \/ Consumer \/ Exchange \/ Listener

\* The loop keeps running its ready tasks, and aiohttp ends a request within
\* ten seconds.  Nothing is assumed of the exchange, the feeds or the operator.
Fairness ==
    /\ WF_vars(HandleSpot \/ IgnoreBook \/ EvaluateSkip \/ EnterVetoed)
    /\ WF_vars(OrderReply \/ OrderError)
    /\ WF_vars(ApplyFill \/ SkipFill)

Spec == Init /\ [][Next]_vars
FairSpec == Spec /\ Fairness
-----------------------------------------------------------------------------
(* Properties. *)

\* The engine keeps the promise of EntryLedger: whatever the restarts, the
\* late orders and the lost replies, it buys a market a second time only if
\* its last boot could not vouch for that market, and each purchase obeys
\* max_contracts_per_trade.
Ledger == INSTANCE EntryLedger
              WITH Tickers <- Tickers, MaxContracts <- MaxContracts,
                   bought <- bought, exposed <- exposed
BuysOnce == Ledger!Spec

\* Why: (1) an order still on the wire for a market already bought, or two
\* orders for one market, exist only for an exposed market; (2) the running
\* process has a lock on each market it could vouch for and that was bought
\* or has an order out.
WireSafe ==
    \A r \in wire :
        /\ bought[r.t] > 0 => r.t \in exposed
        /\ \A s \in wire : s.t = r.t /\ s # r => r.t \in exposed
LocksHeld ==
    running => \A t \in Tickers \ exposed :
        /\ bought[t] > 0 => Locked(t)
        /\ (\E r \in wire : r.t = t) => t \in entered
ShieldInv == WireSafe /\ LocksHeld

\* A position of the running engine is missing from execution.open_positions
\* only while the reply or a fill message is on its way, or when both were
\* lost, or when the boot did not import it.
HoldingKnown ==
    running => \A t \in Holdings :
        \/ local[t] # 0
        \/ order # NoOrder /\ order.t = t
        \/ \E i \in 1..Len(fills) : fills[i].t = t
        \/ t \in missed \cap unanswered
        \/ t \in blind

\* The local view never shows more contracts than were bought: a fill reported
\* by the reply and again by the channel is counted once.
LocalNeverOverstates ==
    \A t \in Tickers : local[t] <= bought[t] /\ -local[t] <= bought[t]

\* Markets exposed to a second purchase are exposed to no more than one order of
\* each process: n processes of the engine, in either mode, buy a market at most
\* n times max_contracts_per_trade, whatever is lost, late or unread at boot.
BoughtPerProcess == \A t \in Tickers : bought[t] <= MaxContracts * boots

\* A fill a live process was told about reaches its local view, whatever the
\* order in which reply, messages, errors and disconnections come, unless the
\* listener could not use the message or lost it with its connection.
FillApplied ==
    \A t \in Tickers :
        (\E i \in 1..Len(fills) : fills[i].t = t)
            ~> (local[t] # 0 \/ t \in missed)
=============================================================================
