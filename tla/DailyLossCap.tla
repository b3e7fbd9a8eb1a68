---------------------------- MODULE DailyLossCap ----------------------------
(***************************************************************************)
(* The daily loss cap of the live engines.  Nothing accounts for a loss    *)
(* when it happens: fills and settlements are appended to the JSONL log,   *)
(* each record stamped when it is written, and a task of the engine        *)
(* derives the day's realized PnL from the log every thirty seconds.       *)
(* RiskEnvelope.check vetoes entries once that counter is at the cap; an   *)
(* order it let through is matched later, whatever the counter does.       *)
(*                                                                         *)
(* One engine, one position per market, PnL in whole cents with the fee    *)
(* inside the cost of a contract.                                          *)
(***************************************************************************)
EXTENDS Integers, Sequences, FiniteSets, FiniteSetsExt

CONSTANTS Markets,
          Settling,    \* those that close within the days of the model
          Picks,       \* the entries a strategy may decide: market and side
          CostLists,   \* what an order may cost: a cost per contract filled
          Payout,      \* what a winning contract pays
          Cap,         \* daily_loss_cap_cents
          Days,        \* days of the model: 0..Days - 1
          MaxBoots     \* processes of the model

ASSUME CapAssumption ==
    /\ Settling \subseteq Markets /\ Picks \subseteq Markets \X {"yes", "no"}
    /\ CostLists \subseteq Seq(Nat) /\ Payout \in Nat /\ Cap \in Nat
    /\ Days \in Nat \ {0} /\ MaxBoots \in Nat

VARIABLES
    today,
    running,
    counter,    \* risk_state.daily_realized_cents
    feedUp,     \* the market WebSocket is subscribed
    inbox,      \* settlement events queued for _route
    fillUp,     \* the fill channel is subscribed
    pending,    \* fill messages on that channel
    log,        \* the JSONL log, by market; it survives the process
    wire,       \* orders sent and not yet matched or refused
    position,   \* what the exchange sold: side, costs, day
    result,     \* what the exchange determined: outcome, day
    announced,  \* determined messages sent, the exchange may repeat one
    lostFills,  \* history: markets with a fill message nobody logged
    unread,     \* history: the running process has not read the log yet
    boundAt,    \* history: the day, log and wire when the counter was last bound
    boots

feedVars == <<feedUp, inbox>>
fillVars == <<fillUp, pending>>
exchangeVars == <<wire, position, result, announced>>
histVars == <<lostFills, unread, boundAt, boots>>
vars == <<today, running, counter, feedVars, fillVars, log, exchangeVars,
          histVars>>

Outcomes == {"yes", "no"}
NoPosition == [costs |-> <<>>]
Open == [outcome |-> "open"]
NotBound == [day |-> -1]
Held == {t \in Markets : position[t] # NoPosition}
-----------------------------------------------------------------------------
(* reconcile_today_realized_cents *)

Pays(side, value) == IF side = value THEN Payout ELSE 0

Entries(lg, d) == {i \in 1..Len(lg) : lg[i].kind = "fill" /\ lg[i].day = d}
Settlements(lg, d) == {i \in 1..Len(lg) : lg[i].kind = "settlement" /\ lg[i].day = d}

\* Mutant: the first settlement record stays.
FirstValueOf(lg, d) == lg[Min(Settlements(lg, d))].value

\* The last settlement record of the day gives the value.
ValueOf(lg, d) == lg[Max(Settlements(lg, d))].value

\* PnL of one market from the records lg, both sides of the trade stamped d.
Realized(lg, d) ==
    IF Settlements(lg, d) = {} THEN 0
    ELSE LET pnl(i) == Pays(lg[i].side, ValueOf(lg, d)) - lg[i].cost
         IN  MapThenSumSet(pnl, Entries(lg, d))

Reconcile(lg, d) == LET booked(t) == Realized(lg[t], d) IN MapThenSumSet(booked, Markets)
-----------------------------------------------------------------------------
Init ==
    /\ today = 0 /\ running = FALSE /\ counter = 0
    /\ feedUp = FALSE /\ inbox = <<>>
    /\ fillUp = FALSE /\ pending = <<>>
    /\ log = [t \in Markets |-> <<>>]
    /\ wire = {} /\ position = [t \in Markets |-> NoPosition]
    /\ result = [t \in Markets |-> Open]
    /\ announced = [t \in Markets |-> 0]
    /\ lostFills = {} /\ unread = TRUE /\ boundAt = NotBound /\ boots = 0

\* The counter takes the value cents, read from the log as it stands.
Take(cents) ==
    /\ counter' = cents
    /\ unread' = FALSE
    /\ boundAt' = IF cents <= -Cap THEN [day |-> today, log |-> log, wire |-> wire]
                ELSE boundAt

-----------------------------------------------------------------------------
(* The engine. *)

\* Mutant: a new process starts from 0 and leaves the log to the task.
BootFromZero(readable) ==
    /\ ~running /\ boots < MaxBoots
    /\ running' = TRUE
    /\ counter' = 0 /\ unread' = ~readable
    /\ boots' = boots + 1
    /\ UNCHANGED <<today, feedVars, fillVars, log, exchangeVars, lostFills, boundAt>>

\* Boot reads the log before any event; a failure leaves the counter at 0.
Boot(readable) ==
    /\ ~running /\ boots < MaxBoots
    /\ running' = TRUE
    /\ IF readable THEN Take(Reconcile(log, today))
                   ELSE counter' = 0 /\ unread' = TRUE /\ UNCHANGED boundAt
    /\ boots' = boots + 1
    /\ UNCHANGED <<today, feedVars, fillVars, log, exchangeVars, lostFills>>

\* Messages received but not yet logged end with the process.
Crash ==
    /\ running
    /\ running' = FALSE /\ counter' = 0 /\ unread' = TRUE
    /\ feedUp' = FALSE /\ inbox' = <<>>
    /\ fillUp' = FALSE /\ pending' = <<>>
    /\ lostFills' = lostFills \cup {pending[i].t : i \in 1..Len(pending)}
    /\ UNCHANGED <<today, log, exchangeVars, boundAt, boots>>

\* Mutant: the counter is never updated after a settlement.
RefreshOnce ==
    /\ running /\ unread
    /\ Take(Reconcile(log, today))
    /\ UNCHANGED <<today, running, feedVars, fillVars, log, exchangeVars,
                   lostFills, boots>>

\* _pnl_reconcile_loop; a failure to read is logged and changes nothing.
Refresh ==
    /\ running
    /\ Take(Reconcile(log, today))
    /\ UNCHANGED <<today, running, feedVars, fillVars, log, exchangeVars,
                   lostFills, boots>>

\* The first veto of RiskEnvelope.check.
UnderCap == ~(counter <= -Cap)

\* The envelope lets an entry through and its order is sent.  The reply, an
\* error or the timeout ends the await and tells the cap nothing.
Enter(t, side) ==
    /\ running /\ <<t, side>> \in Picks /\ UnderCap
    /\ t \notin Held /\ result[t] = Open
    /\ \A o \in wire : o.t # t
    /\ wire' = wire \cup {[t |-> t, side |-> side, unread |-> unread]}
    /\ UNCHANGED <<today, running, counter, feedVars, fillVars, log, position, result,
                   announced, histVars>>

\* run_order_update_listener writes each fill message as it arrives.
LogFill ==
    /\ pending # <<>>
    /\ LET m == Head(pending) IN
       log' = [log EXCEPT ![m.t] = Append(@, [kind |-> "fill", side |-> m.side,
                                             cost |-> m.cost, day |-> today])]
    /\ pending' = Tail(pending)
    /\ UNCHANGED <<today, running, counter, feedVars, fillUp, exchangeVars, histVars>>

\* _route writes a settlement when the event's turn comes in the queue.
RouteSettlement ==
    /\ inbox # <<>>
    /\ LET m == Head(inbox) IN
       log' = [log EXCEPT ![m.t] = Append(@, [kind |-> "settlement",
                                             value |-> m.value, day |-> today])]
    /\ inbox' = Tail(inbox)
    /\ UNCHANGED <<today, running, counter, feedUp, fillVars, exchangeVars, histVars>>

-----------------------------------------------------------------------------
(* The connections, the exchange and the calendar. *)

FeedConnect ==
    /\ running /\ ~feedUp
    /\ feedUp' = TRUE
    /\ UNCHANGED <<today, running, counter, inbox, fillVars, log, exchangeVars, histVars>>

\* Events already queued stay; a reconnection replays nothing.
FeedDrop ==
    /\ feedUp
    /\ feedUp' = FALSE
    /\ UNCHANGED <<today, running, counter, inbox, fillVars, log, exchangeVars, histVars>>

FillConnect ==
    /\ running /\ ~fillUp
    /\ fillUp' = TRUE
    /\ UNCHANGED <<today, running, counter, feedVars, pending, log, exchangeVars, histVars>>

FillDrop ==
    /\ fillUp
    /\ fillUp' = FALSE /\ pending' = <<>>
    /\ lostFills' = lostFills \cup {pending[i].t : i \in 1..Len(pending)}
    /\ UNCHANGED <<today, running, counter, feedVars, log, exchangeVars, unread,
                   boundAt, boots>>

\* The exchange matches an order, one message a contract: while the engine
\* awaits the reply, or after it gave up or ended.
Match(o, costs) ==
    /\ o \in wire /\ result[o.t] = Open
    /\ wire' = wire \ {o}
    /\ position' = [position EXCEPT ![o.t] =
                      [side |-> o.side, costs |-> costs, day |-> today]]
    /\ pending' = IF fillUp
                  THEN pending \o [i \in 1..Len(costs) |->
                                     [t |-> o.t, side |-> o.side, cost |-> costs[i]]]
                  ELSE pending
    /\ lostFills' = IF fillUp THEN lostFills ELSE lostFills \cup {o.t}
    /\ UNCHANGED <<today, running, counter, feedVars, fillUp, log, result,
                   announced, unread, boundAt, boots>>

\* ... or cancels it unfilled, or never receives it.
Refuse(o) ==
    /\ o \in wire
    /\ wire' = wire \ {o}
    /\ UNCHANGED <<today, running, counter, feedVars, fillVars, log, position, result,
                   announced, histVars>>

Determine(t, outcome) ==
    /\ t \in Held \cap Settling /\ result[t] = Open
    /\ result' = [result EXCEPT ![t] = [outcome |-> outcome, day |-> today]]
    /\ UNCHANGED <<today, running, counter, feedVars, fillVars, log, wire, position,
                   announced, histVars>>

\* settle_value as _on_lifecycle reads it: 0.0, a NO, when it is not given.
SettleValue(t, given) == IF given THEN result[t].outcome ELSE "no"

\* A determined message, with or without its settlement_value; the feed does
\* not tell a repeated one from the first.
Announce(t, given) ==
    /\ result[t] # Open /\ announced[t] < 2
    /\ announced' = [announced EXCEPT ![t] = @ + 1]
    /\ inbox' = IF feedUp
                THEN Append(inbox, [t |-> t, value |-> SettleValue(t, given)])
                ELSE inbox
    /\ UNCHANGED <<today, running, counter, feedUp, fillVars, log, wire, position,
                   result, histVars>>

Midnight ==
    /\ today < Days - 1
    /\ today' = today + 1
    /\ UNCHANGED <<running, counter, feedVars, fillVars, log, exchangeVars, histVars>>

Next ==
    \/ \E readable \in BOOLEAN : Boot(readable)
    \/ Crash
    \/ Refresh
    \/ \E t \in Markets, side \in Outcomes : Enter(t, side)
    \/ \E o \in wire, costs \in CostLists : Match(o, costs)
    \/ \E o \in wire : Refuse(o)
    \/ LogFill
    \/ RouteSettlement
    \/ FeedConnect \/ FeedDrop \/ FillConnect \/ FillDrop
    \/ \E t \in Markets, outcome \in Outcomes : Determine(t, outcome)
    \/ \E t \in Markets, given \in BOOLEAN : Announce(t, given)
    \/ Midnight

\* The task of a live loop runs; the log is readable again in the end.
Fairness == WF_vars(Refresh)

Spec == Init /\ [][Next]_vars /\ Fairness
-----------------------------------------------------------------------------
(* Properties. *)

\* What the exchange realized for market t on day d.
TrueRealized(t, d) ==
    IF t \in Held /\ result[t] # Open /\ result[t].day = d
    THEN SumFunction([i \in 1..Len(position[t].costs) |->
             Pays(position[t].side, result[t].outcome) - position[t].costs[i]])
    ELSE 0

\* Every fill of t was logged, and the last settlement logged is right.
LogComplete(t) ==
    /\ t \in Held /\ result[t] # Open
    /\ t \notin lostFills
    /\ \A i \in 1..Len(pending) : pending[i].t # t
    /\ \E i \in 1..Len(log[t]) :
        /\ log[t][i].kind = "settlement" /\ log[t][i].value = result[t].outcome
        /\ \A j \in i + 1..Len(log[t]) : log[t][j].kind = "fill"

\* Each record of t carries the day of the fact it reports.
StampedInTime(t) ==
    \A i \in 1..Len(log[t]) : log[t][i].day =
        IF log[t][i].kind = "fill" THEN position[t].day ELSE result[t].day

\* The derived PnL is exact for a market that was entered and settled the same
\* day, with nothing lost, late or without its value.
ExactWhenComplete ==
    \A t \in Markets :
        LogComplete(t) /\ StampedInTime(t) /\ position[t].day = result[t].day
            => \A d \in 0..Days - 1 : Realized(log[t], d) = TrueRealized(t, d)

\* What the module's docstring states: the log gives "the running total
\* realized PnL since today's UTC midnight".  A loss realized today, with every
\* record of it in the log, is counted today.
RealizedSinceMidnight ==
    \A t \in Markets :
        LogComplete(t) /\ StampedInTime(t) /\ TrueRealized(t, today) < 0
            => Realized(log[t], today) = TrueRealized(t, today)

\* Once the cap has bound, nothing reopens the day, a restart least of all,
\* before something more is logged: a market bought after that was ordered
\* before, or by a process that could not read the log.
BoundHolds ==
    [][\A t \in Held' \ Held : \E o \in wire :
            /\ o.t = t
            /\ \/ o.unread
               \/ boundAt = NotBound
               \/ boundAt.day # today
               \/ boundAt.log # log
               \/ o \in boundAt.wire]_vars

\* A loss in the log that reaches the cap stops the entries, unless the
\* process ends first or the day does.
CapBinds ==
    running /\ Reconcile(log, today) <= -Cap
        ~> ~running \/ ~UnderCap \/ ~(Reconcile(log, today) <= -Cap)
=============================================================================
