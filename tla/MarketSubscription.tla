------------------------- MODULE MarketSubscription -------------------------
(***************************************************************************)
(* How a new 15-minute market comes to be traded: the discovery loop of    *)
(* bin/live.py registers it with the strategy and extends the WebSocket    *)
(* feed, which drops its connection to subscribe again with the longer     *)
(* list.  Discovery, the feed's reconnect loop and the event consumer are  *)
(* tasks of one asyncio loop; an action is what runs between two awaits.   *)
(***************************************************************************)
EXTENDS Integers, Sequences

CONSTANTS Markets,
          Series,       \* the series in the order of --cryptos
          SeriesOf,     \* Markets -> the series of the market
          MaxFaults     \* REST, log and network failures of the model

ASSUME SeriesAssumption ==
    /\ Series \in Seq(STRING)
    /\ SeriesOf \in [Markets -> {Series[i] : i \in 1..Len(Series)}]
    /\ MaxFaults \in Nat

VARIABLES
    listed,      \* markets the exchange has open, whose listing has a strike and
                 \* both times and a cycle short enough: the others are passed over
    registered,  \* keys of strategy.markets
    at,          \* the discovery pass: 0 asleep, i awaiting series i, then extend,
                 \* and Ended once the task has died
    newly,       \* newly_registered of the pass
    tickers,     \* kalshi_ws._tickers
    conn,        \* the feed: down, open (connected), live (subscribe sent)
    closing,     \* the socket is closed and events() has not noticed yet
    carried,     \* markets the live subscription carries
    orphans,     \* history: registered without passing through a finished pass
    faults

passVars == <<at, newly>>
feedVars == <<tickers, conn, closing, carried>>
vars == <<listed, registered, passVars, feedVars, orphans, faults>>

Extending == Len(Series) + 1
Ended == Extending + 1
OfSeries(s) == {t \in Markets : SeriesOf[t] = s}
Heard(t) == conn = "live" /\ ~closing /\ t \in carried

TypeOK ==
    /\ listed \subseteq Markets /\ registered \subseteq Markets
    /\ at \in 0..Ended /\ newly \subseteq registered
    /\ tickers \subseteq registered
    /\ conn \in {"down", "open", "live"} /\ closing \in BOOLEAN
    /\ carried \subseteq tickers /\ (conn # "live" => carried = {})
    /\ orphans \subseteq registered
    /\ faults \in 0..MaxFaults

\* Boot discovery registers what it finds, and the feed starts from the same
\* list; the listing of some series may fail, but not of all.
Init ==
    /\ listed \in SUBSET Markets
    /\ \E found \in SUBSET {Series[i] : i \in 1..Len(Series)} :
        registered = {t \in listed : SeriesOf[t] \in found}
    /\ registered # {}
    /\ at = 0 /\ newly = {}
    /\ tickers = registered
    /\ conn = "down" /\ closing = FALSE /\ carried = {}
    /\ orphans = {} /\ faults = 0
-----------------------------------------------------------------------------
(* The exchange. *)

List(t) ==
    /\ t \notin listed \cup registered
    /\ listed' = listed \cup {t}
    /\ UNCHANGED <<registered, passVars, feedVars, orphans, faults>>

Close(t) ==
    /\ t \in listed
    /\ listed' = listed \ {t}
    /\ UNCHANGED <<registered, passVars, feedVars, orphans, faults>>

Fault == faults < MaxFaults /\ faults' = faults + 1
-----------------------------------------------------------------------------
(* _market_discovery_loop *)

StartPass ==
    /\ at = 0
    /\ at' = 1 /\ newly' = {}
    /\ UNCHANGED <<listed, registered, feedVars, orphans, faults>>

\* Mutant: each series starts the list of new markets afresh.
DiscoverAfresh ==
    /\ at \in 1..Len(Series)
    /\ newly' = (listed \cap OfSeries(Series[at])) \ registered
    /\ registered' = registered \cup newly'
    /\ at' = at + 1
    /\ UNCHANGED <<listed, feedVars, orphans, faults>>

\* The list of one series arrives: its unknown markets are registered.
Discover ==
    /\ at \in 1..Len(Series)
    /\ LET new == (listed \cap OfSeries(Series[at])) \ registered IN
        /\ registered' = registered \cup new
        /\ newly' = newly \cup new
    /\ at' = at + 1
    /\ UNCHANGED <<listed, feedVars, orphans, faults>>

\* The list of one series fails: discovery_error, on to the next.
DiscoveryError ==
    /\ at \in 1..Len(Series)
    /\ Fault
    /\ at' = at + 1
    /\ UNCHANGED <<listed, registered, newly, feedVars, orphans>>

\* Any other exception, a log write that fails for one, ends the pass with
\* what it had registered: market_discovery_loop_error, then sleep.
PassError ==
    /\ at \in 1..Extending
    /\ Fault
    /\ at' = 0 /\ newly' = {}
    /\ orphans' = orphans \cup (newly \ tickers)
    /\ UNCHANGED <<listed, registered, feedVars>>

\* ... and when the write of that event fails as well, no handler is left and
\* the task dies.  At 0 that is after the list was extended, with the writes
\* that report it.
PassDies ==
    /\ at # Ended
    /\ Fault
    /\ at' = Ended /\ newly' = {}
    /\ orphans' = orphans \cup (newly \ tickers)
    /\ UNCHANGED <<listed, registered, feedVars>>

\* Mutant: no reconnection when the subscription is already live.
ExtendQuietly ==
    /\ at = Extending
    /\ tickers' = tickers \cup newly
    /\ UNCHANGED closing
    /\ at' = 0 /\ newly' = {}
    /\ UNCHANGED <<listed, registered, conn, carried, orphans, faults>>

\* add_tickers: the list grows and a live connection is closed.
AddTickers ==
    /\ at = Extending
    /\ tickers' = tickers \cup newly
    /\ closing' = (closing \/ (newly \ tickers # {} /\ conn # "down"))
    /\ at' = 0 /\ newly' = {}
    /\ UNCHANGED <<listed, registered, conn, carried, orphans, faults>>
-----------------------------------------------------------------------------
(* KalshiWebSocketFeed.events and _subscribe *)

Connect ==
    /\ conn = "down"
    /\ conn' = "open"
    /\ UNCHANGED <<listed, registered, passVars, tickers, closing, carried,
                   orphans, faults>>

\* The list is the one at the time the command is built.
Subscribe ==
    /\ conn = "open" /\ ~closing
    /\ conn' = "live"
    /\ carried' = tickers
    /\ UNCHANGED <<listed, registered, passVars, tickers, closing, orphans, faults>>

\* Mutant: the connection is opened again before the old one is put away.
ReconnectAtOnce ==
    /\ closing
    /\ conn' = "open" /\ closing' = FALSE
    /\ UNCHANGED <<listed, registered, passVars, tickers, carried, orphans, faults>>

\* Mutant: events() ends with its socket.
EventsEnd ==
    /\ closing
    /\ UNCHANGED vars

\* The loop over a closed socket ends, and events() starts again.
Reconnect ==
    /\ closing
    /\ conn' = "down" /\ closing' = FALSE /\ carried' = {}
    /\ UNCHANGED <<listed, registered, passVars, tickers, orphans, faults>>

\* The network closes the socket.
Drop ==
    /\ conn # "down" /\ ~closing
    /\ Fault
    /\ closing' = TRUE
    /\ UNCHANGED <<listed, registered, passVars, tickers, conn, carried, orphans>>

\* _route: a lifecycle event with strike and times registers its market.
LifecycleRegister(t) ==
    /\ conn = "live" /\ t \in listed \ registered
    /\ registered' = registered \cup {t}
    /\ orphans' = orphans \cup {t}
    /\ UNCHANGED <<listed, passVars, feedVars, faults>>

Exchange == \E t \in Markets : List(t) \/ Close(t)
Pass == StartPass \/ Discover \/ DiscoveryError \/ PassError \/ PassDies \/ AddTickers
Feed == Connect \/ Subscribe \/ Reconnect \/ Drop
Consumer == \E t \in Markets : LifecycleRegister(t)

Next == Exchange \/ Pass \/ Feed \/ Consumer

\* The loop runs its tasks, and what failed is tried again until it works.
Fairness ==
    /\ WF_vars(StartPass) /\ WF_vars(Discover) /\ WF_vars(AddTickers)
    /\ WF_vars(Connect) /\ WF_vars(Subscribe) /\ WF_vars(Reconnect)

Spec == Init /\ [][Next]_vars
FairSpec == Spec /\ Fairness
-----------------------------------------------------------------------------
(* Properties. *)

\* A subscription that runs carries the whole list, whatever the interleaving
\* of an extension with the connection being opened, subscribed or lost.
LiveCoversTickers == conn = "live" /\ ~closing => carried = tickers

\* A registered market is on the feed's list, or in the pass that will put it
\* there, or it is an orphan: registered by an event or by a pass that failed.
RegisteredReachesFeed ==
    /\ registered = tickers \cup newly \cup orphans
    /\ newly # {} => at \in 2..Extending

\* An open market is heard of in the end, unless it closes or is an orphan, or
\* the discovery task has died.
ListedIsHeard ==
    \A t \in Markets :
        t \in listed ~> Heard(t) \/ t \notin listed \/ t \in orphans \/ at = Ended
=============================================================================
