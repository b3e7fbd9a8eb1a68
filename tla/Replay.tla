------------------------------- MODULE Replay -------------------------------
(***************************************************************************)
(* The backtest: Replayer merges the streams of a capture, one per ticker  *)
(* and table, with the spot, and feeds each event to the strategy, the     *)
(* envelope and the FillSimulator.  A capture is a set of rows, each with  *)
(* the time it was received and the stamp of the exchange, if it has one;  *)
(* rows are sorted by the one and merged with the spot by the other, so    *)
(* what a delayed row does to the order is part of the model.              *)
(*                                                                         *)
(* RiskState.daily_realized_cents and open_positions are never written in  *)
(* a replay, so the envelope has its spot gate and its size only.  The     *)
(* verdict of the Phase-4 model is a choice.  Prices are cents.            *)
(***************************************************************************)
EXTENDS Integers, FiniteSets, FiniteSetsExt

CONSTANTS Tickers, Cryptos,
          CryptoOf,       \* Tickers -> Cryptos, crypto_of_ticker
          Strike,         \* Tickers -> Nat, 0 when market_dim has none
          OpenAt,         \* Tickers -> open time
          CycleLen,       \* rules.CYCLE_MS
          TriggerOpen,    \* rules.TRIGGER_OPEN_MS
          From, To,       \* the window that is replayed
          TickerRank,     \* Tickers -> Nat, place in the list of tickers
          CryptoRank,     \* Cryptos -> Nat, place in the list of cryptos
          MaxSpotAge,     \* RiskEnvelope.max_spot_age_ms
          MaxSize, MaxContracts,
          Markdown,       \* SlippageModel.markdown_dc
          MaxBarAge,      \* _PARQUET_STALE_MS
          MaxDelay,       \* the longest way from a stamp to its receipt
          MaxLead,        \* the most the exchange's clock is ahead of ours
          Captures        \* the captures that may be replayed

Sides == {"yes", "no"}
NoStamp == -1
Unreadable == "unreadable"
Nothing == "nothing"
MarketKinds == {"book", "trade", "settled"}

\* Rows of all tables have one shape.  side is the favorite of a book, if one
\* is bid at 75c, or the result of a settlement; num the ask of that favorite,
\* or the price of the spot.
Stamped(r, kind) ==
    /\ r.kind = kind /\ r.id \in Nat
    /\ r.ex \in Nat \cup {NoStamp} /\ r.recv \in Nat

\* A row of a table, or a minute bar of a parquet.
IsRow(r) ==
    \/ /\ Stamped(r, "book") /\ r.about \in Tickers
       /\ r.side \in Sides \cup {Nothing} /\ r.num \in 0..100
    \/ Stamped(r, "trade") /\ r.about \in Tickers /\ r.side = Nothing
    \/ Stamped(r, "settled") /\ r.about \in Tickers /\ r.side \in Sides \cup {Unreadable}
    \/ /\ Stamped(r, "spot") \/ (Stamped(r, "bar") /\ r.ex = NoStamp)
       /\ r.about \in Cryptos /\ r.side = Nothing /\ r.num \in Nat

CloseAt(t) == OpenAt[t] + CycleLen

\* What an exchange sends is received after its stamp, but for the difference of
\* the clocks, and every capture has its longest delay.  A result is announced
\* after the close by both clocks; rows that repeat it may say something else.
IsCapture(C) ==
    /\ \A r \in C : IsRow(r) /\ r.ex <= r.recv + MaxLead
    /\ \A r \in C : r.ex # NoStamp => r.recv <= r.ex + MaxDelay
    /\ \A r, s \in C : r.id = s.id => r = s
    /\ \A r \in C : r.kind = "settled" =>
            CloseAt(r.about) + MaxLead <= (IF r.ex = NoStamp THEN r.recv ELSE r.ex)

ASSUME MarketAssumption ==
    /\ CryptoOf \in [Tickers -> Cryptos]
    /\ Strike \in [Tickers -> Nat] /\ OpenAt \in [Tickers -> Nat]
    /\ CycleLen \in Nat /\ TriggerOpen \in Nat
    /\ TickerRank \in [Tickers -> Nat] /\ CryptoRank \in [Cryptos -> Nat]

ASSUME LimitAssumption ==
    /\ From \in Nat /\ To \in Nat /\ MaxSpotAge \in Nat
    /\ MaxSize \in Nat \ {0} /\ MaxContracts \in Nat \ {0}
    /\ Markdown \in Nat /\ MaxBarAge \in Nat /\ MaxDelay \in Nat /\ MaxLead \in Nat

ASSUME CaptureAssumption == \A C \in Captures : IsCapture(C) /\ IsFiniteSet(C)

VARIABLES
    capture,    \* the warehouse: burn-in tables and spot bars
    useBars,    \* there is a spot_dir
    left,       \* rows in scope that were not merged yet
    \* RiskState
    now, lastSpot,
    decided,    \* strategy.decided
    \* FillSimulator
    open,       \* open_positions
    nFills, nSettled, nWins, realized,
    \* history
    heard,      \* the receipt of each lastSpot
    entries,    \* the time and the spot of each fill
    closed      \* positions that were settled

warehouse == <<capture, useBars>>
risk == <<now, lastSpot, heard>>
book_keeping == <<open, nFills, nSettled, nWins, realized, entries, closed>>
vars == <<warehouse, left, risk, decided, book_keeping>>
-----------------------------------------------------------------------------
(* What is read, and in which order. *)

\* COALESCE(exchange_ts_ms, received_ts_ms)
Key(r) == IF r.ex = NoStamp THEN r.recv ELSE r.ex

\* How far the order of stamps can be from that of receipt.
MaxSkew == MaxDelay + MaxLead

\* _collect_tickers: cycles that overlap the window, with a strike.
Registered == {t \in Tickers : From <= CloseAt(t) /\ OpenAt[t] <= To /\ Strike[t] > 0}

\* The mappers drop what they cannot read; spot comes from the bars if there
\* are any, else from the capture.
InScope(r, bars) ==
    /\ r.side # Unreadable
    /\ From <= Key(r) /\ Key(r) <= To
    /\ \/ r.kind \in MarketKinds /\ r.about \in Registered
       \/ r.kind = "spot" /\ ~bars
       \/ r.kind = "bar" /\ bars

IsBar(r) == r.kind = "bar"

\* Streams of the burn-in, in the order iter_window lists them; all symbols of
\* spot_quote_event are one stream.
KindRank(k) == CASE k = "book" -> 0 [] k = "trade" -> 1 [] k = "settled" -> 2
StreamRank(r) ==
    IF r.kind \in MarketKinds THEN <<0, TickerRank[r.about], KindRank(r.kind)>>
                              ELSE <<1, 0, 0>>

SourceRank(r) == IF IsBar(r) THEN 1 + CryptoRank[r.about] ELSE 0

\* Lexicographic order.
Below3(a, b) ==
    \/ a[1] < b[1]
    \/ a[1] = b[1] /\ a[2] < b[2]
    \/ a[1] = b[1] /\ a[2] = b[2] /\ a[3] < b[3]

\* The order within a source: ORDER BY of the streams, and their heapq.merge.
Precedes(r, s) ==
    \/ Key(r) < Key(s)
    \/ Key(r) = Key(s) /\ Below3(StreamRank(r), StreamRank(s))
    \/ Key(r) = Key(s) /\ StreamRank(r) = StreamRank(s) /\ r.id < s.id

\* The next row of its source.
IsHead(r) ==
    /\ r \in left
    /\ \A s \in left : SourceRank(s) = SourceRank(r) => ~Precedes(s, r)

\* Mutants: the burn-in is read to its end first, the bars are.
Chained(r) ==
    /\ IsHead(r)
    /\ \A s \in left : IsHead(s) => SourceRank(r) <= SourceRank(s)

BarsFirst(r) ==
    /\ IsHead(r)
    /\ \A s \in left : IsHead(s) => SourceRank(s) <= SourceRank(r)

\* heapq.merge of the sources, keyed by receipt: the smallest head, the first
\* source among equals.
Merged(r) ==
    /\ IsHead(r)
    /\ \A s \in left : IsHead(s) =>
            \/ r.recv < s.recv
            \/ r.recv = s.recv /\ SourceRank(r) <= SourceRank(s)

Take(r) == Merged(r) /\ left' = left \ {r}
-----------------------------------------------------------------------------
(* _dispatch. *)

AtMost(a, b) == IF a <= b THEN a ELSE b
Later(a, b) == IF a >= b THEN a ELSE b

\* Mutant: no end of the window.
TriggerOnly(r) == OpenAt[r.about] + TriggerOpen <= r.recv

\* is_trigger_window
InTrigger(r) ==
    /\ OpenAt[r.about] + TriggerOpen <= r.recv
    /\ r.recv < CloseAt(r.about)

\* Mutant: only an entry locks the market, and that after the fill.
ConsidersAgain(r) == InTrigger(r) /\ r.side # Nothing

\* The first book of a market that has a favorite in the window.
Considers(r) == InTrigger(r) /\ r.side # Nothing /\ r.about \notin decided

\* The envelope's freshness gate, by the clock of the replay.
SpotFresh(c) == lastSpot[c] # NoStamp /\ now' - lastSpot[c] <= MaxSpotAge

\* Mutant: sizes are not cut.
Uncut(n) == n

Downsized(n) == AtMost(n, MaxContracts)

\* FillSimulator.submit of a decision for n contracts: a degenerate book fills
\* nothing.
Fills(r, n) ==
    /\ n > 0 /\ SpotFresh(CryptoOf[r.about])
    /\ 0 < r.num /\ r.num < 100

BuyPrice == 99
FillOf(r, n) == [t |-> r.about, side |-> r.side, n |-> Downsized(n),
                 price |-> AtMost(r.num + Markdown, BuyPrice)]

\* taker_fee, rounded up to the next cent.
TakerFee(price, n) == (7 * n * price * (100 - price) + 9999) \div 10000

\* A book: n is the size the model asks for, 0 for a SKIP.
HandleBook(r, n) ==
    /\ Take(r) /\ r.kind = "book"
    /\ n > 0 => Considers(r)
    /\ now' = Later(now, r.recv)
    /\ decided' = IF Considers(r) THEN decided \cup {r.about} ELSE decided
    /\ IF Fills(r, n)
       THEN /\ open' = {p \in open : p.t # r.about} \cup {FillOf(r, n)}
            /\ nFills' = nFills + 1
            /\ entries' = entries \cup
                 {[t |-> r.about, at |-> r.recv, spot |-> lastSpot[CryptoOf[r.about]],
                   heard |-> heard[CryptoOf[r.about]]]}
       ELSE UNCHANGED <<open, nFills, entries>>
    /\ UNCHANGED <<warehouse, lastSpot, heard, nSettled, nWins, realized, closed>>

\* A trade moves the clock and nothing else.
HandleTrade(r) ==
    /\ Take(r) /\ r.kind = "trade"
    /\ now' = Later(now, r.recv)
    /\ UNCHANGED <<warehouse, lastSpot, heard, decided, book_keeping>>

\* A quote of the capture has the stamp of the venue, a bar its own.
HandleSpot(r) ==
    /\ Take(r) /\ r.kind \in {"spot", "bar"}
    /\ lastSpot' = [lastSpot EXCEPT ![r.about] = Key(r)]
    /\ heard' = [heard EXCEPT ![r.about] = r.recv]
    /\ now' = Later(now, Key(r))
    /\ UNCHANGED <<warehouse, decided, book_keeping>>

Won(p, result) == p.side = result
Net(p, result) ==
    (IF Won(p, result) THEN 100 - p.price ELSE -p.price) * p.n - TakerFee(p.price, p.n)

Without(t) == {p \in open : p.t # t}

Held(t) == {p \in open : p.t = t}

\* FillSimulator.on_settlement: a settlement of nothing held is passed over.
HandleSettlement(r) ==
    /\ Take(r) /\ r.kind = "settled"
    /\ \/ Held(r.about) = {} /\ UNCHANGED book_keeping
       \/ \E p \in Held(r.about) :
            /\ open' = Without(r.about)
            /\ nSettled' = nSettled + 1
            /\ nWins' = IF Won(p, r.side) THEN nWins + 1 ELSE nWins
            /\ realized' = realized + Net(p, r.side)
            /\ closed' = closed \cup {[pos |-> p, result |-> r.side]}
            /\ UNCHANGED <<nFills, entries>>
    /\ UNCHANGED <<warehouse, risk, decided>>
-----------------------------------------------------------------------------
Init ==
    /\ capture \in Captures /\ useBars \in BOOLEAN
    /\ left = {r \in capture : InScope(r, useBars)}
    /\ now = 0 /\ lastSpot = [c \in Cryptos |-> NoStamp] /\ heard = lastSpot
    /\ decided = {} /\ open = {}
    /\ nFills = 0 /\ nSettled = 0 /\ nWins = 0 /\ realized = 0
    /\ entries = {} /\ closed = {}

Next ==
    \/ \E r \in left, n \in 0..MaxSize : HandleBook(r, n)
    \/ \E r \in left : HandleTrade(r)
    \/ \E r \in left : HandleSpot(r)
    \/ \E r \in left : HandleSettlement(r)

Spec == Init /\ [][Next]_vars
-----------------------------------------------------------------------------
(* SettlementResolver, which scores markets from the same capture. *)

Determined(t) == {r \in capture : r.kind = "settled" /\ r.about = t}

\* Mutant: the rows are ordered the other way.
LastReceived(S) == CHOOSE r \in S : \A s \in S : s.recv <= r.recv

\* ORDER BY received_ts_ms LIMIT 1
FirstReceived(S) == CHOOSE r \in S : \A s \in S : r.recv <= s.recv

\* Only the first determined row is looked at.
FromLifecycle(t) ==
    LET S == Determined(t) IN
    IF S = {} \/ FirstReceived(S).side = Unreadable THEN Nothing
    ELSE FirstReceived(S).side

Latest(S) == CHOOSE r \in S : \A s \in S : s.recv <= r.recv

\* Spot at the close: a bar of the last minutes, else a quote of the capture.
SpotAt(c, close) ==
    LET quotes(k) == {r \in capture : r.kind = k /\ r.about = c /\ r.recv <= close}
        fresh == {r \in quotes("bar") : close - Latest(quotes("bar")).recv <= MaxBarAge}
    IN  IF fresh # {} THEN Latest(fresh).num
        ELSE IF quotes("spot") # {} THEN Latest(quotes("spot")).num
        ELSE NoStamp

Synthetic(t) ==
    LET px == SpotAt(CryptoOf[t], CloseAt(t)) IN
    IF Strike[t] = 0 \/ px = NoStamp THEN Nothing
    ELSE IF px >= Strike[t] THEN "yes" ELSE "no"

Resolve(policy, t) ==
    IF policy # "forced_synthetic" /\ FromLifecycle(t) # Nothing THEN FromLifecycle(t)
    ELSE IF policy = "strict" THEN Nothing ELSE Synthetic(t)
-----------------------------------------------------------------------------
(* Properties. *)

TypeOK ==
    /\ IsCapture(capture) /\ useBars \in BOOLEAN
    /\ left \subseteq {r \in capture : InScope(r, useBars)}
    /\ now \in Nat
    /\ lastSpot \in [Cryptos -> Nat \cup {NoStamp}]
    /\ heard \in [Cryptos -> Nat \cup {NoStamp}]
    /\ decided \subseteq Tickers
    /\ open \subseteq [t : Tickers, side : Sides, n : 1..MaxContracts, price : 1..BuyPrice]
    /\ nFills \in Nat /\ nSettled \in Nat /\ nWins \in 0..nSettled
    /\ realized \in Int
    /\ entries \subseteq [t : Tickers, at : Nat, spot : Nat, heard : Nat \cup {NoStamp}]
    /\ closed \subseteq [pos : [t : Tickers, side : Sides, n : 1..MaxContracts,
                               price : 1..BuyPrice], result : Sides]

\* The summary adds up: every fill is open or settled, whichever way books and
\* repeated settlements interleave, and the wins are counted once.
SummaryAddsUp ==
    /\ nFills = nSettled + Cardinality(open)
    /\ nSettled = Cardinality(closed)
    /\ nWins = Cardinality({c \in closed : Won(c.pos, c.result)})

\* A backtest that knows the future is worth nothing.  Sorting by one clock and
\* merging by another lets it know some: a fill may be decided on a spot received
\* after its book, but by no more than the longest delay of the capture and the
\* difference of the clocks.  Nor is the spot older, by its stamp, than the envelope
\* allows.
LookAheadBounded ==
    \A e \in entries :
        e.heard <= e.at + MaxSkew /\ e.at <= e.spot + MaxSpotAge

\* At the end no position is left open whose settlement the capture holds.
SettledIfCaptured ==
    left = {} =>
        \A p \in open : ~\E r \in capture :
            r.kind = "settled" /\ r.about = p.t /\ InScope(r, useBars)

\* The row of a market that comes first by receipt and by its stamp.
FirstInBoth(r, S) ==
    r \in S /\ \A s \in S \ {r} : r.recv < s.recv /\ Precedes(r, s)

\* The replay goes by the first row in the order of stamps that it can read, the
\* strict resolver by the first received.  Rows that contradict each other leave
\* them apart only if they came out of order: where the first row is the same in
\* both, the two score a position alike, or the resolver cannot read it.
ScoredAsResolved ==
    \A c \in closed : \A r \in Determined(c.pos.t) :
        FirstInBoth(r, Determined(c.pos.t)) =>
            CASE r.side = Unreadable -> Resolve("strict", c.pos.t) = Nothing
              [] InScope(r, useBars) -> Resolve("strict", c.pos.t) = c.result
              [] OTHER -> TRUE

\* Each event is handed over once, and ahead of one received earlier by no more
\* than the longest delay and the difference of the clocks ("Events are merged across tables in receipt-timestamp
\* order").
Order == INSTANCE ReceiptOrder
             WITH Slack <- MaxSkew,
                  pending <- {[at |-> r.recv, event |-> r.id] : r \in left}
ImplementsReceiptOrder == Order!Spec
=============================================================================
