------------------------------ MODULE SpotFeed ------------------------------
(***************************************************************************)
(* The spot feed of the crypto engines, feeds/spot_ws.py.  Three sources:  *)
(* Bitstamp polled over REST, Bitstamp's socket, and Coinbase's socket,    *)
(* which falls back to polling after some sessions without an event.       *)
(*                                                                         *)
(* Durations are seconds.  There is no clock: the model adds up what the   *)
(* feed spends connecting and asleep, and what is left of the fallback.    *)
(* Prices are left out.                                                    *)
(***************************************************************************)
EXTENDS Integers, FiniteSets

CONSTANTS Cryptos,
          MaxFailures,    \* max_coinbase_failures
          RetryAfter,     \* coinbase_retry_after_s
          PollEvery,      \* bitstamp_poll_s
          PollTimeout,    \* total of the ClientTimeout
          BackoffBase, BackoffCap,   \* _BACKOFF_BASE_S, _BACKOFF_CAP_S
          ConnectTimeout, \* open_timeout of websockets.connect
          MaxAttempt      \* bound: attempts are counted no further

Sources == {"bitstamp", "bitstamp-ws", "coinbase"}
Phases == {"boot", "connect", "session", "asleep", "poll"}

ASSUME SpotAssumption ==
    /\ MaxFailures \in Nat \ {0} /\ RetryAfter \in Nat \ {0}
    /\ PollEvery \in Nat \ {0} /\ PollTimeout \in Nat \ {0}
    /\ BackoffBase \in Nat /\ BackoffCap \in Nat /\ ConnectTimeout \in Nat
    /\ MaxAttempt \in Nat

AtMost(a, b) == IF a <= b THEN a ELSE b

Delay(n) == AtMost(BackoffBase * 2^n, BackoffCap)

\* As many tries as are let fail, and the delays before them, which double: with
\* the constants of the code 3 * 10 + 1 + 2 + 4 seconds.
MaxOutage == MaxFailures * ConnectTimeout + BackoffBase * (2^MaxFailures - 1)

VARIABLES
    source,    \* spot_source
    phase,     \* where the generator is
    failures,  \* failure_count, or attempt
    hadEvent,  \* had_event
    left,      \* seconds left until the deadline of the fallback
    emitted,   \* the spots yielded by the last step
    outage     \* history: seconds without an open socket since the last event
               \* or poll, counted until they are too many

spotVars == <<source, phase, failures, hadEvent, left, emitted, outage>>
-----------------------------------------------------------------------------
SpotInit ==
    /\ source \in Sources /\ phase = "boot"
    /\ failures = 0 /\ hadEvent = FALSE /\ left = 0
    /\ emitted = {} /\ outage = 0

\* bootstrap_warmup_into: the candles of the cryptos whose request succeeds.
Warmup(S) ==
    /\ phase = "boot"
    /\ phase' = IF source = "bitstamp" THEN "poll" ELSE "connect"
    /\ emitted' = S
    /\ UNCHANGED <<source, failures, hadEvent, left, outage>>

Out(d) == AtMost(outage + d, MaxOutage + 1)

\* The socket opens, after d seconds, and subscribes; attempt starts anew.
Connected(d) ==
    /\ phase = "connect"
    /\ phase' = "session" /\ hadEvent' = FALSE
    /\ failures' = IF source = "bitstamp-ws" THEN 0 ELSE failures
    /\ emitted' = {} /\ outage' = Out(d)
    /\ UNCHANGED <<source, left>>

\* A readable message for one of the cryptos.
Message(c) ==
    /\ phase = "session"
    /\ hadEvent' = TRUE /\ emitted' = {c} /\ outage' = 0
    /\ UNCHANGED <<source, phase, failures, left>>

\* Mutant: one failure more is let pass.
FallsBackLate(n) == n > MaxFailures

FallsBack(n) == n >= MaxFailures

\* Mutant: any end of a session clears the count.
CountAfresh(event) == 0

Count(event) == IF event THEN 0 ELSE failures + 1

\* A Coinbase session is over, event tells whether it had one, or a try to connect
\* that took d seconds.
CoinbaseOver(event, d) ==
    LET n == Count(event) IN
    /\ source = "coinbase"
    /\ IF FallsBack(n)
       THEN phase' = "poll" /\ failures' = n /\ left' = RetryAfter /\ outage' = Out(d)
       ELSE /\ phase' = "asleep" /\ failures' = n
            /\ outage' = Out(d + Delay(n))
            /\ UNCHANGED left

\* Bitstamp's socket: what is raised backs off, a clean close does not.
BitstampFailed ==
    /\ source = "bitstamp-ws" /\ phase' = "asleep"
    /\ failures' = AtMost(failures + 1, MaxAttempt)
    /\ UNCHANGED <<left, outage>>

BitstampClosed ==
    /\ source = "bitstamp-ws" /\ phase' = "connect"
    /\ UNCHANGED <<failures, left, outage>>

Refused(d) ==
    /\ phase = "connect" /\ (CoinbaseOver(FALSE, d) \/ BitstampFailed)
    /\ hadEvent' = FALSE /\ emitted' = {}
    /\ UNCHANGED source

SessionEnds ==
    /\ phase = "session"
    /\ CoinbaseOver(hadEvent, 0) \/ BitstampFailed \/ BitstampClosed
    /\ hadEvent' = FALSE /\ emitted' = {}
    /\ UNCHANGED source

Wake ==
    /\ phase = "asleep" /\ phase' = "connect" /\ emitted' = {}
    /\ UNCHANGED <<source, failures, hadEvent, left, outage>>

\* Mutant: each round sets the deadline anew.
Deadline(d) == RetryAfter

Remaining(d) == IF d >= left THEN 0 ELSE left - d

Retry == phase' = "connect" /\ failures' = 0

\* One round asks for every crypto at once and yields when the last request
\* ended: those of S had an answer.  It takes d seconds with the sleep after it.
\* As the fallback, rounds go on until the deadline.
Round(S, d) ==
    /\ phase = "poll"
    /\ emitted' = S /\ outage' = 0
    /\ IF source = "bitstamp" THEN UNCHANGED <<phase, failures, left>>
       ELSE /\ left' = Remaining(d)
            /\ IF left' = 0 THEN Retry ELSE UNCHANGED <<phase, failures>>
    /\ UNCHANGED <<source, hadEvent>>

Durations == {PollEvery, IF PollTimeout > PollEvery THEN PollTimeout ELSE PollEvery}
-----------------------------------------------------------------------------
Try == \E d \in 0..ConnectTimeout : Connected(d) \/ Refused(d)

Bitstamp == \E S \in SUBSET Cryptos, d \in Durations : Round(S, d)

BitstampAnswers(c) ==
    \E S \in SUBSET Cryptos, d \in Durations : c \in S /\ Round(S, d)

SpotNext ==
    \/ \E S \in SUBSET Cryptos : Warmup(S)
    \/ Try \/ SessionEnds \/ Wake
    \/ \E c \in Cryptos : Message(c)
    \/ Bitstamp

\* Requests and sleeps end, by their timeouts; nothing makes an open socket
\* speak or close.  Bitstamp, asked again and again, answers for each crypto.
SpotFairness ==
    /\ WF_spotVars(\E S \in SUBSET Cryptos : Warmup(S))
    /\ WF_spotVars(Try)
    /\ WF_spotVars(Wake)
    /\ WF_spotVars(Bitstamp)
    /\ \A c \in Cryptos : SF_spotVars(BitstampAnswers(c))

SpotSpec == SpotInit /\ [][SpotNext]_spotVars /\ SpotFairness
-----------------------------------------------------------------------------
(* Properties. *)

\* However tries to connect are refused or hang, sessions close with or without an
\* event, and the fallback takes turns with them, the feed is without an open
\* socket and without a poll for no more than MaxOutage at a time.  What an open
\* session is silent is not counted: nothing bounds it.
OutageBounded == source = "coinbase" => outage <= MaxOutage

\* With Coinbase refusing, or closing, without end, spots still come for every
\* crypto, unless a session has one of them and not the others.  An open socket
\* that is silent is never given up.
SpotComes ==
    source # "bitstamp-ws" =>
        \/ <>[](phase = "session")
        \/ []<>(phase = "session" /\ hadEvent)
        \/ \A c \in Cryptos : []<>(c \in emitted)

\* The fallback ends: Coinbase is tried again.
CoinbaseRetried == source = "coinbase" => []<>(phase \in {"connect", "session"})
=============================================================================
