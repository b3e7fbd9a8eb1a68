------------------------------ MODULE FeedProofs ------------------------------
(***************************************************************************)
(* Proofs about the two feeds of an engine: MarketSubscription for any     *)
(* markets, any series and any number of faults, and SpotFeed for any      *)
(* cryptos, limits and delays.                                             *)
(***************************************************************************)
EXTENDS MarketSubscription, SpotFeed, FiniteSetTheorems, TLAPS

\* The two safety invariants are inductive together with the types.
Inv == TypeOK /\ LiveCoversTickers /\ RegisteredReachesFeed

LEMMA InvInit == Init => Inv
  <1> SUFFICES ASSUME Init PROVE Inv
    OBVIOUS
  <1>1. Len(Series) \in Nat /\ MaxFaults \in Nat
    BY SeriesAssumption
  <1>2. registered \subseteq listed /\ listed \subseteq Markets
    <2>1. PICK found \in SUBSET {Series[i] : i \in 1..Len(Series)} :
             registered = {t \in listed : SeriesOf[t] \in found}
      BY DEF Init
    <2> QED BY <2>1 DEF Init
  <1>3. at \in 0..Ended /\ faults \in 0..MaxFaults
    BY <1>1 DEF Init, Extending, Ended
  <1>4. newly = {} /\ orphans = {} /\ tickers = registered /\ carried = {}
        /\ conn = "down" /\ closing = FALSE
    BY DEF Init
  <1>5. TypeOK
    BY <1>2, <1>3, <1>4 DEF TypeOK
  <1>6. LiveCoversTickers /\ RegisteredReachesFeed
    BY <1>4 DEF LiveCoversTickers, RegisteredReachesFeed
  <1> QED BY <1>5, <1>6 DEF Inv

\* No step of discovery, of the feed, of the consumer or of the network breaks
\* the link between what is registered, what is on the list and what is carried.
LEMMA InvStep == Inv /\ [Next]_vars => Inv'
  <1> SUFFICES ASSUME Inv, [Next]_vars PROVE Inv'
    OBVIOUS
  <1> Len(Series) \in Nat /\ MaxFaults \in Nat
    BY SeriesAssumption
  <1> USE DEF Inv, TypeOK, LiveCoversTickers, RegisteredReachesFeed, Extending, Ended,
              passVars, feedVars
  <1>1. CASE Exchange
    BY <1>1 DEF Exchange, List, Close
  <1>2. CASE StartPass
    BY <1>2 DEF StartPass
  <1>3. CASE Discover
    BY <1>3 DEF Discover
  <1>4. CASE DiscoveryError
    BY <1>4 DEF DiscoveryError, Fault
  <1>5. CASE PassError
    <2>1. orphans' = orphans \cup (newly \ tickers) /\ newly' = {} /\ at' = 0
          /\ UNCHANGED <<listed, registered, tickers, conn, closing, carried>>
      BY <1>5 DEF PassError
    <2>2. faults' \in 0..MaxFaults
      BY <1>5 DEF PassError, Fault
    <2>3. registered' = tickers' \cup newly' \cup orphans'
      BY <2>1
    <2> QED BY <2>1, <2>2, <2>3
  <1>6. CASE PassDies
    <2>1. orphans' = orphans \cup (newly \ tickers) /\ newly' = {} /\ at' = Ended
          /\ UNCHANGED <<listed, registered, tickers, conn, closing, carried>>
      BY <1>6 DEF PassDies
    <2>2. faults' \in 0..MaxFaults
      BY <1>6 DEF PassDies, Fault
    <2>3. registered' = tickers' \cup newly' \cup orphans'
      BY <2>1
    <2> QED BY <2>1, <2>2, <2>3
  <1>7. CASE AddTickers
    <2>1. /\ tickers' = tickers \cup newly /\ newly' = {} /\ at' = 0
          /\ UNCHANGED <<listed, registered, conn, carried, orphans, faults>>
          /\ closing' \in BOOLEAN
      BY <1>7 DEF AddTickers
    <2>2. RegisteredReachesFeed'
      BY <2>1
    <2>3. TypeOK'
      BY <2>1
    <2>4. LiveCoversTickers'
      <3> SUFFICES ASSUME conn = "live", ~closing' PROVE carried = tickers'
        BY <2>1
      <3>1. ~closing /\ newly \ tickers = {}
        BY <1>7 DEF AddTickers
      <3> QED BY <2>1, <3>1
    <2> QED BY <2>2, <2>3, <2>4
  <1>8. CASE Connect \/ Subscribe
    BY <1>8 DEF Connect, Subscribe
  <1>9. CASE Reconnect
    BY <1>9 DEF Reconnect
  <1>10. CASE Drop
    BY <1>10 DEF Drop, Fault
  <1>11. CASE Consumer
    <2>1. PICK t \in Markets : LifecycleRegister(t)
      BY <1>11 DEF Consumer
    <2>2. /\ registered' = registered \cup {t} /\ orphans' = orphans \cup {t}
          /\ UNCHANGED <<listed, at, newly, tickers, conn, closing, carried, faults>>
      BY <2>1 DEF LifecycleRegister
    <2>3. RegisteredReachesFeed'
      BY <2>2
    <2> QED BY <2>2, <2>3
  <1>12. CASE UNCHANGED vars
    BY <1>12 DEF vars
  <1> QED
    BY <1>1, <1>2, <1>3, <1>4, <1>5, <1>7, <1>8, <1>9, <1>10, <1>11, <1>12, <1>6
       DEF Next, Pass, Feed

LEMMA Inductive == Spec => []Inv
  BY InvInit, InvStep, PTL DEF Spec

\* The registry, the pass and the feed keep their types, and a subscription is
\* being closed only while there is one.
THEOREM TypeCorrect == Spec => []TypeOK
  <1>1. Inv => TypeOK
    BY DEF Inv
  <1> QED BY <1>1, Inductive, PTL

\* A subscription that runs never misses a market of the feed's list.
THEOREM LiveCovers == Spec => []LiveCoversTickers
  <1>1. Inv => LiveCoversTickers
    BY DEF Inv
  <1> QED BY <1>1, Inductive, PTL

\* A registered market that the feed never gets is an orphan, and nothing else.
THEOREM RegisteredReaches == Spec => []RegisteredReachesFeed
  <1>1. Inv => RegisteredReachesFeed
    BY DEF Inv
  <1> QED BY <1>1, Inductive, PTL
-----------------------------------------------------------------------------
(* The spot feed. *)

\* The delays double: 2^n counts the subsets of 1..n, and a subset of 1..(n + 1)
\* has n + 1 or not.
LEMMA Doubles ==
    ASSUME NEW n \in Nat
    PROVE  2^n \in Nat \ {0} /\ 2^(n + 1) = 2 * 2^n
  <1> DEFINE A == SUBSET (1..n)
             B == {x \cup {n + 1} : x \in A}
             bij == [x \in A |-> x \cup {n + 1}]
  <1>1. /\ IsFiniteSet(1..n) /\ Cardinality(1..n) = n
        /\ IsFiniteSet(1..(n + 1)) /\ Cardinality(1..(n + 1)) = n + 1
    BY FS_Interval
  <1>2. /\ IsFiniteSet(A) /\ Cardinality(A) = 2^n
        /\ Cardinality(SUBSET (1..(n + 1))) = 2^(n + 1)
    BY <1>1, FS_SUBSET, Zenon
  <1>3. \A x \in A : n + 1 \notin x
    OBVIOUS
  <1>4. SUBSET (1..(n + 1)) = A \cup B
    <2>1. ASSUME NEW y \in SUBSET (1..(n + 1)) PROVE y \in A \cup B
      <3>1. y \ {n + 1} \in A
        OBVIOUS
      <3>2. CASE n + 1 \in y
        <4>1. y = (y \ {n + 1}) \cup {n + 1}
          BY <3>2
        <4> QED BY <3>1, <4>1
      <3>3. CASE n + 1 \notin y
        BY <3>1, <3>3
      <3> QED BY <3>2, <3>3
    <2>2. 1..n \subseteq 1..(n + 1) /\ n + 1 \in 1..(n + 1)
      OBVIOUS
    <2> QED BY <2>1, <2>2
  <1>5. A \cap B = {}
    BY <1>3
  <1>6. ExistsBijection(A, B)
    <2>1. \A x, y \in A : x \cup {n + 1} = y \cup {n + 1} => x = y
      BY <1>3
    <2>2. bij \in [A -> B]
      OBVIOUS
    <2>3. \A x, y \in A : bij[x] = bij[y] => x = y
      BY <2>1
    <2>4. \A y \in B : \E x \in A : bij[x] = y
      OBVIOUS
    <2> HIDE DEF bij, A, B
    <2>5. bij \in Bijection(A, B)
      BY <2>2, <2>3, <2>4 DEF Bijection, Injection, Surjection, IsInjective
    <2> QED BY <2>5 DEF ExistsBijection
  <1>7. IsFiniteSet(B) /\ Cardinality(B) = Cardinality(A)
    BY <1>2, <1>6, FS_Bijection
  <1>8. 2^(n + 1) = 2^n + 2^n
    <2>1. Cardinality(A \cup B) = Cardinality(A) + Cardinality(B) - Cardinality(A \cap B)
      BY <1>2, <1>7, FS_Union
    <2>2. Cardinality(A \cap B) = 0 /\ Cardinality(A) \in Nat
      BY <1>2, <1>5, FS_EmptySet, FS_CardinalityType
    <2> HIDE DEF A, B
    <2>3. \A k \in Nat : k + k - 0 = k + k
      OBVIOUS
    <2>4. Cardinality(A \cup B) = Cardinality(A) + Cardinality(A) - 0
      BY <1>7, <2>1, <2>2, Zenon
    <2>5. Cardinality(A \cup B) = Cardinality(A) + Cardinality(A)
      BY <2>2, <2>3, <2>4, Zenon
    <2>6. 2^(n + 1) = Cardinality(A \cup B) /\ Cardinality(A) = 2^n
      BY <1>2, <1>4, Zenon
    <2> QED BY <2>5, <2>6, Zenon
  <1>9. 2^n \in Nat \ {0}
    <2>1. A # {}
      OBVIOUS
    <2> HIDE DEF A
    <2> QED BY <1>2, <2>1, FS_EmptySet, FS_CardinalityType
  <1> HIDE DEF A, B, bij
  <1>10. \A k \in Nat : k + k = 2 * k
    OBVIOUS
  <1> QED BY <1>8, <1>9, <1>10

LEMMA Grows ==
    ASSUME NEW m \in Nat, NEW n \in Nat, m <= n
    PROVE  2^m <= 2^n
  <1>1. /\ IsFiniteSet(1..m) /\ Cardinality(1..m) = m
        /\ IsFiniteSet(1..n) /\ Cardinality(1..n) = n
    BY FS_Interval
  <1>2. /\ IsFiniteSet(SUBSET (1..n)) /\ Cardinality(SUBSET (1..n)) = 2^n
        /\ Cardinality(SUBSET (1..m)) = 2^m
    BY <1>1, FS_SUBSET, Zenon
  <1>3. SUBSET (1..m) \in SUBSET SUBSET (1..n)
    OBVIOUS
  <1> QED BY <1>2, <1>3, FS_Subset

\* What f failed tries and the delays up to the next one cost at most.
Cost(f) == f * ConnectTimeout + BackoffBase * (2^(f + 1) - 1)

LEMMA CostFacts ==
    ASSUME NEW f \in Nat
    PROVE  /\ Cost(f) \in Nat
           /\ Delay(f) \in Nat /\ Delay(0) <= Cost(0)
           /\ Cost(f) + ConnectTimeout + Delay(f + 1) <= Cost(f + 1)
           /\ f < MaxFailures => Cost(f) + ConnectTimeout <= MaxOutage
  <1>1. /\ ConnectTimeout \in Nat /\ BackoffBase \in Nat /\ BackoffCap \in Nat
        /\ MaxFailures \in Nat
    BY SpotAssumption
  <1> DEFINE p == 2^f
             q == 2^(f + 1)
             z == 2^0
  <1>2. /\ p \in Nat \ {0} /\ q = 2 * p /\ 2^((f + 1) + 1) = 2 * q
        /\ z \in Nat \ {0} /\ 2^(0 + 1) = 2 * z
    BY Doubles
  <1>3. Delay(f) = AtMost(BackoffBase * p, BackoffCap)
    BY DEF Delay
  <1>4. Delay(f + 1) = AtMost(BackoffBase * q, BackoffCap)
    BY DEF Delay
  <1>5. Delay(0) = AtMost(BackoffBase * z, BackoffCap)
    BY DEF Delay
  <1>6. f < MaxFailures => q <= 2^MaxFailures /\ 2^MaxFailures \in Nat
    BY <1>1, Grows, Doubles
  <1>7. /\ Cost(f) = f * ConnectTimeout + BackoffBase * (q - 1)
        /\ Cost(f + 1) = (f + 1) * ConnectTimeout + BackoffBase * (2 * q - 1)
        /\ Cost(0) = BackoffBase * (2 * z - 1)
    BY <1>1, <1>2 DEF Cost
  <1> HIDE DEF p, q, z
  <1>8. \A b, x \in Nat : b * x \in Nat /\ b * (x - 1) = b * x - b /\ b * (2 * x - 1) = 2 * (b * x) - b
    OBVIOUS
  <1>9. \A b, x \in Nat : x # 0 => b <= b * x
    OBVIOUS
  <1>10. \A b, x, y \in Nat : x <= y => b * x <= b * y
    OBVIOUS
  <1>11. (f + 1) * ConnectTimeout = f * ConnectTimeout + ConnectTimeout /\ f * ConnectTimeout \in Nat
    BY <1>1
  <1>12. q \in Nat \ {0}
    BY <1>2
  <1>13. /\ BackoffBase * p \in Nat /\ BackoffBase * q \in Nat /\ BackoffBase * z \in Nat
         /\ BackoffBase <= BackoffBase * q /\ BackoffBase <= BackoffBase * z
    BY <1>1, <1>2, <1>8, <1>9, <1>12
  <1>14. /\ Cost(f) = f * ConnectTimeout + BackoffBase * q - BackoffBase
         /\ Cost(f + 1) = f * ConnectTimeout + ConnectTimeout + 2 * (BackoffBase * q) - BackoffBase
         /\ Cost(0) = 2 * (BackoffBase * z) - BackoffBase
    BY <1>1, <1>2, <1>7, <1>8, <1>11, <1>12, <1>13
  <1>15. /\ Delay(f) \in Nat /\ Delay(f + 1) <= BackoffBase * q
         /\ Delay(f + 1) \in Nat /\ Delay(0) \in Nat /\ Delay(0) <= BackoffBase * z
    BY <1>1, <1>3, <1>4, <1>5, <1>13 DEF AtMost
  <1>16. ASSUME f < MaxFailures PROVE Cost(f) + ConnectTimeout <= MaxOutage
    <2> DEFINE e == 2^MaxFailures
    <2>1. q <= e /\ e \in Nat
      BY <1>6, <1>16
    <2>2. MaxOutage = MaxFailures * ConnectTimeout + BackoffBase * (e - 1)
      BY DEF MaxOutage
    <2> HIDE DEF e
    <2>3. BackoffBase * q <= BackoffBase * e /\ BackoffBase * e \in Nat
          /\ BackoffBase * (e - 1) = BackoffBase * e - BackoffBase
      BY <1>1, <1>8, <1>10, <1>12, <2>1
    <2>4. f * ConnectTimeout + ConnectTimeout <= MaxFailures * ConnectTimeout
      <3>1. f + 1 <= MaxFailures
        BY <1>1, <1>16
      <3>2. ConnectTimeout * (f + 1) <= ConnectTimeout * MaxFailures
        BY <1>1, <1>10, <3>1
      <3> QED BY <1>1, <1>11, <3>2
    <2>5. MaxFailures * ConnectTimeout \in Nat
      BY <1>1, <1>8
    <2> QED BY <1>1, <1>11, <1>13, <1>14, <2>2, <2>3, <2>4, <2>5
  <1> QED BY <1>1, <1>11, <1>13, <1>14, <1>15, <1>16

SpotTypeOK ==
    /\ source \in Sources /\ phase \in Phases
    /\ failures \in Nat /\ hadEvent \in BOOLEAN
    /\ left \in 0..RetryAfter
    /\ emitted \subseteq Cryptos
    /\ outage \in Int

\* Coinbase polls only as the fallback, before its deadline; otherwise the count
\* is below the limit, and the time without a socket is at most what that count of
\* failures costs, with one try more if that opened a session.
Backoff ==
    source = "coinbase" =>
        /\ phase = "poll" => left > 0 /\ outage <= MaxOutage
        /\ phase # "poll" => failures < MaxFailures
        /\ phase \in {"boot", "connect", "asleep"} => outage <= Cost(failures)
        /\ phase = "session" => outage <= Cost(failures) + ConnectTimeout
        /\ hadEvent => outage = 0

\* The inductive invariant: bounding outage alone is not, it takes the count.
SpotInv == SpotTypeOK /\ Backoff

LEMMA MaxOutageType == MaxOutage \in Nat
  <1> DEFINE e == 2^MaxFailures
  <1>1. e \in Nat \ {0}
    BY Doubles, SpotAssumption
  <1>2. MaxOutage = MaxFailures * ConnectTimeout + BackoffBase * (e - 1)
    BY DEF MaxOutage
  <1> HIDE DEF e
  <1>3. \A x, y \in Nat : x * y \in Nat
    OBVIOUS
  <1>4. e - 1 \in Nat
    BY <1>1
  <1> QED BY <1>2, <1>3, <1>4, SpotAssumption

LEMMA OutIs ==
    ASSUME outage \in Int, NEW d \in Nat
    PROVE  Out(d) \in Int /\ Out(d) <= outage + d
  BY MaxOutageType DEF Out, AtMost

LEMMA SpotInvInit == SpotInit => SpotInv
  <1> SUFFICES ASSUME SpotInit PROVE SpotInv
    OBVIOUS
  <1>1. SpotTypeOK
    <2>1. left \in 0..RetryAfter
      BY SpotAssumption DEF SpotInit
    <2>2. source \in Sources /\ phase \in Phases /\ hadEvent \in BOOLEAN
      BY DEF SpotInit, Phases
    <2>3. failures \in Nat /\ outage \in Int /\ emitted \subseteq Cryptos
      BY DEF SpotInit
    <2> QED BY <2>1, <2>2, <2>3 DEF SpotTypeOK
  <1>2. Cost(0) \in Nat /\ 0 < MaxFailures
    BY CostFacts, SpotAssumption
  <1>3. Backoff
    BY <1>2 DEF SpotInit, Backoff
  <1> QED BY <1>1, <1>3 DEF SpotInv

\* The end of a Coinbase session, or a try that failed: the fallback, or one delay
\* more, of the next failure or of a count that starts anew.
LEMMA CoinbaseOverInv ==
    ASSUME SpotInv, NEW event \in BOOLEAN, event => outage = 0,
           NEW d \in 0..ConnectTimeout,
           \/ phase = "connect" /\ event = FALSE
           \/ phase = "session" /\ d = 0,
           CoinbaseOver(event, d)
    PROVE  /\ phase' \in {"poll", "asleep"} /\ failures' \in Nat
           /\ left' \in 0..RetryAfter /\ outage' \in Int
           /\ phase' = "poll" => left' > 0 /\ outage' <= MaxOutage
           /\ phase' # "poll" => failures' < MaxFailures /\ outage' <= Cost(failures')
  <1> DEFINE n == Count(event)
  <1>1. /\ source = "coinbase" /\ failures < MaxFailures /\ failures \in Nat
        /\ outage \in Int /\ left \in 0..RetryAfter
        /\ d \in Nat /\ ConnectTimeout \in Nat /\ MaxFailures \in Nat
    BY SpotAssumption DEF CoinbaseOver, SpotInv, SpotTypeOK, Backoff
  <1>2. Cost(failures) \in Nat /\ outage + d <= Cost(failures) + ConnectTimeout
    BY <1>1, CostFacts DEF SpotInv, Backoff
  <1>3. \/ event = FALSE /\ n = failures + 1
        \/ event = TRUE /\ n = 0 /\ outage + d = 0
    BY <1>1 DEF Count
  <1>4. n \in 0..MaxFailures
    BY <1>1, <1>3
  <1>5. CASE n >= MaxFailures
    <2>1. phase' = "poll" /\ failures' = n /\ left' = RetryAfter /\ outage' = Out(d)
      BY <1>5 DEF CoinbaseOver, FallsBack
    <2>2. Out(d) \in Int /\ Out(d) <= outage + d
      BY <1>1, OutIs
    <2>3. Cost(failures) + ConnectTimeout <= MaxOutage
      BY <1>1, CostFacts
    <2>4. MaxOutage \in Int
      BY MaxOutageType
    <2> HIDE DEF n
    <2>5. Out(d) <= MaxOutage
      BY <1>1, <1>2, <2>2, <2>3, <2>4
    <2> QED BY <1>4, <2>1, <2>2, <2>5, SpotAssumption
  <1>6. CASE ~(n >= MaxFailures)
    <2>1. /\ phase' = "asleep" /\ failures' = n /\ left' = left
          /\ outage' = Out(d + Delay(n))
      BY <1>6 DEF CoinbaseOver, FallsBack
    <2>2. n \in Nat /\ n < MaxFailures
      BY <1>1, <1>4, <1>6
    <2>3. Delay(n) \in Nat /\ Cost(n) \in Nat
      BY <2>2, CostFacts
    <2>4. d + Delay(n) \in Nat
      BY <1>1, <2>3
    <2>5. outage' \in Int /\ outage' <= outage + d + Delay(n)
      BY <1>1, <2>1, <2>3, <2>4, OutIs
    <2>6. outage + d + Delay(n) <= Cost(n)
      <3>1. CASE n = failures + 1
        BY <1>1, <1>2, <2>3, <3>1, CostFacts
      <3>2. CASE n = 0 /\ outage + d = 0
        <4>1. Delay(0) <= Cost(0)
          BY CostFacts
        <4> QED BY <1>1, <2>3, <3>2, <4>1
      <3> QED BY <1>3, <3>1, <3>2
    <2> HIDE DEF n
    <2>7. outage' <= Cost(n)
      BY <1>1, <2>3, <2>5, <2>6
    <2> QED BY <1>1, <2>1, <2>2, <2>5, <2>7
  <1> QED BY <1>4, <1>5, <1>6, <1>1

\* No message, failure, close, sleep or round breaks it.
LEMMA SpotInvStep == SpotInv /\ [SpotNext]_spotVars => SpotInv'
  <1> SUFFICES ASSUME SpotInv, [SpotNext]_spotVars PROVE SpotInv'
    OBVIOUS
  <1>0. /\ SpotTypeOK /\ Backoff
        /\ 0 < MaxFailures /\ RetryAfter \in Nat \ {0} /\ ConnectTimeout \in Nat
        /\ Cost(failures) \in Nat /\ Cost(0) \in Nat
    BY CostFacts, SpotAssumption DEF SpotInv, SpotTypeOK
  <1>1. ASSUME NEW S \in SUBSET Cryptos, Warmup(S) PROVE SpotInv'
    <2>1. source = "coinbase" => phase' = "connect"
      BY <1>1 DEF Warmup
    <2>2. /\ phase = "boot" /\ phase' \in Phases /\ emitted' = S
          /\ UNCHANGED <<source, failures, hadEvent, left, outage>>
      BY <1>1 DEF Warmup, Phases
    <2> QED BY <1>0, <2>1, <2>2 DEF SpotInv, SpotTypeOK, Backoff
  <1>2. ASSUME NEW d \in 0..ConnectTimeout, Connected(d) PROVE SpotInv'
    <2>1. /\ phase = "connect" /\ phase' = "session" /\ hadEvent' = FALSE
          /\ failures' \in Nat /\ (source = "coinbase" => failures' = failures)
          /\ emitted' = {} /\ outage' = Out(d) /\ UNCHANGED <<source, left>>
      BY <1>0, <1>2 DEF Connected, SpotTypeOK
    <2>2. Out(d) \in Int /\ Out(d) <= outage + d
      BY <1>0, OutIs DEF SpotTypeOK
    <2>3. source = "coinbase" => Out(d) <= Cost(failures) + ConnectTimeout
      BY <1>0, <2>1, <2>2 DEF Backoff, SpotTypeOK
    <2> QED BY <1>0, <2>1, <2>2, <2>3 DEF SpotInv, SpotTypeOK, Backoff, Phases
  <1>3. ASSUME NEW c \in Cryptos, Message(c) PROVE SpotInv'
    BY <1>0, <1>3 DEF Message, SpotInv, SpotTypeOK, Backoff
  <1>4. ASSUME NEW event \in BOOLEAN, event => hadEvent, NEW d \in 0..ConnectTimeout,
               \/ phase = "connect" /\ event = FALSE
               \/ phase = "session" /\ d = 0,
               CoinbaseOver(event, d),
               hadEvent' = FALSE, emitted' = {}, UNCHANGED source
        PROVE SpotInv'
    <2>1. source = "coinbase" /\ (event => outage = 0)
      BY <1>0, <1>4 DEF CoinbaseOver, Backoff
    <2>2. /\ phase' \in {"poll", "asleep"} /\ failures' \in Nat
          /\ left' \in 0..RetryAfter /\ outage' \in Int
          /\ phase' = "poll" => left' > 0 /\ outage' <= MaxOutage
          /\ phase' # "poll" => failures' < MaxFailures /\ outage' <= Cost(failures')
      BY <1>4, <2>1, CoinbaseOverInv
    <2> QED BY <1>0, <1>4, <2>1, <2>2 DEF SpotInv, SpotTypeOK, Backoff, Phases
  <1>5. ASSUME BitstampFailed \/ BitstampClosed,
               hadEvent' = FALSE, emitted' = {}, UNCHANGED source
        PROVE SpotInv'
    <2>1. /\ source = "bitstamp-ws" /\ phase' \in Phases /\ failures' \in Nat
          /\ UNCHANGED <<left, outage>>
      BY <1>0, <1>5, SpotAssumption
         DEF BitstampFailed, BitstampClosed, AtMost, Phases, SpotTypeOK
    <2> QED BY <1>0, <1>5, <2>1 DEF SpotInv, SpotTypeOK, Backoff
  <1>6. ASSUME NEW d \in 0..ConnectTimeout, Refused(d) PROVE SpotInv'
    BY <1>4, <1>5, <1>6 DEF Refused
  <1>7. CASE SessionEnds
    <2>1. 0 \in 0..ConnectTimeout /\ hadEvent \in BOOLEAN
      BY <1>0 DEF SpotTypeOK
    <2> QED BY <1>4, <1>5, <1>7, <2>1 DEF SessionEnds
  <1>8. CASE Wake
    BY <1>0, <1>8 DEF Wake, SpotInv, SpotTypeOK, Backoff, Phases
  <1>9. ASSUME NEW S \in SUBSET Cryptos, NEW d \in Durations, Round(S, d)
        PROVE SpotInv'
    <2>1. /\ phase = "poll" /\ emitted' = S /\ outage' = 0
          /\ UNCHANGED <<source, hadEvent>>
      BY <1>9 DEF Round
    <2>2. CASE source = "bitstamp"
      BY <1>0, <1>9, <2>1, <2>2 DEF Round, SpotInv, SpotTypeOK, Backoff
    <2>3. CASE source # "bitstamp"
      <3>1. left' \in 0..RetryAfter
        BY <1>0, <1>9, <2>3, SpotAssumption
           DEF Round, Remaining, Durations, SpotTypeOK
      <3>2. CASE left' = 0
        BY <1>0, <1>9, <2>1, <2>3, <3>2 DEF Round, Retry, SpotInv, SpotTypeOK, Backoff, Phases
      <3>3. CASE left' # 0
        <4>1. 0 <= MaxOutage
          BY MaxOutageType
        <4> QED BY <1>0, <1>9, <2>1, <2>3, <3>1, <3>3, <4>1
                DEF Round, SpotInv, SpotTypeOK, Backoff
      <3> QED BY <3>2, <3>3
    <2> QED BY <2>2, <2>3
  <1>10. CASE UNCHANGED spotVars
    BY <1>0, <1>10 DEF spotVars, SpotInv, SpotTypeOK, Backoff
  <1> QED
    BY <1>1, <1>2, <1>3, <1>6, <1>7, <1>8, <1>9, <1>10 DEF SpotNext, Try, Bitstamp

LEMMA SpotInductive == SpotSpec => []SpotInv
  BY SpotInvInit, SpotInvStep, PTL DEF SpotSpec

\* However the sessions of Coinbase fail, close and take turns with the fallback,
\* the feed is without an open socket and without a poll for no more than the
\* connects and delays of max_coinbase_failures failures in a row.
THEOREM OutageStaysBounded == SpotSpec => []OutageBounded
  <1>1. SpotInv => OutageBounded
    <2> SUFFICES ASSUME SpotInv, source = "coinbase" PROVE outage <= MaxOutage
      BY DEF OutageBounded
    <2>1. CASE phase = "poll"
      BY <2>1 DEF SpotInv, Backoff
    <2>2. CASE phase # "poll"
      <3>1. /\ failures \in Nat /\ failures < MaxFailures /\ outage \in Int
            /\ outage <= Cost(failures) + ConnectTimeout
            /\ Cost(failures) \in Nat /\ ConnectTimeout \in Nat
        BY <2>2, CostFacts, SpotAssumption DEF SpotInv, SpotTypeOK, Backoff, Phases
      <3>2. Cost(failures) + ConnectTimeout <= MaxOutage
        BY <3>1, CostFacts
      <3> QED BY <3>1, <3>2, MaxOutageType
    <2> QED BY <2>1, <2>2
  <1> QED BY <1>1, SpotInductive, PTL

\* A step of the fallback.
Nearer == /\ left' < left
          /\ phase' = "poll" <=> left' > 0
          /\ phase' # "poll" => phase' = "connect" /\ failures' = 0

\* Each round of the fallback, whoever answers, brings its deadline nearer, and
\* the round that reaches it goes back to Coinbase with the count cleared: the
\* fallback has no step that leaves it early or keeps it going.
THEOREM FallbackRunsDown ==
    SpotSpec => [][source = "coinbase" /\ phase = "poll" => Nearer]_spotVars
  <1>1. SpotInv /\ [SpotNext]_spotVars
            => [source = "coinbase" /\ phase = "poll" => Nearer]_spotVars
    <2> SUFFICES ASSUME SpotInv, SpotNext, source = "coinbase", phase = "poll"
                 PROVE  Nearer
      OBVIOUS
    <2>1. PICK S \in SUBSET Cryptos, d \in Durations : Round(S, d)
      BY DEF SpotNext, Try, Warmup, Connected, Refused, SessionEnds, Wake, Message, Bitstamp
    <2>2. left \in Nat /\ left > 0 /\ d \in Nat /\ d > 0
      BY SpotAssumption DEF SpotInv, SpotTypeOK, Backoff, Durations
    <2>3. left' \in Nat /\ left' < left
      BY <2>1, <2>2 DEF Round, Remaining
    <2> QED BY <2>1, <2>3 DEF Nearer, Round, Retry
  <1> QED BY <1>1, SpotInductive, PTL DEF SpotSpec
=============================================================================
