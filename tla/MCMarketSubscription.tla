------------------------ MODULE MCMarketSubscription ------------------------
(* Two series; the first lists a market in two consecutive cycles. *)
EXTENDS MarketSubscription

CONSTANTS btc1, btc2, eth1

MCSeries == <<"KXBTC15M", "KXETH15M">>
MCSeriesOf == [t \in Markets |-> IF t = eth1 THEN "KXETH15M" ELSE "KXBTC15M"]
=============================================================================
