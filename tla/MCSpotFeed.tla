----------------------------- MODULE MCSpotFeed -----------------------------
(* The delays, the count of failures and the freshness of the code; the      *)
(* fallback lasts a few rounds instead of two minutes.                       *)
EXTENDS SpotFeed
CONSTANTS btc, eth, doge
=============================================================================
