-------------------------- MODULE MCFavoriteChase --------------------------
(* Markets of one underlying; the late one opens a step after the early one. *)
EXTENDS FavoriteChase

CONSTANTS btc, early, late

MCCryptoOf == [t \in Tickers |-> btc]
MCOpenAt == [t \in Tickers |-> IF t = late THEN 1 ELSE 0]
=============================================================================
