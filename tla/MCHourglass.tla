---------------------------- MODULE MCHourglass ----------------------------
(* Two strikes of one hour, one of the next, and a daily market that is open *)
(* all the while.  The first hour is one window long and the second two, so  *)
(* that it straddles midnight: what the first lost is settled on the day the *)
(* second starts, and a new day begins before it ends.  The deep-ITM sweeper *)
(* has two rungs, so that one volley can settle under the stamps of two days *)
(* before it fires again; the ladder fires on the new day only.              *)
EXTENDS Hourglass, TLC
CONSTANTS btc, low, high, next, daily
MCCryptoOf == [t \in Tickers |-> btc]
MCOpenAt == [t \in Tickers |-> IF t = next THEN 1 ELSE 0]
MCLength == [t \in Tickers |-> IF t = daily THEN 9 ELSE IF t = next THEN 2 ELSE 1]
MCBooks == {[side |-> "yes", cost |-> 90]}
MCCryptoCap == [c \in Cryptos |-> 2]
MCSweepMarks == [s \in Sweepers |-> IF s = "ladder" THEN {1} ELSE {0, 1}]
MCSweepCryptos == [s \in Sweepers |-> Cryptos]
MCMaxRungs == [s \in Sweepers |-> IF s = "ladder" THEN 1 ELSE 2]
MCRungSize == [s \in Sweepers |-> 1]
MCLossCap == [s \in Sweepers |-> 90]
Strikes == Permutations({low, high})
=============================================================================
