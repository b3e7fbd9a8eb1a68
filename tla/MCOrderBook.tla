---------------------------- MODULE MCOrderBook ----------------------------
(* Two levels: a favorite's, and one that both sides can bid at once. *)
EXTENDS OrderBook

MCPrices == {200, 790}
=============================================================================
