---------------------------- MODULE MCDailyLossCap ----------------------------
(* Every order buys two contracts, the second dearer than the first; the     *)
(* market that does not settle is only bought on one side.                   *)
EXTENDS DailyLossCap

MCCostLists == {<<1, 3>>}
MCPicks == (Settling \X Outcomes) \cup ((Markets \ Settling) \X {"yes"})
=============================================================================
