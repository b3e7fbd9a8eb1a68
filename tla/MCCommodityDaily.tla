-------------------------- MODULE MCCommodityDaily --------------------------
(* Two strikes of gold and one of oil; midnight falls between the marks of    *)
(* gold, and gold is pruned before oil closes.                                *)
EXTENDS CommodityDaily

CONSTANTS gold, oil, g1, g2, o1

MCCommodityOf == [t \in Tickers |-> IF t = o1 THEN oil ELSE gold]
MCCloseAt == [t \in Tickers |-> IF t = o1 THEN 3 ELSE 2]
MCListing == <<g1, g2, o1>>
MCMarks == {1, 2}
MCCostsOf == [t \in Tickers |-> IF t = g2 THEN {1} ELSE {2}]
=============================================================================
