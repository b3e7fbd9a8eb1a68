---------------------------- MODULE MCCutpoints -----------------------------
(* The cutpoints of data/cutpoints/v1, and around each of them the values    *)
(* just below, at and above it; ladders that are not crossed and, with the   *)
(* last of Ladders, some that are, on either side of the guard at 70c and so *)
(* far that a favourite seems cheap against the bridge.                      *)
EXTENDS Cutpoints, TLC
CONSTANT none

MCPhi == 0 :> 500 @@ 20 :> 508 @@ 60 :> 726 @@ 149 :> 932 @@ 150 :> 933 @@ 200 :> 977 @@ 201 :> 978
MCThreshold == "BTC" :> 395 @@ "XRP" :> 592 @@ "DOGE" :> 789 @@ "HYPE" :> 0

MCUpsizeBelow == -30

Mids == {750, 777, 778, 793, 794, 816, 817, 843, 844, 882, 883, 933, 934}

Ladders == {[bid |-> IF m < 755 THEN 750 ELSE m - 5, ask |-> IF m < 755 THEN 750 ELSE m + 5] :
                m \in Mids}
             \cup {[bid |-> 750, ask |-> a] : a \in {410, 649, 650}}

Bids == {l.bid : l \in Ladders}
Asks == {l.ask : l \in Ladders}

Around(cryptos, margins, vols, hours, minutes) ==
    {s \in [crypto : cryptos, side : Sides, bid : Bids, ask : Asks, above : BOOLEAN,
            margin : margins, dNorm : DOMAIN MCPhi \cup {none}, warm : {TRUE},
            vol : vols, hour : hours, minute : minutes] :
        [bid |-> s.bid, ask |-> s.ask] \in Ladders /\ Possible(s)}

Btc  == Around({"BTC"}, {0, 394, 395, 592, 593, 790, 791}, {0, 49, 50, 80, 81}, {13, 14}, {0})
Xrp  == Around({"XRP"}, {591, 592, 889, 1185}, {0, 20, 21, 54, 55}, {13, 18}, {44, 45})
Doge == Around({"DOGE"}, {789, 999, 1000, 1184, 1499, 1500, 1579}, {0, 49, 50}, {13, 18}, {0})
Hype == Around({"HYPE"}, {0, 1}, {0, 49, 50}, {13}, {0})

MCObserved == LET cold == {[s EXCEPT !.warm = FALSE] : s \in Hype}
              IN Btc \cup Xrp \cup Doge \cup Hype \cup cold
=============================================================================
