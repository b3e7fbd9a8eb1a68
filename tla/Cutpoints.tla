----------------------------- MODULE Cutpoints ------------------------------
(* Phase4CutpointsModel.evaluate: the policy that turns a favourite and the  *)
(* features of its crypto into a size, in the fifteen align_modes. The       *)
(* engines differ in the mode they boot with; all are evaluated side by side *)
(* here, on the same situation. A size of zero is a SKIP.                    *)
(*                                                                           *)
(* Prices, fairs and bb_div are in thousandths of a dollar, margins in       *)
(* hundredths of a basis point, percentiles and d_norm in hundredths. A      *)
(* score is counted in halves, the unit of its weights. The normal           *)
(* distribution is the constant Phi: of all the code asks of it, the         *)
(* properties need that it is monotone around one half.                      *)
EXTENDS Integers

CONSTANTS
    Observed,         \* the situations in which a favourite comes to be judged
    None,             \* no d_norm: the volatility is zero
    Phi,              \* d_norm -> chance that spot stays on its side of the strike
    Threshold,        \* crypto -> bps_thresholds, 0 for one that is not listed
    VolSkipAbove, VolUpsizeBelow, BbDivSkipAbove, BbDivUpsizeBelow,
    TimeOfDaySkip     \* the flag time_of_day_skip

VARIABLES
    situation,        \* what evaluate() is called with
    decision          \* align_mode -> size decided

vars == <<situation, decision>>

Sides == {"YES", "NO"}

FloorModes == {"5tier_v13b_h1h4", "5tier_v13b_7_10_10", "5tier_v13b_10_flat",
               "5tier_v13b_1to3_flat", "5tier_v13b_1to3_ramp",
               "5tier_v13b_btc_dnorm_gate", "5tier_v13b_equity_1ct_flat",
               "5tier_v13b_commodity_1ct_flat"}

Modes == FloorModes \cup {"disabled", "2tier", "3tier", "5tier", "5tier_v13b",
                          "5tier_v13b_s2", "5tier_v13b_h1h4_loose"}

(* rules.FAVORITE_THRESHOLD_DECICENTS: a side is the favourite from 75c on.  *)
MinFavorite == 750

(* It is the bid of the favourite that is tested; its ask is what the best   *)
(* bid of the other side leaves of a dollar, less than the bid where a       *)
(* ladder that lost a delta is crossed.                                      *)
Situation == [crypto : DOMAIN Threshold, side : Sides,
              bid : MinFavorite .. 1000, ask : 0 .. 1000,
              above : BOOLEAN, margin : Nat, dNorm : DOMAIN Phi \cup {None},
              warm : BOOLEAN, vol : 0 .. 100, hour : 0 .. 23, minute : 0 .. 59]

(* The volatility is zero where there is no d_norm, so its rank is the       *)
(* lowest, or the neutral one of an empty history. At the strike d_norm is 0.*)
Possible(s) == /\ s.dNorm = None => s.vol \in {0, 50}
               /\ s.dNorm # None => ((s.dNorm = 0) <=> (s.margin = 0))
               /\ s.margin = 0 => s.above

ASSUME ObservedAssumption == \A s \in Observed : s \in Situation /\ Possible(s)
ASSUME PhiAssumption ==
    /\ None \notin DOMAIN Phi
    /\ DOMAIN Phi \subseteq Nat
    /\ \A d \in DOMAIN Phi : Phi[d] \in 500 .. 1000
ASSUME CutpointsAssumption ==
    /\ \A c \in DOMAIN Threshold : Threshold[c] \in Nat
    /\ VolSkipAbove \in Nat /\ VolUpsizeBelow \in Nat
    /\ BbDivSkipAbove \in Int /\ BbDivUpsizeBelow \in Int
    /\ BbDivSkipAbove < MinFavorite - 500
    /\ TimeOfDaySkip \in BOOLEAN
-----------------------------------------------------------------------------
(* Features.                                                                 *)

(* The chance of the side spot is on; with zero volatility it is certain.    *)
StayFair(s) == IF s.dNorm = None THEN 1000 ELSE Phi[s.dNorm]

BbYes(s) == IF s.above THEN StayFair(s) ELSE 1000 - StayFair(s)

(* A slip: the fair of YES is compared whatever the side.                    *)
FairOfYes(s) == BbYes(s)

BbFav(s) == IF s.side = "YES" THEN BbYes(s) ELSE 1000 - BbYes(s)

(* favorite_mid_decicents, to the thousandth.                                *)
Mid(s) == (s.bid + s.ask) \div 2

BbDiv(s) == Mid(s) - BbFav(s)

SVol(s) == s.vol < 50
SDiv(s) == BbDiv(s) < -50
SBps(s) == 2 * s.margin > 3 * Threshold[s.crypto]

Bit(b) == IF b THEN 1 ELSE 0

Alignment(s) == Bit(SVol(s)) + Bit(SDiv(s)) + Bit(SBps(s))

DivBand(s)   == -200 < BbDiv(s) /\ BbDiv(s) <= 0
SuperBand(s) == -140 < BbDiv(s) /\ BbDiv(s) <= -90
BpsStrong(s) == s.margin > 2 * Threshold[s.crypto]

(* A slip: the side is flipped as of V13b but the weight of s_vol is kept.   *)
ScoreWithVol(s) == 4 * Bit(DivBand(s)) + 2 * Bit(SVol(s)) + 3 * Bit(s.side = "NO")
                     + 4 * Bit(BpsStrong(s)) + 2 * Bit(SuperBand(s))

(* The V13b score, in halves.                                                *)
Score(s) == 4 * Bit(DivBand(s)) + 3 * Bit(s.side = "NO")
              + 4 * Bit(BpsStrong(s)) + 2 * Bit(SuperBand(s))

(* Python rounds a half to the even neighbour.                               *)
RoundHalves(n) == LET q == n \div 2 IN IF n % 2 = 1 /\ q % 2 = 1 THEN q + 1 ELSE q

Clip(n, low, high) == IF n < low THEN low ELSE IF n > high THEN high ELSE n
-----------------------------------------------------------------------------
(* Vetoes, the same in every mode.                                           *)
Skip == 0

TodSkipHours == 14 .. 17
BadHours == {18, 20}

ContrarianGuard(s) ==
    /\ s.crypto \in {"DOGE", "XRP"}
    /\ \/ s.hour \in BadHours
       \/ s.crypto = "DOGE" /\ s.side = "NO" /\ (Mid(s) < 700 \/ s.margin < 1500)
       \/ s.crypto = "XRP" /\ s.side = "YES" /\ s.minute >= 45 /\ s.vol >= 55
       \/ s.crypto = "XRP" /\ s.side = "NO" /\ s.vol <= 20

Vetoed(s) ==
    \/ TimeOfDaySkip /\ s.hour \in TodSkipHours
    \/ ~s.warm
    \/ s.vol > VolSkipAbove
    \/ BbDiv(s) > BbDivSkipAbove
    \/ BbDiv(s) <= -200
    \/ s.margin < Threshold[s.crypto]
    \/ s.crypto = "DOGE" /\ s.margin < 1000
    \/ ContrarianGuard(s)
-----------------------------------------------------------------------------
(* Sizes, one operator per mode.                                             *)
Disabled(s) == IF s.vol < VolUpsizeBelow /\ BbDiv(s) < BbDivUpsizeBelow THEN 2 ELSE 1

TwoTier(s) == IF Alignment(s) <= 1 THEN Skip ELSE Alignment(s) - 1

ThreeTier(s) == Alignment(s)

FiveTier(s) ==
    LET score == 4 * Bit(DivBand(s)) + 2 * Bit(SVol(s))
                   + 3 * Bit(s.side = "YES") + 4 * Bit(BpsStrong(s))
    IN IF ~SBps(s) THEN Skip ELSE Clip(RoundHalves(score), 1, 5)

V13b(s) == IF ~SBps(s) \/ Score(s) <= 0 THEN Skip
           ELSE Clip(RoundHalves(Score(s)), 1, 5)

S2(s) == IF ~SBps(s) \/ Score(s) < 6 THEN Skip
         ELSE IF Score(s) < 8  THEN 3
         ELSE IF Score(s) < 10 THEN 5
         ELSE IF Score(s) < 12 THEN 8 ELSE 12

(* round(score * 1.8), no score of eight halves or more falls on a tie       *)
Smooth(s) == Clip((9 * Score(s) + 5) \div 10, 0, 12)

H1H4(s) == IF ~SBps(s) \/ Score(s) < 8 THEN Skip ELSE Smooth(s)

(* A slip: the volatility of the borderline is not looked at.                *)
LooseInAnyVol(s) ==
    IF ~SBps(s) \/ Score(s) < 6 THEN Skip
    ELSE IF Score(s) < 8 THEN IF DivBand(s) THEN 3 ELSE Skip
    ELSE Smooth(s)

H1H4Loose(s) ==
    IF ~SBps(s) \/ Score(s) < 6 THEN Skip
    ELSE IF Score(s) < 8 THEN IF DivBand(s) /\ s.vol < 50 THEN 3 ELSE Skip
    ELSE Smooth(s)

(* The modes with the floor of 4.0 and one size for each tier of the score.  *)
Tiered(s, at4, at5, at6) ==
    IF ~SBps(s) \/ Score(s) < 8 THEN Skip
    ELSE IF Score(s) < 10 THEN at4 ELSE IF Score(s) < 12 THEN at5 ELSE at6

SevenTenTen(s)    == Tiered(s, 7, 10, 10)
TenFlat(s)        == Tiered(s, 10, 10, 10)
OneToThreeFlat(s) == Tiered(s, 3, 3, 3)
OneToThreeRamp(s) == Tiered(s, 1, 2, 3)
EquityFlat(s)     == Tiered(s, 1, 1, 1)
CommodityFlat(s)  == Tiered(s, 1, 1, 1)

DnormGate(s) == IF s.dNorm # None /\ s.dNorm \in 150 .. 200 THEN Skip
                ELSE Tiered(s, 7, 9, 10)

Size(m, s) == CASE m = "2tier"                         -> TwoTier(s)
                [] m = "3tier"                         -> ThreeTier(s)
                [] m = "5tier"                         -> FiveTier(s)
                [] m = "5tier_v13b"                    -> V13b(s)
                [] m = "5tier_v13b_s2"                 -> S2(s)
                [] m = "5tier_v13b_h1h4"               -> H1H4(s)
                [] m = "5tier_v13b_h1h4_loose"         -> H1H4Loose(s)
                [] m = "5tier_v13b_7_10_10"            -> SevenTenTen(s)
                [] m = "5tier_v13b_10_flat"            -> TenFlat(s)
                [] m = "5tier_v13b_1to3_flat"          -> OneToThreeFlat(s)
                [] m = "5tier_v13b_1to3_ramp"          -> OneToThreeRamp(s)
                [] m = "5tier_v13b_btc_dnorm_gate"     -> DnormGate(s)
                [] m = "5tier_v13b_equity_1ct_flat"    -> EquityFlat(s)
                [] m = "5tier_v13b_commodity_1ct_flat" -> CommodityFlat(s)
                [] OTHER                               -> Disabled(s)

Verdict(m, s) == IF Vetoed(s) THEN Skip ELSE Size(m, s)
-----------------------------------------------------------------------------
Init == situation \in Observed /\ decision = [m \in Modes |-> Skip]

(* The model keeps no state between calls, FavoriteChaseState does: what     *)
(* comes before a call shows only in the situation it is called in.          *)
Evaluate == /\ decision' = [m \in Modes |-> Verdict(m, situation)]
            /\ UNCHANGED situation

Spec == Init /\ [][Evaluate]_vars
-----------------------------------------------------------------------------
(* Properties.                                                               *)

(* On a ladder that is not crossed no mode buys the side that would lose if  *)
(* spot stood still until the close: a favourite of 75c on the wrong side of *)
(* the strike is always too dear against the bridge, also where the          *)
(* volatility is zero, where the crypto has no threshold and where spot is   *)
(* at the strike.  On a crossed one it may look cheap.                       *)
NeverAgainstSpot ==
    situation.bid <= situation.ask =>
        \A m \in Modes :
            decision[m] > 0 => (situation.side = "YES" <=> situation.above)

(* A mode with the floor of 4.0 buys only with bb_div within the band of the *)
(* docs and either a margin past twice the threshold or the NO side within   *)
(* the super-band: no other mix of the four weights reaches the floor.       *)
FloorMeansConviction ==
    \A m \in FloorModes : decision[m] > 0 =>
        /\ DivBand(situation)
        /\ BpsStrong(situation) \/ (situation.side = "NO" /\ SuperBand(situation))

(* What the production mode promises of its relaxation: where h1h4 buys the  *)
(* loose mode buys as much, elsewhere at most three contracts, and those     *)
(* only within the band, in calm volatility and where S2 buys them as well.  *)
LooseExtendsH1H4 ==
    LET strict == decision["5tier_v13b_h1h4"]
        loose  == decision["5tier_v13b_h1h4_loose"]
    IN /\ strict > 0 => loose = strict
       /\ strict = 0 /\ loose > 0 =>
              /\ loose = 3 /\ decision["5tier_v13b_s2"] = 3
              /\ DivBand(situation) /\ SVol(situation)
=============================================================================
