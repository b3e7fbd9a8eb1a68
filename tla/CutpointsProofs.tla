-------------------------- MODULE CutpointsProofs ---------------------------
(* The three properties of Cutpoints, for every normal distribution that is  *)
(* at least one half, every table of thresholds, every artifact with         *)
(* bb_div_skip_above below the favourite's 75c less one half, and any set of *)
(* situations, on a crossed ladder too but for the first. They rest on what  *)
(* every reachable decision is: all skips, or the verdicts of the modes on   *)
(* the situation.                                                            *)
EXTENDS Cutpoints, TLAPS

Judged == /\ situation \in Observed
          /\ \/ decision = [m \in Modes |-> Skip]
             \/ decision = [m \in Modes |-> Verdict(m, situation)]

(* Every reachable decision is the policy's, on the situation it is kept     *)
(* with: evaluate() has no memory.                                           *)
THEOREM JudgedHolds == Spec => []Judged
<1>1. Init => Judged
  BY DEF Init, Judged
<1>2. Judged /\ [Evaluate]_vars => Judged'
  BY DEF Judged, Evaluate, vars
<1>3. QED BY <1>1, <1>2, PTL DEF Spec

(* The features of a situation are integers in their ranges.                 *)
LEMMA FeatureTypes ==
    ASSUME NEW s \in Observed
    PROVE  /\ s.bid \in MinFavorite .. 1000 /\ s.ask \in 0 .. 1000
           /\ Mid(s) \in Int /\ s.margin \in Nat
           /\ s.vol \in Int /\ s.hour \in Int /\ s.minute \in Int
           /\ s.side \in Sides /\ s.above \in BOOLEAN
           /\ Threshold[s.crypto] \in Nat
           /\ StayFair(s) \in 500 .. 1000
           /\ BbYes(s) \in 0 .. 1000 /\ BbFav(s) \in 0 .. 1000 /\ BbDiv(s) \in Int
<1>1. s \in Situation
  BY ObservedAssumption
<1>2. /\ s.bid \in MinFavorite .. 1000 /\ s.ask \in 0 .. 1000 /\ s.margin \in Nat
      /\ s.vol \in Int /\ s.hour \in Int /\ s.minute \in Int
      /\ s.side \in Sides /\ s.above \in BOOLEAN /\ s.dNorm \in DOMAIN Phi \cup {None}
      /\ s.crypto \in DOMAIN Threshold
  BY <1>1 DEF Situation
<1>3. Threshold[s.crypto] \in Nat
  BY <1>2, CutpointsAssumption
<1>4. StayFair(s) \in 500 .. 1000
  BY <1>2, PhiAssumption DEF StayFair
<1>5. BbYes(s) \in 0 .. 1000 /\ BbFav(s) \in 0 .. 1000
  BY <1>4, <1>2 DEF BbYes, BbFav
<1>6. Mid(s) \in Int /\ BbDiv(s) \in Int
  <2>1. s.bid \in Int /\ s.ask \in Int
    BY <1>2 DEF MinFavorite
  <2>2. Mid(s) \in Int
    BY <2>1 DEF Mid
  <2>3. BbFav(s) \in Int
    BY <1>5
  <2>4. QED BY <2>2, <2>3 DEF BbDiv
<1>7. QED BY <1>2, <1>3, <1>4, <1>5, <1>6

(* What passes the vetoes on a ladder that is not crossed has spot on the    *)
(* side of the favourite.                                                    *)
LEMMA PassedIsOnSide ==
    ASSUME NEW s \in Observed, ~Vetoed(s), s.bid <= s.ask
    PROVE  s.side = "YES" <=> s.above
<1>1. BbDiv(s) \in Int /\ ~(BbDiv(s) > BbDivSkipAbove)
  BY FeatureTypes DEF Vetoed
<1>2. BbFav(s) > 500
  <2>1. Mid(s) \in Int /\ Mid(s) >= MinFavorite /\ BbFav(s) \in Int
    <3>1. /\ s.bid \in MinFavorite .. 1000 /\ s.ask \in 0 .. 1000
          /\ Mid(s) \in Int /\ BbFav(s) \in 0 .. 1000
      BY FeatureTypes, SMTT(30)
    <3>2. s.bid \in Int /\ s.ask \in Int /\ s.bid >= 750 /\ BbFav(s) \in Int
      BY <3>1, SMTT(30) DEF MinFavorite
    <3>3. s.bid + s.ask >= 1500 /\ s.bid + s.ask \in Int
      BY <3>2
    <3>4. Mid(s) >= 750
      BY <3>3, SMTT(30) DEF Mid
    <3>5. QED BY <3>1, <3>2, <3>4 DEF MinFavorite
  <2>2. Mid(s) - BbFav(s) <= BbDivSkipAbove
    BY <1>1, <2>1, CutpointsAssumption DEF BbDiv
  <2>3. QED BY <2>1, <2>2, CutpointsAssumption DEF MinFavorite
<1>3. s.side \in Sides /\ s.above \in BOOLEAN /\ StayFair(s) \in 500 .. 1000
  BY FeatureTypes
<1>4. QED BY <1>2, <1>3 DEF BbFav, BbYes, Sides

(* What a positive decision says: the vetoes are passed and the mode's size  *)
(* is positive.                                                              *)
LEMMA BuysByVerdict ==
    ASSUME Judged, NEW m \in Modes, decision[m] > 0
    PROVE  /\ situation \in Observed /\ ~Vetoed(situation)
           /\ decision[m] = Size(m, situation)
  BY DEF Judged, Verdict, Skip

(* Where the favourite's bid is not above its ask no mode ever buys the side *)
(* of the strike spot is not on, for every artifact (evaluate's gates        *)
(* together).                                                                *)
THEOREM OnSideOfSpot == Spec => []NeverAgainstSpot
<1>1. Judged => NeverAgainstSpot
  BY BuysByVerdict, PassedIsOnSide DEF NeverAgainstSpot
<1>2. QED BY <1>1, JudgedHolds, PTL

(* Four whole points of the score are only reached within the band.          *)
LEMMA FourPoints ==
    ASSUME NEW s \in Observed, Score(s) >= 8
    PROVE  DivBand(s) /\ (BpsStrong(s) \/ (s.side = "NO" /\ SuperBand(s)))
<1>1. BbDiv(s) \in Int
  BY FeatureTypes
<1>2. SuperBand(s) => DivBand(s)
  BY <1>1 DEF SuperBand, DivBand
<1>3. QED BY <1>2 DEF Score, Bit

(* The score is a natural number.                                            *)
LEMMA ScoreType == ASSUME NEW s PROVE Score(s) \in 0 .. 13
  BY DEF Score, Bit

(* A floor mode has no size below four points.                               *)
LEMMA FloorModesSkip ==
    ASSUME NEW s, NEW m \in FloorModes, Score(s) < 8
    PROVE  Size(m, s) = Skip
<1>1. CASE m \in {"5tier_v13b_h1h4", "5tier_v13b_7_10_10", "5tier_v13b_10_flat"}
  BY <1>1 DEF Size, H1H4, SevenTenTen, TenFlat, Tiered
<1>2. CASE m \in {"5tier_v13b_1to3_flat", "5tier_v13b_1to3_ramp"}
  BY <1>2 DEF Size, OneToThreeFlat, OneToThreeRamp, Tiered
<1>3. CASE m \in {"5tier_v13b_equity_1ct_flat", "5tier_v13b_commodity_1ct_flat"}
  BY <1>3 DEF Size, EquityFlat, CommodityFlat, Tiered
<1>4. CASE m = "5tier_v13b_btc_dnorm_gate"
  BY <1>4 DEF Size, DnormGate, Tiered
<1>5. QED BY <1>1, <1>2, <1>3, <1>4 DEF FloorModes

(* What a mode with the floor of 4.0 buys, it buys within the band and with  *)
(* one of the two strong signals, whatever the thresholds.                   *)
THEOREM FloorHolds == Spec => []FloorMeansConviction
<1>1. Judged => FloorMeansConviction
  <2>. SUFFICES ASSUME Judged, NEW m \in FloorModes, decision[m] > 0
                PROVE  /\ DivBand(situation)
                       /\ \/ BpsStrong(situation)
                          \/ situation.side = "NO" /\ SuperBand(situation)
    BY DEF FloorMeansConviction
  <2>1. situation \in Observed /\ Size(m, situation) > 0
    BY BuysByVerdict DEF Modes
  <2>2. Score(situation) >= 8
    BY <2>1, FloorModesSkip, ScoreType DEF Skip
  <2>3. QED BY <2>1, <2>2, FourPoints
<1>2. QED BY <1>1, JudgedHolds, PTL

(* From four points on the smooth multiplier gives at least seven contracts. *)
LEMMA SmoothIsPositive == ASSUME NEW s, Score(s) >= 8 PROVE Smooth(s) \in 7 .. 12
  BY ScoreType DEF Smooth, Clip

(* The loose mode of production buys as much as h1h4 where h1h4 buys, and    *)
(* elsewhere three contracts within the band in calm volatility, whatever    *)
(* the artifact.                                                             *)
THEOREM LooseHolds == Spec => []LooseExtendsH1H4
<1> DEFINE strict == "5tier_v13b_h1h4"
           loose  == "5tier_v13b_h1h4_loose"
           s2     == "5tier_v13b_s2"
<1>1. Judged => LooseExtendsH1H4
  <2>. SUFFICES ASSUME Judged PROVE LooseExtendsH1H4
    OBVIOUS
  <2>0. strict \in Modes /\ loose \in Modes /\ s2 \in Modes
    BY DEF Modes, FloorModes
  <2>1. CASE decision = [m \in Modes |-> Skip]
    BY <2>0, <2>1 DEF LooseExtendsH1H4, Skip
  <2>2. CASE decision = [m \in Modes |-> Verdict(m, situation)]
    <3>1. CASE Vetoed(situation)
      BY <2>0, <2>2, <3>1 DEF LooseExtendsH1H4, Verdict, Skip
    <3>2. CASE ~Vetoed(situation)
      <4>1. /\ decision[strict] = H1H4(situation)
            /\ decision[loose] = H1H4Loose(situation)
            /\ decision[s2] = S2(situation)
        BY <2>0, <2>2, <3>2 DEF Verdict, Size
      <4>2. Score(situation) \in 0 .. 13
        BY ScoreType
      <4>3. CASE ~SBps(situation) \/ Score(situation) < 8
        BY <4>1, <4>2, <4>3 DEF LooseExtendsH1H4, H1H4, H1H4Loose, S2, SVol, Skip
      <4>4. CASE SBps(situation) /\ Score(situation) >= 8
        BY <4>1, <4>2, <4>4, SmoothIsPositive DEF LooseExtendsH1H4, H1H4, H1H4Loose, Skip
      <4>5. QED BY <4>2, <4>3, <4>4
    <3>3. QED BY <3>1, <3>2
  <2>3. QED BY <2>1, <2>2 DEF Judged
<1>2. QED BY <1>1, JudgedHolds, PTL

(* The largest size of each mode; the tests and docs of a mode name its      *)
(* tiers, for the two smooth ones 10.                                        *)
Largest(m) == CASE m \in {"5tier_v13b_equity_1ct_flat",
                          "5tier_v13b_commodity_1ct_flat"}                -> 1
                [] m \in {"disabled", "2tier"}                            -> 2
                [] m \in {"3tier", "5tier_v13b_1to3_flat",
                          "5tier_v13b_1to3_ramp"}                         -> 3
                [] m \in {"5tier", "5tier_v13b"}                          -> 5
                [] m \in {"5tier_v13b_7_10_10", "5tier_v13b_10_flat",
                          "5tier_v13b_btc_dnorm_gate"}                    -> 10
                [] m \in {"5tier_v13b_s2", "5tier_v13b_h1h4",
                          "5tier_v13b_h1h4_loose"}                        -> 12

(* What evaluate returns is within the largest size of the mode it ran in.   *)
SizesWithin == \A m \in Modes : decision[m] \in 0 .. Largest(m)

LEMMA SmoothType == ASSUME NEW s PROVE Smooth(s) \in 0 .. 12
  BY ScoreType DEF Smooth, Clip

LEMMA ClipType == ASSUME NEW n \in Int PROVE Clip(n, 1, 5) \in 1 .. 5
  BY DEF Clip

LEMMA RoundType == ASSUME NEW n \in Nat PROVE RoundHalves(n) \in Int
  BY DEF RoundHalves

LEMMA SizeWithin == ASSUME NEW s, NEW m \in Modes PROVE Size(m, s) \in 0 .. Largest(m)
<1>0. Score(s) \in 0 .. 13
  BY ScoreType
<1>1. CASE m \in {"5tier_v13b_equity_1ct_flat", "5tier_v13b_commodity_1ct_flat"}
  <2>1. Largest(m) = 1
    BY <1>1 DEF Largest
  <2>2. Size(m, s) = Tiered(s, 1, 1, 1)
    BY <1>1 DEF Size, EquityFlat, CommodityFlat
  <2>3. QED BY <2>1, <2>2 DEF Tiered, Skip
<1>2. CASE m = "disabled"
  BY <1>2 DEF Size, Largest, Disabled
<1>3. CASE m \in {"2tier", "3tier"}
  <2>1. Alignment(s) \in 0 .. 3
    BY DEF Alignment, Bit
  <2>2. TwoTier(s) \in 0 .. 2 /\ ThreeTier(s) \in 0 .. 3
    BY <2>1 DEF TwoTier, ThreeTier, Skip
  <2>3. QED BY <1>3, <2>2 DEF Size, Largest
<1>4. CASE m \in {"5tier_v13b_1to3_flat", "5tier_v13b_1to3_ramp"}
  <2>1. Largest(m) = 3
    BY <1>4 DEF Largest
  <2>2. Size(m, s) \in {Tiered(s, 3, 3, 3), Tiered(s, 1, 2, 3)}
    BY <1>4 DEF Size, OneToThreeFlat, OneToThreeRamp
  <2>3. QED BY <2>1, <2>2 DEF Tiered, Skip
<1>5. CASE m = "5tier"
  <2> DEFINE score == 4 * Bit(DivBand(s)) + 2 * Bit(SVol(s))
                        + 3 * Bit(s.side = "YES") + 4 * Bit(BpsStrong(s))
  <2>1. score \in Nat
    BY DEF Bit
  <2>2. Clip(RoundHalves(score), 1, 5) \in 1 .. 5
    BY <2>1, RoundType, ClipType
  <2>3. FiveTier(s) \in 0 .. 5
    BY <2>2 DEF FiveTier, Skip
  <2>4. QED BY <1>5, <2>3 DEF Size, Largest
<1>6. CASE m = "5tier_v13b"
  <2>1. Clip(RoundHalves(Score(s)), 1, 5) \in 1 .. 5
    BY <1>0, RoundType, ClipType
  <2>2. V13b(s) \in 0 .. 5
    BY <2>1 DEF V13b, Skip
  <2>3. QED BY <1>6, <2>2 DEF Size, Largest
<1>7. CASE m \in {"5tier_v13b_7_10_10", "5tier_v13b_10_flat"}
  <2>1. Largest(m) = 10
    BY <1>7 DEF Largest
  <2>2. Size(m, s) \in {Tiered(s, 7, 10, 10), Tiered(s, 10, 10, 10)}
    BY <1>7 DEF Size, SevenTenTen, TenFlat
  <2>3. QED BY <2>1, <2>2 DEF Tiered, Skip
<1>8. CASE m = "5tier_v13b_btc_dnorm_gate"
  BY <1>8 DEF Size, Largest, DnormGate, Tiered, Skip
<1>9. CASE m \in {"5tier_v13b_s2", "5tier_v13b_h1h4", "5tier_v13b_h1h4_loose"}
  <2>1. S2(s) \in 0 .. 12 /\ H1H4(s) \in 0 .. 12 /\ H1H4Loose(s) \in 0 .. 12
    BY SmoothType DEF S2, H1H4, H1H4Loose, Skip
  <2>2. QED BY <1>9, <2>1 DEF Size, Largest
<1>10. QED
  BY <1>1, <1>2, <1>3, <1>4, <1>5, <1>6, <1>7, <1>8, <1>9 DEF Modes, FloorModes

(* No mode asks for more than its largest tier: with MaxSize = 12 the sizes  *)
(* FavoriteChase leaves open are those of any mode.                          *)
THEOREM SizesStayWithin == Spec => []SizesWithin
<1>1. Judged => SizesWithin
  <2>. SUFFICES ASSUME Judged, NEW m \in Modes PROVE decision[m] \in 0 .. Largest(m)
    BY DEF SizesWithin
  <2>1. decision[m] \in {Skip, Size(m, situation)}
    BY DEF Judged, Verdict
  <2>2. 0 \in 0 .. Largest(m)
    BY DEF Largest, Modes, FloorModes
  <2>3. QED BY <2>1, <2>2, SizeWithin DEF Skip
<1>2. QED BY <1>1, JudgedHolds, PTL

Gate == "5tier_v13b_btc_dnorm_gate"

(* What the modes buy, side by side: the floor modes buy the same situations *)
(* and differ in size only, the gate leaves out the d_norm of its band, and  *)
(* each relaxation adds situations and takes none away.                      *)
ModesNest ==
    LET Buys(m) == decision[m] > 0
    IN /\ \A m, n \in FloorModes \ {Gate} : Buys(m) <=> Buys(n)
       /\ \A m \in FloorModes : Buys(Gate) => Buys(m)
       /\ Buys(Gate) /\ situation.dNorm # None => situation.dNorm \notin 150 .. 200
       /\ Buys("5tier_v13b_h1h4") => Buys("5tier_v13b_h1h4_loose")
       /\ Buys("5tier_v13b_h1h4_loose") => Buys("5tier_v13b_s2")
       /\ Buys("5tier_v13b_s2") => Buys("5tier_v13b")

(* From four points on each floor mode but the gate buys.                    *)
LEMMA FloorModesBuy ==
    ASSUME NEW s, NEW m \in FloorModes \ {Gate}
    PROVE  Size(m, s) > 0 <=> SBps(s) /\ Score(s) >= 8
<1>0. Score(s) \in 0 .. 13 /\ (Score(s) >= 8 => Smooth(s) \in 7 .. 12)
  BY ScoreType, SmoothIsPositive
<1>1. CASE m \in {"5tier_v13b_h1h4"}
  BY <1>0, <1>1 DEF Size, H1H4, Skip
<1>2. CASE m \in {"5tier_v13b_7_10_10", "5tier_v13b_10_flat"}
  BY <1>0, <1>2 DEF Size, SevenTenTen, TenFlat, Tiered, Skip
<1>3. CASE m \in {"5tier_v13b_1to3_flat", "5tier_v13b_1to3_ramp"}
  BY <1>0, <1>3 DEF Size, OneToThreeFlat, OneToThreeRamp, Tiered, Skip
<1>4. CASE m \in {"5tier_v13b_equity_1ct_flat", "5tier_v13b_commodity_1ct_flat"}
  BY <1>0, <1>4 DEF Size, EquityFlat, CommodityFlat, Tiered, Skip
<1>5. QED BY <1>1, <1>2, <1>3, <1>4 DEF FloorModes, Gate

(* The modes of a family differ in what their names say and in nothing else, *)
(* whatever the artifact.                                                    *)
THEOREM FamilyNests == Spec => []ModesNest
<1>1. Judged => ModesNest
  <2>. SUFFICES ASSUME Judged PROVE ModesNest
    OBVIOUS
  <2>0. /\ FloorModes \subseteq Modes /\ Gate \in FloorModes
        /\ "5tier_v13b_h1h4" \in FloorModes \ {Gate}
        /\ {"5tier_v13b_h1h4_loose", "5tier_v13b_s2", "5tier_v13b"} \subseteq Modes
    BY DEF Modes, FloorModes, Gate
  <2>1. CASE decision = [m \in Modes |-> Skip]
    <3>1. \A m \in Modes : ~(decision[m] > 0)
      BY <2>1 DEF Skip
    <3>2. QED BY <2>0, <3>1 DEF ModesNest
  <2>2. CASE decision = [m \in Modes |-> Verdict(m, situation)]
    <3>1. CASE Vetoed(situation)
      <4>1. \A m \in Modes : ~(decision[m] > 0)
        BY <2>2, <3>1 DEF Verdict, Skip
      <4>2. QED BY <2>0, <4>1 DEF ModesNest
    <3>2. CASE ~Vetoed(situation)
      <4> DEFINE strong == SBps(situation) /\ Score(situation) >= 8
      <4>0. Score(situation) \in 0 .. 13 /\ \A m \in Modes : decision[m] = Size(m, situation)
        BY <2>2, <3>2, ScoreType DEF Verdict
      <4>1. \A m \in FloorModes \ {Gate} : decision[m] > 0 <=> strong
        BY <2>0, <4>0, FloorModesBuy
      <4>2. decision[Gate] > 0 =>
                /\ strong
                /\ situation.dNorm # None => situation.dNorm \notin 150 .. 200
        <5>1. decision[Gate] = DnormGate(situation)
          BY <2>0, <4>0 DEF Size, Gate
        <5>2. QED BY <4>0, <5>1 DEF DnormGate, Tiered, Skip
      <4>3. strong => decision["5tier_v13b_h1h4_loose"] > 0
        BY <2>0, <4>0, SmoothIsPositive DEF Size, H1H4Loose, Skip
      <4>4. decision["5tier_v13b_h1h4_loose"] > 0 => decision["5tier_v13b_s2"] > 0
        BY <2>0, <4>0 DEF Size, H1H4Loose, S2, Skip
      <4>5. decision["5tier_v13b_s2"] > 0 => decision["5tier_v13b"] > 0
        <5>1. RoundHalves(Score(situation)) \in Int
          BY <4>0, RoundType
        <5>2. Clip(RoundHalves(Score(situation)), 1, 5) > 0
          BY <5>1, ClipType
        <5>3. QED BY <2>0, <4>0, <5>2 DEF Size, S2, V13b, Skip
      <4> HIDE DEF strong
      <4>6. QED BY <2>0, <4>1, <4>2, <4>3, <4>4, <4>5 DEF ModesNest
    <3>3. QED BY <3>1, <3>2
  <2>3. QED BY <2>1, <2>2 DEF Judged
<1>2. QED BY <1>1, JudgedHolds, PTL
=============================================================================
