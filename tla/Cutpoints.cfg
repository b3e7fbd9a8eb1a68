SPECIFICATION Spec
CONSTANTS
    none = none
    None = none
    Observed <- MCObserved
    Phi <- MCPhi
    Threshold <- MCThreshold
    VolSkipAbove = 80
    VolUpsizeBelow = 50
    BbDivSkipAbove = 90
    BbDivUpsizeBelow <- MCUpsizeBelow
    TimeOfDaySkip = TRUE
INVARIANTS NeverAgainstSpot FloorMeansConviction LooseExtendsH1H4
