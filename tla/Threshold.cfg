\* The chart of client_utility/constants.ts.
SPECIFICATION MCSpec
CONSTANTS
    Chart <- RealChart
    KaminoGrowths <- MCKaminoGrowths
    MaxGrowth = 900
INVARIANTS
    BetterMarketGetsMore
    ShareFollowsGrowth
\* The climb ends at MaxGrowth.
CHECK_DEADLOCK FALSE
