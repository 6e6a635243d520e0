SPECIFICATION Spec
CONSTANTS
    Spans = {1, 2, 3}
    Prices = {1, 2, 3, 4}
    Threshold = 1
    MaxCandles = 5
INVARIANTS CountedOnce MacdComparesNeighbours PointsAlternate RoundTripsGain
CHECK_DEADLOCK FALSE
