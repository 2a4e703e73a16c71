CONSTANTS
    MaxLen = 8
    Numbers <- MCNumbers
    NaN = NaN
SPECIFICATION ChartSpec
INVARIANTS
    ChartInv
    LonePeakKept
