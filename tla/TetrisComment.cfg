SPECIFICATION TimedSpec
CONSTANTS
    Interfaces = 2
    Flows = 2
    Size <- MCSize
    MaxSize = 12
    Interval <- MCInterval
    Rate = 1
    MaxBucketSize = 3
    BatchCapacity = 3
    Second = 2
    StartOfClock = 20
    StartTime = 21
    MaxTime = 31
    FrameCounts = {0, 1, 4}
    FrameIntervals = {0, 1, 2}
    BurstLimit = 2
    MaxStreamTime = 9
    MaxSetBacks = 1
    Width = 2
    Height = 3
    Grids <- MCGrids
    Turns = 2
    Timers = {t1, t2, t3}
    Edt = edt
    MaxOverlaps = 1
    MaxAbove = 1
CHECK_DEADLOCK FALSE
INVARIANTS OneRowPerInterval
