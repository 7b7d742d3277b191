SPECIFICATION SequentialSpec
CONSTANTS
    num_buckets = 3
    Delays = {0, 1, 2, 3, 4, 7}
    MaxTasks = 3
    MaxTicks = 9
    Levels = 3
    TopBlocks = 2
    MaxSize = 5
    MaxHeap = 1
    Capacity = 2
    Wrap = 6
    MaxPosted = 11
    Blocks = 3
    MaxChunks = 3
    MaxSegments = 2
    Null = null
    Data = data
    Mutexes = {a, b, c}
    None = none
    MaxHeld = 3
CHECK_DEADLOCK FALSE
INVARIANTS AllTypeOK RunsOnceOnItsTick SameTickInOrder BuddiesSound  PoolsSound ReportsWhatRootReaches
