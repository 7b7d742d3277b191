SPECIFICATION Spec
CONSTANTS
    Producers = {p1, p2}
    Sizes = {1, 2}
    MaxPackets = 4
    CounterRange = 3
INVARIANTS NoLostWakeup ExactlyOnceInOrder SignalsBounded
INVARIANTS BatchCompleted CountersBalance
PROPERTIES StopReturns ImplementsChannel
