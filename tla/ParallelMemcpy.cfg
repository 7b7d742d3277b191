SPECIFICATION Spec
CONSTANTS
    MaxThreads = 4
CHECK_DEADLOCK FALSE
INVARIANTS BarrierHolds
PROPERTIES OvertakenForGood ReturnsUnlessOvertaken
