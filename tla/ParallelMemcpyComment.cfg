SPECIFICATION Spec
CONSTANTS
    MaxThreads = 3
CHECK_DEADLOCK FALSE
PROPERTIES WaitEnds
