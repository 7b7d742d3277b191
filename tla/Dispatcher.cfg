SPECIFICATION DispatcherSpec
CONSTANTS
    Clients = {c1, c2, c3}
    Workers = {w1, w2}
    None = none
    Tasks = {}
    Scheduled = {}
    Throwing = {}
    Quit = quit
CHECK_DEADLOCK FALSE
INVARIANTS AnswerIsMine HandOverReachesSolicitor MissedBlocksEverybody
PROPERTIES AnsweredUnlessMissed
