SPECIFICATION ActorSpec
CONSTANTS
    Tasks = {a, b, c, d}
    None = none
    Scheduled = {}
    Throwing = {}
    Quit = quit
    Clients = {}
    Workers = {}
INVARIANTS CalledInOrder FewCallsAfterQuit
PROPERTIES EveryFutureAnswered ActorIsDestroyed
