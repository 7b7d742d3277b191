SPECIFICATION Spec
CONSTANTS
    Tasks = {a, b, c, d}
    Scheduled = {c, d}
    Throwing = {b}
    Quit = quit
INVARIANTS RunInDispatchOrder QuitDrains
PROPERTIES FuturesAnswered DestructorReturns
