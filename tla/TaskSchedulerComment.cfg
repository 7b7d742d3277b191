SPECIFICATION Spec
CONSTANTS
    Tasks = {a, b, c}
    Scheduled = {b, c}
    Throwing = {}
    Quit = quit
INVARIANTS ScheduledAreCancelled
