SPECIFICATION Spec
CONSTANTS
    TimedConsumers = {t1}
    PlainConsumers = {}
    Capacity = 2
    MaxItems = 5
PROPERTIES QueueWasEmpty
