SPECIFICATION Spec
CONSTANTS
    TimedConsumers = {t1, t2}
    PlainConsumers = {u}
    Capacity = 2
    MaxItems = 4
INVARIANTS NoItemLostOrDuplicated QueueInOrder
PROPERTIES OnlyTheBufferOvertakes AllItemsPopped
