\* An update of a server of which one shard has died.
CONSTANTS
    s1 = s1
    s2 = s2
    Slots = {s1, s2}
    NoSlot = NoSlot
    Patience = 1
    Attempts = 1
SPECIFICATION Spec
PROPERTY UpdateOnlyWhenAllStopped
