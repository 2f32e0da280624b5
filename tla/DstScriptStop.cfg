\* A stop of a slot that was started again beside a Caves that had outlived its
\* Master.
CONSTANTS
    s1 = s1
    s2 = s2
    Slots = {s1, s2}
    NoSlot = NoSlot
    Patience = 1
    Attempts = 1
SPECIFICATION Spec
PROPERTY StopMeansStopped
