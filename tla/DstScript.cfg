\* Two slots, loops that look twice before the last time, two attempts at a download.
CONSTANTS
    s1 = s1
    s2 = s2
    Slots = {s1, s2}
    NoSlot = NoSlot
    Patience = 2
    Attempts = 2
SPECIFICATION FairSpec
INVARIANT
    MarkerVouches
PROPERTIES
    StopStops
    PlayedWorldsAreSafe
    EveryScriptEnds
