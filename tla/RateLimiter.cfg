\* Five requests, two at a time, in a window of a second and three quarters, with a
\* clock that may be ahead and answers that may be late.
CONSTANTS
    r1 = r1
    r2 = r2
    r3 = r3
    r4 = r4
    r5 = r5
    Requests = {r1, r2, r3, r4, r5}
    Limit = 2
    Window = 7
    Second = 4
    Ahead = 1
    Behind = 1
    Horizon = 10
SYMMETRY Symmetry
SPECIFICATION Spec
INVARIANT
    LimitHolds
