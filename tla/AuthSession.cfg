\* One user with a session and a reset token, one without an account; three more
\* requests.
CONSTANTS
    u1 = u1
    u2 = u2
    p1 = p1
    p2 = p2
    Users = {u1, u2}
    Calls = {p1, p2, r1, r2, r3}
    None = None
    Past <- PastOfOne
    Mortal <- OldTokens
SYMMETRY Symmetry
SPECIFICATION Spec
INVARIANTS
    TypeOK
    OneUsePerRefreshToken
    LogoutIsFinal
    ResetEndsSessions
    OneResetPerVersion
