\* A server deleted while a save is being created on it.
CONSTANTS
    Users = {u1, u2}
    Addresses = {a1, a2}
    Slots = {p1}
    Calls = {r1, r2, r3}
    NoRow = NoRow
SYMMETRY Symmetry
SPECIFICATION Spec
INVARIANT NoOrphanSave
