\* Two users, two addresses, four requests that overlap in every way.
CONSTANTS
    Users = {u1, u2}
    Addresses = {a1, a2}
    Slots = {p1}
    Calls = {r1, r2, r3, r4}
    NoRow = NoRow
SYMMETRY Symmetry
SPECIFICATION Spec
CONSTRAINT RightKind
INVARIANTS
    TypeOK
    EveryServerHasItsTask
    SavesStayWithTheirOwner
    AnswersWereRight
PROPERTY OnlyOwnersChangeRows
