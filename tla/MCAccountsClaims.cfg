\* One claim at a time: the others are commented out.
SPECIFICATION Spec
CONSTANTS
    admin = admin
    waits = waits
    joins = joins
    a1 = a1
    a2 = a2
    a3 = a3
    p1 = p1
    p2 = p2
    Names = {admin, waits, joins}
    Emails = {a1, a2, a3}
    Passwords = {p1, p2}
    Seeds <- TestData
    DbFails = TRUE
    SeedFails = TRUE
    None = None
    Handlers = {h1, h2, h3}
    MaxRestarts = 2
SYMMETRY Symmetry
INVARIANTS
    AdminExists
    \* SeedsComplete
CHECK_DEADLOCK FALSE
