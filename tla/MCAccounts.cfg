SPECIFICATION Spec
CONSTANTS
    admin = admin
    waits = waits
    joins = joins
    a1 = a1
    a2 = a2
    a3 = a3
    p1 = p1
    p2 = p2
    Names = {admin, waits, joins}
    Emails = {a1, a2, a3}
    Passwords = {p1, p2}
    Seeds <- TestData
    DbFails = TRUE
    SeedFails = FALSE
    None = None
    Handlers = {h1, h2, h3}
    MaxRestarts = 2
SYMMETRY Symmetry
INVARIANTS
    TypeOK
    SuccessOwns
    RolesCurrent
    AdminExists
CHECK_DEADLOCK FALSE
