CONSTANTS
    c1 = c1
    c2 = c2
    c3 = c3
    u1 = u1
    None = None
    Conns = {c1, c2, c3}
    Users = {u1}
    UserOf <- OneUser
    Fragile = {c1, c2, c3}
    Pinging = TRUE
SYMMETRY Symmetry
SPECIFICATION Spec
INVARIANTS TypeOK OpenIsReachable NoGhostUsers
CHECK_DEADLOCK FALSE
