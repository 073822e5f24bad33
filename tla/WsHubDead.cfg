CONSTANTS
    c1 = c1
    c2 = c2
    c3 = c3
    u1 = u1
    None = None
    Conns = {c1}
    Users = {u1}
    UserOf <- OneUser
    Fragile = {c1}
    Pinging = TRUE
SPECIFICATION FairSpec
PROPERTY DeadSocketsHandled
CHECK_DEADLOCK FALSE
