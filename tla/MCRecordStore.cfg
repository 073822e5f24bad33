CONSTANTS
    t1 = t1
    t2 = t2
    u = u
    a = a
    b = b
    Threads = {t1,t2}
    Users = {u}
    Topics = {a,b}
    Capacity = 1
    MaxVersion = 2
    None = None
SYMMETRY Symmetry
SPECIFICATION Spec
INVARIANTS StaleHasCause
