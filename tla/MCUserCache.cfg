CONSTANTS
    Threads = {t1, t2}
    Users = {u1, u2, u3}
    NoUser = NoUser
    Capacities = {0, 1}
    MaxCapacity = 1
    EvictSlots = 1
    PrioritySlots = 2
    MaxResets = 1
SPECIFICATION CacheFairSpec
INVARIANTS LengthAccounts OverrunBounded 
PROPERTY OverflowDrains
