CONSTANTS
    Threads = {t1, t2, t3}
    Topics = {k1, k2, k3, k4}
    Capacity = 3
    MaxFlushes = 1
SYMMETRY Symmetry
SPECIFICATION TopicSpec
INVARIANTS LengthAccounts CapacityRespected
