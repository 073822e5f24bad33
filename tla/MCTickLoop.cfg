CONSTANTS
    v1 = v1
    v2 = v2
    v3 = v3
    t1 = t1
    t2 = t2
    Views = {v1, v2, v3}
    Topics = {t1, t2}
    TopicOf <- TwoAndOne
    None = None
    Slow = {"loop"}
SPECIFICATION FairSpec
INVARIANTS LoopTypeOK DownHasCause
PROPERTIES ViewsAreAccounted TicksEnd ViewsSettle
CHECK_DEADLOCK FALSE
