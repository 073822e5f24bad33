CONSTANTS
    t1 = t1
    t2 = t2
    r1 = r1
    r2 = r2
    f1 = f1
    u1 = u1
    Threads = {th1, th2}
    Forums = {f1, f2}
    Topics = {t1, t2}
    Replies = {r1, r2}
    Users = {u1, u2}
    None = None
    MaxOps = 3
    MaxRestarts = 1
SYMMETRY Symmetry
SPECIFICATION MCSpec
INVARIANTS TypeOK PostsCounted TopicsCounted LikesCounted StraysHaveCause CachedReplyHasTopic
CHECK_DEADLOCK FALSE
