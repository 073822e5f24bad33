CONSTANTS
    r1 = r1
    r2 = r2
    Requests = {r1,r2}
    MaxBumps = 2
    None = None
SPECIFICATION FairSpec
INVARIANTS TypeOK BumpsConserved LossIsLate
PROPERTIES BumpsAreAccounted BumpsSettle
