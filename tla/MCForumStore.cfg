CONSTANTS
    Threads = {t1,t2}
    Forums = {1,2}
    ReportForum = 1
    None = None
    MaxWrites = 2
SYMMETRY Symmetry
SPECIFICATION Spec
INVARIANTS ViewHasCause MapHasCause
