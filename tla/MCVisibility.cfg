CONSTANTS
    Threads = {t1,t2}
    Groups = {g1}
    Forums = {1,2}
    None = None
    MaxWrites = 3
SYMMETRY Symmetry
SPECIFICATION Spec
INVARIANTS RowsHaveCause PermsHaveCause SeenHasCause
