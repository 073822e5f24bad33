CONSTANTS
    Writers = {w1}
    Groups = {1,2}
    Forums = {1,3}
    KeySize = 2
    MaxChanges = 2
SPECIFICATION FairSpec
INVARIANTS ColdIsCurrent ColdForumsCurrent SharersSeeAlike
PROPERTY GoesCold
