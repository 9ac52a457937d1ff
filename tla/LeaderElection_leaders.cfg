SPECIFICATION Spec
CONSTANTS
    n1 = n1
    n2 = n2
    Node = {n1, n2}
    Nobody = Nobody
    MaxLoss = 0
    MaxCrash = 0
INVARIANTS
    OneLeader
