SPECIFICATION FairSpec
CONSTANTS
    n1 = n1
    n2 = n2
    Node = {n1, n2}
    Nobody = Nobody
    MaxLoss = 2
    MaxCrash = 2
INVARIANTS
    TypeOK
PROPERTIES
    JoiningDisturbsNobody
    CutOffStepsDown
    SomeoneLeads
