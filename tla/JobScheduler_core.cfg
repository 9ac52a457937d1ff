SPECIFICATION Spec
CONSTANTS
    Node = {n1}
    n1 = n1
    n2 = n2
    j1 = j1
    j2 = j2
    e1 = e1
    e2 = e2
    Job = {j1, j2}
    Executor = {e1, e2}
    NoJob = NoJob
    NoExecutor = NoExecutor
    NoNode = NoNode
    Strategy = "LEAST_LOAD"
    MaxLoad = 1
    PendingLimit = 10
    MaxDispatch = 1
    Bound <- CoreBound
    Once <- OnceJobs
    Priority <- JobOrder
INVARIANTS
    TypeOK
    LoadWithinMax
    RecordedBeforeSent
    AtMostOneLateSend
    ResultRecorded
PROPERTY LifeOfJob
SYMMETRY AlikeExecutors
