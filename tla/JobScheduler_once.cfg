SPECIFICATION Spec
CONSTANTS
    Node = {n1}
    n1 = n1
    n2 = n2
    j1 = j1
    j2 = j2
    e1 = e1
    e2 = e2
    Job = {j1}
    Executor = {e1}
    NoJob = NoJob
    NoExecutor = NoExecutor
    NoNode = NoNode
    Strategy = "RANDOM"
    MaxLoad = 2
    PendingLimit = 10
    MaxDispatch = 2
    Bound <- NoBound
    Once <- OnceJobs
    Priority <- JobOrder
INVARIANTS
    OnceSentOnce
