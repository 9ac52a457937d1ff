SPECIFICATION FairSpec
CONSTANTS
    e1 = e1
    e2 = e2
    j1 = j1
    j2 = j2
    Executor = {e1}
    Job = {j1, j2}
    MaxSubmit = 2
    MaxCancel = 2
    MaxFault = 1
    MaxOrder = 1
INVARIANTS
    TypeOK
    NothingForgotten
    AnsweredOnce
    CancelledNotRun
PROPERTIES
    WithdrawnIsIdle
    
    SubmittedIsAnswered
CHECK_DEADLOCK FALSE
