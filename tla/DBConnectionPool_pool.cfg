SPECIFICATION FairSpec
CONSTANTS
    Thread = {t1, t2, t3, t4}
    InitialSize = 1
    MaxSize = 2
    MaxOutages = 2
INVARIANTS TypeOK ActiveIsLent ShutdownWakesAll
PROPERTIES LendsWithinLimit NoLoanAfterShutdown WaitEnds
CHECK_DEADLOCK FALSE
