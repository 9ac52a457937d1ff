SPECIFICATION Spec
CONSTANTS
    r1 = r1
    r2 = r2
    Request = {r1, r2}
    Executor = {"e1"}
    Modulus = 8
    Times = {1, 2}
    MaxCalls = 3
INVARIANTS
    TypeOK
    SerialWhenQuiet
    TrapsOnlyUnderReset
SYMMETRY Alike
CHECK_DEADLOCK FALSE
