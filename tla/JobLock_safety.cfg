SPECIFICATION Spec
CONSTANTS
    Owner = {o1, o2}
    Duration = {1, 2}
    MaxTime = 4
SYMMETRY OwnerSymmetry
INVARIANT TypeOK
PROPERTY OneHolder
