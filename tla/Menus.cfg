SPECIFICATION Spec
CONSTANTS
    m1 = m1
    m2 = m2
    Names = {1, 2, 3}
    UnitOf <- MCUnitOf
    Messages = {m1, m2}
    PageSize = 1
    MaxAttempts = 2
    Tokens = {1, 2, 3, 4, 5}
    MaxFailures = 1
    MaxChanges = 1
SYMMETRY Symmetry
PROPERTIES RefusedOnlyIfStale AppliedIsShown
