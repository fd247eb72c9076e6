SPECIFICATION Spec
CONSTANTS
    a = a
    b = b
    local = local
    share = share
    Roots = {local, share}
    Paths = {a, b}
    RootOf <- MCRootOf
    Settings = {"fallback", "plain"}
    Fallback = {"fallback"}
    Scanners = {s1, s2}
    Ids = {i1, i2, i3}
    None = None
    LastTime = 5
    Scenarios <- MCScenarios
SYMMETRY MCSymmetry
CHECK_DEADLOCK FALSE
INVARIANTS TypeOK Covered NativeIsEarned StatusHasReason
