SPECIFICATION Spec
CONSTANTS
    Outputs = {DP1, DP2}
    Contexts = {rain}
    Playlists = {p}
    None = None
    Limits <- MCLimits
SYMMETRY MCSymmetry
CHECK_DEADLOCK FALSE
INVARIANTS TypeOK PlaylistsKept Coherent
PROPERTY RestoreYields
