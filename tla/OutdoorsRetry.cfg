SPECIFICATION Spec
CONSTANTS
    Outputs = {DP1, DP2}
    Contexts = {rain}
    Playlists = {p}
    None = None
    Limits <- MCLimits
CHECK_DEADLOCK FALSE
INVARIANT FailedIsDue
