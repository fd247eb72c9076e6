SPECIFICATION FairSpec
CONSTANTS
    a = a
    b = b
    c = c
    Nobody = 0
    Blank = Blank
    Pids = {1, 2, 3, 4, 5}
    Outputs <- Two
    OutputOrder <- Order
    Kind <- Kinds
    Requests <- Asked
    MultiProcess = TRUE
    MaxExits = 1
    MaxRequests = 2
CHECK_DEADLOCK FALSE
INVARIANTS TypeOK Owned OneRenderer
PROPERTIES AllOrNothing CommitCovers Settles
