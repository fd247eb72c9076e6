SPECIFICATION Spec
CONSTANTS
    a = a
    b = b
    c = c
    Nobody = 0
    Blank = Blank
    Pids = {1, 2, 3, 4, 5}
    Outputs <- Three
    OutputOrder <- OrderOfThree
    Kind <- Kinds
    Requests <- Divided
    MultiProcess = TRUE
    MaxExits = 1
    MaxRequests = 2
CHECK_DEADLOCK FALSE
PROPERTY SurvivesConnected
