CONSTANTS
    a1 = a1
    a2 = a2
    b1 = b1
    b2 = b2
    c1 = c1
    Requests = {a1, a2, b1, b2, c1}
    KeyOf <- MCKeyOf
    ActivityOf <- MCActivityOf
    MaxPending = 2
    None = None
SPECIFICATION Spec
INVARIANTS TypeOK RunnerCoversQueue AnsweredOnce
PROPERTIES CancelsRestoreIffAccepted EveryRequestAnswered LatestOfEachKey
