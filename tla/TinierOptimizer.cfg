CONSTANTS
    apply = apply
    again = again
    other = other
    stop = stop
    s1 = s1
    s2 = s2
    Requests = {apply, again, other}
    Stops = {stop}
    Sources = {s1, s2}
    SourceOf <- MCSourceOf
    Replaces = {apply, other}
    None = None
SPECIFICATION Spec
INVARIANTS QueueOrder
PROPERTIES EveryPreparationAnswered StopTakes
