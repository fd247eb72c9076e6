CONSTANTS
    deferred = deferred
    intent = intent
    rotation = rotation
    restore = restore
    hotplug = hotplug
    override = override
    every = every
    o1 = o1
    o2 = o2
    Attempts = {deferred, intent, every, rotation, override, restore, hotplug}
    Casts <- MCCasts
    Mode <- MCMode
    OutputOf <- MCOutputOf
    Outputs = {o1, o2}
    OutputOrder <- MCOutputOrder
    All = All
    Lockable = {o2}
    MaxTries = 2
    Free = Free
    Blank = Blank
    Old = Old
SPECIFICATION Spec
INVARIANTS TypeOK AuthorityIsExclusive StoresAgree
PROPERTIES NewestWins LockedOutputsKept RestoreYields EveryAttemptEnds
