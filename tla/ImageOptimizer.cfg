CONSTANTS
    png = png
    jpg = jpg
    webp = webp
    manual = manual
    automatic = automatic
    Sources = {png, jpg}
    Destination = webp
    First = png
    Kicks = {manual, automatic}
    Wish <- MCWish
    LastContent = 3
    Slots <- MCSlots
    Scenarios <- MCScenarios
SPECIFICATION Spec
INVARIANTS TypeOK ReferencesFollow
PROPERTIES OriginalsKept EveryKickServed
