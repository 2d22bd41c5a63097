CONSTANTS
    Codes = {"A", "B"}
    MaxRows = 2
    RowChoices = {2, 3}
    SeatChoices = {2}
    MaxTiers = 1
    MaxSections = 1
    MaxElsewhere = 1
    MaxAsked = 1
    Nothing = Nothing
SPECIFICATION DeskFairSpec
INVARIANTS TierIsKnown LayoutOnce
CHECK_DEADLOCK FALSE
