CONSTANTS
    Codes = {"A"}
    MaxRows = 2
    RowChoices = {2, 3}
    SeatChoices = {2}
    MaxTiers = 2
    MaxSections = 2
    MaxElsewhere = 1
    MaxAsked = 1
    Nothing = Nothing
SPECIFICATION DeskFairSpec
INVARIANTS DeskTypeOK PreviewIsGenerated
PROPERTY RefusalIsExplained
CHECK_DEADLOCK FALSE
