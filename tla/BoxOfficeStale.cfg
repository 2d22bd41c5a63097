CONSTANTS
    SeatCount = 2
    Charges = {c1, c2}
    Buyers = {b}
    PageSize = 1
    MaxTopic = 1
    MaxElsewhere = 1
    MaxAsked = 2
    Nothing = Nothing
SPECIFICATION FairSpec
PROPERTIES RefundStaysShown
CHECK_DEADLOCK FALSE
