CONSTANTS
    Seats = {a, b}
    MaxPicks = 1
    MaxOrders = 2
    MaxTopic = 1
    MaxElsewhere = 1
    MaxAsked = 2
    Nothing = Nothing
SPECIFICATION MapSpec
INVARIANT MapStaysHonest
