CONSTANTS
    o1 = o1
    o2 = o2
    o3 = o3
    u1 = u1
    u2 = u2
    Order <- MCOrder
    User <- MCUser
    TicketType <- MCTicketType
    MaxPerUser <- MCMaxPerUser
    SeedValue = {0, 2}
    CountValue <- MCCountValue
    Quantity = {1, 2}
SPECIFICATION StoreSpec
INVARIANTS CountersConserved LimitRespected
CHECK_DEADLOCK FALSE
SYMMETRY Symmetry
