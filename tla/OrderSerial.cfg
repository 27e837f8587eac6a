CONSTANTS
    o1 = o1
    o2 = o2
    u1 = u1
    u2 = u2
    s1 = s1
    s2 = s2
    Order = {o1, o2}
    User = {u1}
    TicketType = {1}
    Slot = {s1, s2}
    Owner <- Regular
    Items <- Single
    Total <- Two
    MaxPerUser <- One
    SeedValue = {0, 1, 2}
    CountValue = {0, 1, 2}
    Quantity = {1}
    PerOrder = 1
    Calls = {"cancel", "repay", "success", "failed", "timeout", "cronPaid", "cronFailed", "cronExpired"}
    Faults = {}
    MaxTries = 2
    MaxCrashes = 0
SPECIFICATION Spec
INVARIANTS StockFollowsOrders TicketsWithinLimit
PROPERTIES SaleSpec DecisionsFinal
CHECK_DEADLOCK FALSE
SYMMETRY SlotSymmetry
