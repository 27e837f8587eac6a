CONSTANTS
    o1 = o1
    o2 = o2
    u1 = u1
    u2 = u2
    s1 = s1
    s2 = s2
    Order = {o1, o2}
    User = {u1}
    TicketType = {1}
    Slot = {s1, s2}
    Owner <- Regular
    Items <- Single
    Total <- One
    MaxPerUser <- Two
    SeedValue = {0, 1}
    CountValue = {0, 1}
    Quantity = {1}
    PerOrder = 2
    Calls = {"cancel", "success", "failed"}
    Faults = {"gateway"}
    MaxTries = 2
    MaxCrashes = 0
SPECIFICATION Spec
INVARIANTS NoOvercommit CountersMatchTickets NoOrphanHold
CHECK_DEADLOCK FALSE
SYMMETRY SlotSymmetry
