CONSTANTS
    o1 = o1
    o2 = o2
    u1 = u1
    u2 = u2
    s1 = s1
    s2 = s2
    Order = {o1, o2}
    User = {u1}
    TicketType = {1}
    Slot = {s1, s2}
    Owner <- Regular
    Items <- Single
    Total <- One
    MaxPerUser <- Two
    SeedValue = {0, 1}
    CountValue = {0, 1}
    Quantity = {1}
    PerOrder = 1
    Calls = {"cancel", "cronPaid", "cronExpired", "success"}
    Faults = {}
    MaxTries = 2
    MaxCrashes = 2
SPECIFICATION Spec
INVARIANTS IssuedOnce
PROPERTIES StoreSpec
CHECK_DEADLOCK FALSE
SYMMETRY SlotSymmetry
