CONSTANTS
    d1 = d1
    d2 = d2
    s1 = s1
    s2 = s2
    good = good
    stale = stale
    foreign = foreign
    t1 = t1
    t2 = t2
    Device = {d1, d2}
    Slot = {s1, s2}
    Code = {good, foreign}
    Ticket = {t1, t2}
    TicketOf <- MCTicketOf
    Known = {t1}
    Current = {good}
    SameGate <- AnyGate
    MaxScans <- TwoAndOne
    MaxDrops = 1
    MaxCrashes = 1
SPECIFICATION OneFaultSpec
INVARIANTS OneSuccess SyncedIsLogged NoScanLost OfflineOnce UnknownBlocksQueue LogTellsTruth
SYMMETRY SlotSymmetry
CHECK_DEADLOCK FALSE
