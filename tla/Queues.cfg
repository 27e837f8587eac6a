CONSTANTS
    d1 = d1
    d2 = d2
    s1 = s1
    s2 = s2
    good = good
    stale = stale
    foreign = foreign
    t1 = t1
    t2 = t2
    Device = {d1}
    Slot = {s1, s2}
    Code = {good, stale, foreign}
    Ticket = {t1, t2}
    TicketOf <- MCTicketOf
    Known = {t1}
    Current = {good}
    SameGate <- AnyGate
    MaxScans <- TwoAndOne
    MaxDrops = 1
    MaxCrashes = 1
    fa = fa  fb = fb  fp = fp  ea = ea  eb = eb  none = none
    File = {fa, fb}  Queue <- MCQueue  CsvRows <- MCCsvRows  NoMail = none
    Tries = 2  MaxFaults = 1
SPECIFICATION QueueSpec
PROPERTIES QueueDrains QueuedFilesEnd
CHECK_DEADLOCK FALSE
