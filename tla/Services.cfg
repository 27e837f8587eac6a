SPECIFICATION Spec
CONSTANTS
    o1 = o1  o2 = o2  a1 = a1  a2 = a2
    Buyer = {o1, o2}  Admin = {a1, a2}  TotalQty = {1, 2}  MaxEdits = 2
    ga = ga  gb = gb  gc = gc  c1 = c1  c2 = c2
    Gate = {ga, gb, gc}  Name = {1, 2}  GateTicket = {1, 2}
    ConcertOf <- MCConcertOf  Call = {c1, c2}  MaxCalls = 2
    s1 = s1  s2 = s2
    Sched = {s1, s2}  RemindAt = {1, 2}  Attempts = 2  Batch = 2  MaxNow = 2  MaxUpdates = 2
    fa = fa  fb = fb  fp = fp  ea = ea  eb = eb  none = none
    File = {fa, fb, fp}  Queue <- MCQueue  CsvRows <- MCCsvRows  NoMail = none
    Tries = 2  MaxFaults = 1
    r1 = r1  r2 = r2  r3 = r3  k1 = k1  k2 = k2  b1 = b1  p1 = p1
    Req = {r1, r2, r3}  Key = {k1, k2}  Body = {b1, p1}  HandlerOf <- MCHandlerOf
    Nobody = none  NoBody = none  Unkeyed = none  MaxPresses = 2
    u1 = u1  anyone = anyone  ip1 = ip1
    Client = {u1, anyone}  Ip = {ip1}  Cap = 3  Rate = 1  Need = 2
    MaxLag = 1  MaxTime = 5  MaxSpent = 6
    w1 = w1  w2 = w2
    Reader = {r1}  Writer = {w1, w2}  MaxWrites = 2  MaxLapses = 1
    f1 = f1  f2 = f2  v1 = v1
    Seats = 2  Refresh = {f1, f2}  Viewer = {v1}  MaxChanges = 2  MaxLoads = 1
    t1 = t1  t2 = t2
    Tab = {t1, t2}  Threshold = 1  MaxJoins = 3  MaxRestarts = 1
    d1 = d1  d2 = d2  ua = ua  ub = ub
    ShopTab = {t1, t2}  Fetch = {d1, d2}  Customer = {ua, ub}  NoCustomer = none
    MaxLogins = 2  MaxReloads = 1
    za = za  zb = zb
    Area = {za, zb}  Places = 2  MaxPerUser = 2  NoArea = none
    Event = {za, zb}  NoEvent = none  MaxRows = 2  MaxTiers = 1  MaxSaves = 2
    Tier = {ea, eb}  MaxForms = 2
    x1 = x1  x2 = x2
    Run = {x1, x2}  ByHand = {x2}  Old = none  SeatsPerType = 2  MaxStrays = 2
INVARIANTS
    TypesOK
    RoomUnlessSqueezed
    StockUnlessDrifted
    TicketsAtGates
    ReminderOnTime
    GuestsListedOnce
    RunsOnceUnlessRaced
    WithinRate
    StaleUnlessMissed
    ZoneCacheUnlessMissed
    NoSecondOrder
    SessionUnlessCrossed
    SeatsMatchOrder
    DeskAsTold
PROPERTIES
    RebalanceSpreads
    TurnNotRenewed
    AbandonedKeepRoomShut
    ResetLeavesSeed
CHECK_DEADLOCK FALSE
