CONSTANTS
    f1 = f1
    f2 = f2
    v1 = v1
    Refresh = {f1, f2}
    Viewer = {v1}
    Seats = 2
    MaxChanges = 2
    MaxLoads = 1
SPECIFICATION SeatSpec
PROPERTIES MapsCatchUp
CHECK_DEADLOCK FALSE
