CONSTANTS
    e1 = e1
    e2 = e2
    t1 = t1
    Tickets = {t1}
    Events = {e1, e2}
    EventOf <- MCEventOf
    NoEvent = NoEvent
    Garbage = {}
    Presses = {s1}
    NoStart = NoStart
    Scans = {r1}
    NoScan = NoScan
    IsAdmin = TRUE
SPECIFICATION DeviceFairSpec
PROPERTIES CameraScansThisGate CountSettles
