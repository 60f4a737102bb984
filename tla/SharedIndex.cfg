CONSTANTS
    ws1 = ws1
    ws2 = ws2
    ws3 = ws3
    sse = sse
    room = room
    Clients <- MCClients
    Keys = {room}
    KeyOf <- MCKeyOf
    Unstable = {sse}
SPECIFICATION Spec
INVARIANTS TypeOK RegisteredIsFound RemovedIsGone NoEmptyObject
SYMMETRY MCSymmetry
CHECK_DEADLOCK FALSE
