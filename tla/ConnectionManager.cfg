CONSTANTS
    old = old
    new = new
    ann = ann
    room = room
    Clients <- MCClients
    Users = {ann}
    Rooms = {room}
    UserOf <- MCUserOf
    RoomOf <- MCRoomOf
    SSEClients = {}
SPECIFICATION Spec
INVARIANTS TypeOK SubscriberIsDeliverable RemovedIsGone
SYMMETRY MCSymmetry
CHECK_DEADLOCK FALSE
