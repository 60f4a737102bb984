------------------------ MODULE ConnectionManagerProofs ------------------------
(***************************************************************************)
(* The connection manager uses both of its indexes only through the steps  *)
(* of SharedIndex, so what is proved of one index holds for the users and  *)
(* for the rooms.                                                          *)
(***************************************************************************)
EXTENDS ConnectionManager, TLAPS

UserIndex == INSTANCE SharedIndexProofs
               WITH Keys <- Users, KeyOf <- UserOf, Unstable <- SSEClients,
                    entry <- uEntry, members <- uMembers, add <- uAdd,
                    addRef <- uAddRef, rem <- uRem, remRef <- uRemRef,
                    raced <- uRaced, early <- uEarly

RoomIndex == INSTANCE SharedIndexProofs
               WITH Keys <- Rooms, KeyOf <- RoomOf, Unstable <- SSEClients,
                    entry <- rEntry, members <- rMembers, add <- rAdd,
                    addRef <- rAddRef, rem <- rRem, remRef <- rRemRef,
                    raced <- rRaced, early <- rEarly

\* The assumption of SharedIndex holds of both indexes.
LEMMA IndexAssumptions == UserIndex!IndexAssumption /\ RoomIndex!IndexAssumption
    BY ManagerAssumption DEF UserIndex!IndexAssumption, RoomIndex!IndexAssumption,
                             UserIndex!Nil, RoomIndex!Nil

\* Every step of the manager is a step of the user index or leaves it alone.
THEOREM ImplementsUserIndex == Spec => UserIndex!Spec
<1>1. Init => UserIndex!Init
    BY DEF Init, ByUser!Init, UserIndex!Init, ByUser!Nil, UserIndex!Nil
<1>2. [Next]_vars => [UserIndex!Next]_(UserIndex!indexVars)
    BY DEF Next, vars, Close, Register, Unregister, userVars,
           UserIndex!Next, UserIndex!indexVars,
           ByUser!LoadOrStore, ByUser!Insert, ByUser!Load, ByUser!Delete,
           ByUser!Drop, ByUser!Peers, ByUser!Nil,
           UserIndex!LoadOrStore, UserIndex!Insert, UserIndex!Load,
           UserIndex!Delete, UserIndex!Drop, UserIndex!Peers, UserIndex!Nil
<1>3. QED  BY <1>1, <1>2, PTL DEF Spec, UserIndex!Spec

\* Every step of the manager is a step of the room index or leaves it alone.
THEOREM ImplementsRoomIndex == Spec => RoomIndex!Spec
<1>1. Init => RoomIndex!Init
    BY DEF Init, ByRoom!Init, RoomIndex!Init, ByRoom!Nil, RoomIndex!Nil
<1>2. [Next]_vars => [RoomIndex!Next]_(RoomIndex!indexVars)
    BY DEF Next, vars, Close, Register, Unregister, roomVars,
           RoomIndex!Next, RoomIndex!indexVars,
           ByRoom!LoadOrStore, ByRoom!Insert, ByRoom!Load, ByRoom!Delete,
           ByRoom!Drop, ByRoom!Peers, ByRoom!Nil,
           RoomIndex!LoadOrStore, RoomIndex!Insert, RoomIndex!Load,
           RoomIndex!Delete, RoomIndex!Drop, RoomIndex!Peers, RoomIndex!Nil
<1>3. QED  BY <1>1, <1>2, PTL DEF Spec, RoomIndex!Spec

\* A WebSocket client that was closed after its registration is in neither index
\* once Unregister has returned.
THEOREM UnregisterIsFinal == Spec => []RemovedIsGone
<1>1. UserIndex!Spec => []UserIndex!RemovedIsGone
    BY IndexAssumptions, UserIndex!RemovalIsFinal
<1>2. RoomIndex!Spec => []RoomIndex!RemovedIsGone
    BY IndexAssumptions, RoomIndex!RemovalIsFinal
<1>3. UserIndex!RemovedIsGone /\ RoomIndex!RemovedIsGone => RemovedIsGone
    BY DEF RemovedIsGone, ByUser!RemovedIsGone, ByUser!Found, ByUser!Reachable,
           ByUser!Nil, ByRoom!RemovedIsGone, ByRoom!Found, ByRoom!Reachable,
           ByRoom!Nil, UserIndex!RemovedIsGone, UserIndex!Found,
           UserIndex!Reachable, UserIndex!Nil, RoomIndex!RemovedIsGone,
           RoomIndex!Found, RoomIndex!Reachable, RoomIndex!Nil
<1>4. QED
    BY <1>1, <1>2, <1>3, ImplementsUserIndex, ImplementsRoomIndex, PTL

-----------------------------------------------------------------------------
(* The order Register and Unregister keep between the two indexes *)

\* The room index is filled after the user index, and nothing is removed from
\* either before the connection has closed.
RegisteredInOrder ==
    \A c \in Clients :
        /\ rAdd[c] # "out" => uAdd[c] = "in"
        /\ uRem[c] # "no" => conn[c] = "closed"

ManagerInv == conn \in [Clients -> {"open", "closed"}] /\ RegisteredInOrder

\* What a step of Register keeps of where a client is.
LEMMA RegisteringKeepsOrder ==
    ASSUME UserIndex!TypeOK, RoomIndex!TypeOK, ManagerInv, NEW c \in Clients, Register(c)
    PROVE  ManagerInv'
<1>1. UNCHANGED <<conn, uRem>>
    BY DEF Register, userVars, ByUser!LoadOrStore, ByUser!Insert
<1>2. CASE (ByUser!LoadOrStore(c) \/ ByUser!Insert(c)) /\ UNCHANGED <<conn, roomVars>>
    BY <1>1, <1>2 DEF UserIndex!TypeOK, ManagerInv, RegisteredInOrder, roomVars,
                      ByUser!LoadOrStore, ByUser!Insert
<1>3. CASE uAdd[c] = "in" /\ (ByRoom!LoadOrStore(c) \/ ByRoom!Insert(c))
              /\ UNCHANGED <<conn, userVars>>
    BY <1>1, <1>3 DEF RoomIndex!TypeOK, ManagerInv, RegisteredInOrder, userVars,
                      ByRoom!LoadOrStore, ByRoom!Insert
<1>4. QED  BY <1>2, <1>3 DEF Register

\* Unregister runs for a closed connection only.
LEMMA RemovingKeepsOrder ==
    ASSUME UserIndex!TypeOK, RoomIndex!TypeOK, ManagerInv, NEW c \in Clients, Unregister(c)
    PROVE  ManagerInv'
<1>1. conn[c] = "closed" /\ UNCHANGED <<conn, uAdd, rAdd>>
    BY DEF Unregister, userVars, roomVars, ByUser!Load, ByUser!Delete, ByUser!Drop,
           ByRoom!Load, ByRoom!Delete, ByRoom!Drop
<1>2. \A d \in Clients \ {c} : uRem'[d] = uRem[d]
    BY DEF Unregister, userVars, UserIndex!TypeOK, ByUser!Load, ByUser!Delete, ByUser!Drop
<1>3. QED  BY <1>1, <1>2 DEF ManagerInv, RegisteredInOrder

\* ManagerInv holds of every reachable state.
THEOREM ManagerInvariant == Spec => []ManagerInv
<1>1. Init => ManagerInv
    BY DEF Init, ManagerInv, RegisteredInOrder, ByUser!Init, ByRoom!Init
<1>2. UserIndex!TypeOK /\ RoomIndex!TypeOK /\ ManagerInv /\ [Next]_vars => ManagerInv'
    <2> SUFFICES ASSUME UserIndex!TypeOK, RoomIndex!TypeOK, ManagerInv, [Next]_vars
                 PROVE  ManagerInv'
        OBVIOUS
    <2>1. ASSUME NEW c \in Clients, Close(c)  PROVE ManagerInv'
        BY <2>1 DEF Close, ManagerInv, RegisteredInOrder, userVars, roomVars
    <2>2. CASE UNCHANGED vars
        BY <2>2 DEF vars, userVars, roomVars, ManagerInv, RegisteredInOrder
    <2>3. QED  BY <2>1, <2>2, RegisteringKeepsOrder, RemovingKeepsOrder DEF Next
<1>3. UserIndex!Spec => []UserIndex!TypeOK
    BY IndexAssumptions, UserIndex!IndexTypeCorrect
<1>4. RoomIndex!Spec => []RoomIndex!TypeOK
    BY IndexAssumptions, RoomIndex!IndexTypeCorrect
<1>5. QED
    BY <1>1, <1>2, <1>3, <1>4, ImplementsUserIndex, ImplementsRoomIndex, PTL DEF Spec

\* Type correctness of the manager and of both its indexes.
THEOREM ManagerTypeCorrect == Spec => []TypeOK
<1>1. UserIndex!Spec => []UserIndex!TypeOK
    BY IndexAssumptions, UserIndex!IndexTypeCorrect
<1>2. RoomIndex!Spec => []RoomIndex!TypeOK
    BY IndexAssumptions, RoomIndex!IndexTypeCorrect
<1>3. ManagerInv /\ UserIndex!TypeOK /\ RoomIndex!TypeOK => TypeOK
    BY DEF ManagerInv, TypeOK, ByUser!TypeOK, ByUser!Nil, ByUser!AddPC, ByUser!RemPC,
           ByRoom!TypeOK, ByRoom!Nil, ByRoom!AddPC, ByRoom!RemPC,
           UserIndex!TypeOK, UserIndex!Nil, UserIndex!AddPC, UserIndex!RemPC,
           RoomIndex!TypeOK, RoomIndex!Nil, RoomIndex!AddPC, RoomIndex!RemPC
<1>4. QED
    BY <1>1, <1>2, <1>3, ManagerInvariant, ImplementsUserIndex, ImplementsRoomIndex, PTL

\* An open connection a broadcast finds in the room index is found in the user
\* index by the delivery worker, unless its registration raced with a removal.
THEOREM BroadcastFindsDeliverable == Spec => []SubscriberIsDeliverable
<1>1. UserIndex!Spec => []UserIndex!RegisteredIsFound
    BY IndexAssumptions, UserIndex!RegistrationIsKept
<1>2. RoomIndex!Spec => []RoomIndex!IndexInv
    BY IndexAssumptions, RoomIndex!IndexInvariant
<1>3. ManagerInv /\ UserIndex!RegisteredIsFound /\ RoomIndex!IndexInv
        => SubscriberIsDeliverable
    <2> SUFFICES ASSUME ManagerInv, UserIndex!RegisteredIsFound, RoomIndex!IndexInv,
                        NEW c \in Clients \ uRaced, conn[c] = "open", ByRoom!Found(c)
                 PROVE  ByUser!Found(c)
        BY DEF SubscriberIsDeliverable
    <2>1. rAdd[c] = "in"
        <3>1. RoomOf[c] \in Rooms
            BY ManagerAssumption
        <3>2. rEntry[RoomOf[c]] \in Clients /\ c \in rMembers[rEntry[RoomOf[c]]]
            BY <3>1 DEF ByRoom!Found, ByRoom!Reachable, ByRoom!Nil,
                        RoomIndex!IndexInv, RoomIndex!TypeOK, RoomIndex!Nil
        <3>3. QED  BY <3>2 DEF RoomIndex!IndexInv, RoomIndex!Placed
    <2>2. uAdd[c] = "in" /\ uRem[c] = "no"
        BY <2>1 DEF ManagerInv, RegisteredInOrder
    <2>3. UserIndex!Found(c)
        BY <2>2 DEF UserIndex!RegisteredIsFound
    <2>4. QED
        BY <2>3 DEF UserIndex!Found, UserIndex!Reachable, UserIndex!Nil,
                    ByUser!Found, ByUser!Reachable, ByUser!Nil
<1>4. QED
    BY <1>1, <1>2, <1>3, ManagerInvariant, ImplementsUserIndex, ImplementsRoomIndex, PTL
=============================================================================
