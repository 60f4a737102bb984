--------------------------- MODULE ConnectionManager ---------------------------
(***************************************************************************)
(* ConnectionManager.Register and Unregister, run by the connection        *)
(* handlers of the WebSocket and the SSE server.  The manager keeps two    *)
(* indexes of the same clients, by user and by room; Register fills the    *)
(* user index first, Unregister empties it first.  Both are instances of   *)
(* SharedIndex, and the steps of different clients interleave freely.      *)
(*                                                                         *)
(* A WebSocket handler calls client.Start() BEFORE Register, so the read   *)
(* pump can close the connection, and run Unregister, before or while      *)
(* Register runs.  An SSE handler registers first and unregisters last.    *)
(***************************************************************************)
EXTENDS FiniteSets

CONSTANTS
    Clients, Users, Rooms,
    UserOf, RoomOf,             \* user and room of each connection
    SSEClients                  \* the other clients are WebSocket clients

ASSUME ManagerAssumption ==
    /\ UserOf \in [Clients -> Users]
    /\ RoomOf \in [Clients -> Rooms]
    /\ SSEClients \subseteq Clients
    /\ "nil" \notin Clients

VARIABLES
    conn,                       \* life of each connection
    uEntry, uMembers, uAdd, uAddRef, uRem, uRemRef, uRaced, uEarly,
    rEntry, rMembers, rAdd, rAddRef, rRem, rRemRef, rRaced, rEarly

userVars == <<uEntry, uMembers, uAdd, uAddRef, uRem, uRemRef, uRaced, uEarly>>
roomVars == <<rEntry, rMembers, rAdd, rAddRef, rRem, rRemRef, rRaced, rEarly>>
vars == <<conn, userVars, roomVars>>

ByUser == INSTANCE SharedIndex
            WITH Keys <- Users, KeyOf <- UserOf, Unstable <- SSEClients,
                 entry <- uEntry, members <- uMembers, add <- uAdd,
                 addRef <- uAddRef, rem <- uRem, remRef <- uRemRef,
                 raced <- uRaced, early <- uEarly

ByRoom == INSTANCE SharedIndex
            WITH Keys <- Rooms, KeyOf <- RoomOf, Unstable <- SSEClients,
                 entry <- rEntry, members <- rMembers, add <- rAdd,
                 addRef <- rAddRef, rem <- rRem, remRef <- rRemRef,
                 raced <- rRaced, early <- rEarly

\* Every connection the model speaks of was accepted: a WebSocket handler has
\* started the pumps, an SSE handler is about to call Register.
Init ==
    /\ conn = [c \in Clients |-> "open"]
    /\ ByUser!Init
    /\ ByRoom!Init

-----------------------------------------------------------------------------
\* client.Close (once) or, for SSE, the end of the handler: the peer went away,
\* the rate limit was exceeded, a write failed.
Close(c) ==
    /\ conn[c] = "open"
    /\ c \in SSEClients => rAdd[c] = "in"
    /\ conn' = [conn EXCEPT ![c] = "closed"]
    /\ UNCHANGED <<userVars, roomVars>>

\* Mutant: the room index is filled without waiting for the user index.
RegisterRoomFirst(c) ==
    /\ \/ (ByUser!LoadOrStore(c) \/ ByUser!Insert(c)) /\ UNCHANGED <<conn, roomVars>>
       \/ (ByRoom!LoadOrStore(c) \/ ByRoom!Insert(c)) /\ UNCHANGED <<conn, userVars>>

\* Register: LoadOrStore and insert for the user, then subscribeToRoom.
Register(c) ==
    /\ \/ (ByUser!LoadOrStore(c) \/ ByUser!Insert(c)) /\ UNCHANGED <<conn, roomVars>>
       \/ /\ uAdd[c] = "in"
          /\ ByRoom!LoadOrStore(c) \/ ByRoom!Insert(c)
          /\ UNCHANGED <<conn, userVars>>

\* Mutant: Unregister returns when the user is not in the user index.
UnregisterReturnsEarly(c) ==
    /\ conn[c] = "closed"
    /\ \/ /\ uEntry[UserOf[c]] # "nil" \/ uRem[c] # "no"
          /\ ByUser!Load(c) \/ ByUser!Delete(c) \/ ByUser!Drop(c)
          /\ UNCHANGED <<conn, roomVars>>
       \/ /\ uEntry[UserOf[c]] = "nil" /\ ByUser!Load(c)
          /\ rRem' = [rRem EXCEPT ![c] = "gone"]
          /\ UNCHANGED <<conn, rEntry, rMembers, rAdd, rAddRef, rRemRef, rRaced, rEarly>>
       \/ /\ uRem[c] = "gone"
          /\ ByRoom!Load(c) \/ ByRoom!Delete(c) \/ ByRoom!Drop(c)
          /\ UNCHANGED <<conn, userVars>>

\* Mutant: Unregister uses the object of the user index without the ok check.
UnregisterUnchecked(c) ==
    /\ conn[c] = "closed"
    /\ \/ /\ ByUser!LoadUnchecked(c) \/ ByUser!Delete(c) \/ ByUser!Drop(c)
          /\ UNCHANGED <<conn, roomVars>>
       \/ /\ uRem[c] = "gone"
          /\ ByRoom!Load(c) \/ ByRoom!Delete(c) \/ ByRoom!Drop(c)
          /\ UNCHANGED <<conn, userVars>>

\* Unregister: the user index, then unsubscribeFromRoom.
Unregister(c) ==
    /\ conn[c] = "closed"
    /\ \/ /\ ByUser!Load(c) \/ ByUser!Delete(c) \/ ByUser!Drop(c)
          /\ UNCHANGED <<conn, roomVars>>
       \/ /\ uRem[c] = "gone"
          /\ ByRoom!Load(c) \/ ByRoom!Delete(c) \/ ByRoom!Drop(c)
          /\ UNCHANGED <<conn, userVars>>

Next == \E c \in Clients : Close(c) \/ Register(c) \/ Unregister(c)

Spec == Init /\ [][Next]_vars

-----------------------------------------------------------------------------
(* Properties *)

\* The room index is what broadcasts read, the user index is where the delivery
\* worker looks the client up again.  Every open connection a broadcast finds is
\* found by the worker too, unless its registration raced with a removal of the
\* same user.
SubscriberIsDeliverable ==
    \A c \in Clients \ uRaced :
        conn[c] = "open" /\ ByRoom!Found(c) => ByUser!Found(c)

\* A WebSocket client closed after its registration is in neither index once
\* Unregister has returned.
RemovedIsGone == ByUser!RemovedIsGone /\ ByRoom!RemovedIsGone

\* Type correctness of the manager.
TypeOK ==
    /\ conn \in [Clients -> {"open", "closed"}]
    /\ ByUser!TypeOK
    /\ ByRoom!TypeOK

-----------------------------------------------------------------------------
(* What the documentation says of connections, and the code does not do *)

\* "Delivers to every room member connected via WS or SSE": a connection that
\* finished Register and is open is found by both lookups of a delivery.
ConnectedIsReached ==
    \A c \in Clients : conn[c] = "open" /\ rAdd[c] = "in" =>
                           ByUser!Found(c) /\ ByRoom!Found(c)
=============================================================================
