--------------------------------- MODULE Rooms ---------------------------------
(***************************************************************************)
(* Rooms and their members: the row of the table, its copy in the cache,   *)
(* and the requests that create a room, join it or change its avatar.      *)
(*                                                                         *)
(* A join and a change of avatar read the whole row, from the cache if it  *)
(* has one, change one field of it and write the whole row back.  A read   *)
(* of the table fills the cache in a goroutine of its own, which is given  *)
(* the very object the request goes on to change: what it puts in the      *)
(* cache is the row as it was read, or the row as changed before it is     *)
(* written.  A room whose name starts with the id of another is a channel  *)
(* of it: who joins a room joins its channels too.                         *)
(*                                                                         *)
(* A row is the set of its members: the other fields decide nothing here,  *)
(* and a change of avatar is a write of the members it has read.           *)
(***************************************************************************)
EXTENDS Naturals, FiniteSets

CONSTANTS
    Users,
    RoomIds,
    ChannelsOf,     \* for each room the rooms its prefix finds
    RoomCalls,      \* requests under way at the same time
    MaxFills,       \* bound: goroutines that have still to fill the cache
    MaxRequests     \* bound: requests that create, join or change a room

ASSUME RoomAssumption ==
    ChannelsOf \in [RoomIds -> SUBSET RoomIds] /\ MaxFills \in Nat /\ MaxRequests \in Nat

VARIABLES
    roomTable,      \* rooms
    roomCache,      \* the keys room:<id>
    fills,          \* the rows goroutines have still to put in the cache
    late,           \* joins whose goroutine still shares the object they have read
    roomCall,       \* each request: where it is and what it has read
    requests,       \* how many requests there were
    joined,         \* history: joins answered with success since the room was created
    overwritten,    \* history: members lost to a write over a row it had not read
    everMember,     \* history: who has ever been in the row of the room
    unwritten       \* history: members named by a goroutine, and by no write since

roomStore   == <<roomTable, roomCache, fills, late>>
roomHistory == <<joined, overwritten, everMember, unwritten>>
roomVars    == <<roomStore, roomCall, requests, roomHistory>>

NoRoom == {}
Rows   == (SUBSET Users) \ {NoRoom}

RoomPC == {"check", "append", "write", "cache", "list", "channels", "channelCache"}
NoCall == [pc |-> "idle"]
Call(pc, user, avatar, home, room, row, todo) ==
    [pc |-> pc, user |-> user, avatar |-> avatar, home |-> home, room |-> room, row |-> row,
     todo |-> todo]

RoomInit ==
    /\ roomTable = [r \in RoomIds |-> NoRoom]
    /\ roomCache = [r \in RoomIds |-> NoRoom]
    /\ fills = {} /\ late = {}
    /\ roomCall = [c \in RoomCalls |-> NoCall]
    /\ requests = 0
    /\ joined = {} /\ overwritten = {}
    /\ everMember = [r \in RoomIds |-> {}]
    /\ unwritten = {}

NewRequest == requests < MaxRequests /\ requests' = requests + 1

Is(c, pc) == roomCall[c].pc = pc
Move(c, pc, room, row, todo) ==
    roomCall' = [roomCall EXCEPT ![c] = Call(pc, @.user, @.avatar, @.home, room, row, todo)]
Go(c, pc) == Move(c, pc, roomCall[c].room, roomCall[c].row, roomCall[c].todo)
End(c)    == roomCall' = [roomCall EXCEPT ![c] = NoCall]

-----------------------------------------------------------------------------
(* RoomService *)

\* The cache answers, or it has no row or an error and the table does.
GetRoom(r, row) ==
    \/ /\ roomCache[r] # NoRoom /\ row = roomCache[r]
       /\ UNCHANGED fills
    \/ /\ roomTable[r] # NoRoom /\ row = roomTable[r]
       /\ Cardinality(fills) < MaxFills
       /\ fills' = fills \cup {<<r, row>>}

\* The row as the statement writes it, over base, the row its request had read.
StoreRow(r, row, base) ==
    LET lost == {<<r, u>> : u \in roomTable[r] \ row}
    IN  /\ roomTable' = [roomTable EXCEPT ![r] = row]
        /\ everMember' = [everMember EXCEPT ![r] = @ \cup row]
        /\ overwritten' =
              (IF roomTable[r] = base THEN overwritten ELSE overwritten \cup lost)
                \ {<<r, u>> : u \in row}
        /\ unwritten' = unwritten \ {<<r, u>> : u \in row}

\* SaveRoom is an upsert: over an id that exists it replaces the members.
CreateRoom(r, members) ==
    /\ NewRequest
    /\ Cardinality(fills) < MaxFills
    /\ StoreRow(r, members, NoRoom)
    /\ joined' = {j \in joined : j[1] # r}
    /\ fills' = fills \cup {<<r, members>>}
    /\ UNCHANGED <<roomCache, late, roomCall>>

\* The goroutine of GetRoom or CreateRoom sets the key, or fails to.
FillCache ==
    \E f \in fills :
        /\ fills' = fills \ {f}
        /\ roomCache' \in {roomCache, [roomCache EXCEPT ![f[1]] = f[2]]}
        /\ UNCHANGED <<roomTable, late, roomCall, requests, roomHistory>>

\* The time to live of ten minutes is over.
ExpireRoom(r) ==
    /\ roomCache[r] # NoRoom
    /\ roomCache' = [roomCache EXCEPT ![r] = NoRoom]
    /\ UNCHANGED <<roomTable, fills, late, roomCall, requests, roomHistory>>

-----------------------------------------------------------------------------
(* handleJoinRoom and handleSetRoomAvatar *)

\* The goroutine of a read of the table may marshal the row before the request
\* changes it (a fill) or after (late).
Begin(c, u, r, avatar) ==
    /\ Is(c, "idle")
    /\ NewRequest
    /\ \E row \in {roomCache[r], roomTable[r]} :
           /\ \/ GetRoom(r, row) /\ UNCHANGED late
              \/ /\ ~avatar /\ roomTable[r] # NoRoom /\ row = roomTable[r]
                 /\ late' = late \cup {c} /\ UNCHANGED fills
           /\ roomCall' = [roomCall EXCEPT ![c] = Call("check", u, avatar, r, r, row, {})]
    /\ UNCHANGED <<roomTable, roomCache, roomHistory>>

\* IsRoomMember reads the room a second time; the row of the first read is the
\* one that will be written.  A read that fails counts as no member.
IsRoomMember(c) ==
    /\ Is(c, "check")
    /\ LET call == roomCall[c]
       IN  \/ \E row \in {roomCache[call.room], roomTable[call.room]} :
                  /\ GetRoom(call.room, row)
                  /\ CASE call.avatar /\ call.user \notin row -> End(c)
                       [] call.avatar /\ call.user \in row    -> Go(c, "write")
                       [] ~call.avatar /\ call.user \in row   -> Go(c, "list")
                       [] OTHER                              -> Go(c, "append")
           \/ /\ IF call.avatar THEN End(c) ELSE Go(c, "append")
              /\ UNCHANGED fills
    /\ late' = IF Is(c, "append")' THEN late ELSE late \ {c}
    /\ UNCHANGED <<roomTable, roomCache, requests, roomHistory>>

\* Mutant: the list of members becomes the one who joins.
ChangedAlone(c) ==
    IF roomCall[c].avatar THEN roomCall[c].row ELSE {roomCall[c].user}

Changed(c) ==
    roomCall[c].row \cup (IF roomCall[c].avatar THEN {} ELSE {roomCall[c].user})

\* The user is appended to the object in memory.  A goroutine that still shares it
\* will put the user in the cache, whatever becomes of the write, unless it fails.
AppendMember(c) ==
    /\ Is(c, "append")
    /\ Go(c, "write")
    /\ late' = late \ {c}
    /\ \/ /\ c \in late /\ Cardinality(fills) < MaxFills
          /\ fills' = fills \cup {<<roomCall[c].room, Changed(c)>>}
          /\ unwritten' = unwritten \cup {<<roomCall[c].room, roomCall[c].user>>}
       \/ UNCHANGED <<fills, unwritten>>
    /\ UNCHANGED <<roomTable, roomCache, requests, joined, overwritten, everMember>>

\* Mutant: the cache is written whether the table took the row or not.
UpdateCacheFirst(c) ==
    /\ Is(c, "write")
    /\ \/ StoreRow(roomCall[c].room, Changed(c), roomCall[c].row)
       \/ UNCHANGED <<roomTable, everMember, overwritten, unwritten>>
    /\ Move(c, "cache", roomCall[c].room, Changed(c), roomCall[c].todo)
    /\ UNCHANGED <<roomCache, fills, late, requests, joined>>

UpdateRoom(c) ==
    /\ Is(c, "write")
    /\ StoreRow(roomCall[c].room, Changed(c), roomCall[c].row)
    /\ Move(c, "cache", roomCall[c].room, Changed(c), roomCall[c].todo)
    /\ UNCHANGED <<roomCache, fills, late, requests, joined>>

SetRoom(c) ==
    /\ Is(c, "cache")
    /\ roomCache' = [roomCache EXCEPT ![roomCall[c].room] = roomCall[c].row]
    /\ IF roomCall[c].avatar THEN End(c) ELSE Go(c, "list")
    /\ UNCHANGED <<roomTable, fills, late, requests, roomHistory>>

\* The channels are read from the table, all before the first is written.
ListRoomsByNamePrefix(c) ==
    /\ Is(c, "list")
    /\ Move(c, "channels", roomCall[c].room, roomCall[c].row,
            {<<ch, roomTable[ch]>> : ch \in
                {r \in ChannelsOf[roomCall[c].home] :
                    roomTable[r] # NoRoom /\ roomCall[c].user \notin roomTable[r]}})
    /\ UNCHANGED <<roomStore, requests, roomHistory>>

\* UpdateRoom of one channel: its error is dropped.
UpdateChannel(c) ==
    /\ Is(c, "channels")
    /\ \E t \in roomCall[c].todo :
           LET row == t[2] \cup {roomCall[c].user}
           IN  \/ /\ StoreRow(t[1], row, t[2])
                  /\ Move(c, "channelCache", t[1], row, roomCall[c].todo \ {t})
               \/ /\ Move(c, "channels", roomCall[c].room, roomCall[c].row,
                          roomCall[c].todo \ {t})
                  /\ UNCHANGED <<roomTable, overwritten, everMember, unwritten>>
    /\ UNCHANGED <<roomCache, fills, late, requests, joined>>

SetChannel(c) ==
    /\ Is(c, "channelCache")
    /\ roomCache' \in {roomCache,
                       [roomCache EXCEPT ![roomCall[c].room] = roomCall[c].row]}
    /\ Go(c, "channels")
    /\ UNCHANGED <<roomTable, fills, late, requests, roomHistory>>

Answer(c) ==
    /\ Is(c, "channels") /\ roomCall[c].todo = {}
    /\ joined' = joined \cup {<<roomCall[c].home, roomCall[c].user>>}
    /\ End(c)
    /\ UNCHANGED <<roomStore, requests, overwritten, everMember, unwritten>>

\* A call of the request fails, or the process stops: what was written stays.
FailCall(c) ==
    /\ ~Is(c, "idle")
    /\ End(c)
    /\ late' = late \ {c}
    /\ UNCHANGED <<roomTable, roomCache, fills, requests, roomHistory>>

-----------------------------------------------------------------------------
CallStep(c) ==
    \/ IsRoomMember(c) \/ AppendMember(c) \/ UpdateRoom(c) \/ SetRoom(c)
    \/ ListRoomsByNamePrefix(c) \/ UpdateChannel(c) \/ SetChannel(c) \/ Answer(c)

RoomNext ==
    \/ \E r \in RoomIds :
           ExpireRoom(r) \/ \E members \in Rows : CreateRoom(r, members)
    \/ FillCache
    \/ \E c \in RoomCalls :
           \/ \E u \in Users, r \in RoomIds, avatar \in BOOLEAN : Begin(c, u, r, avatar)
           \/ CallStep(c) \/ FailCall(c)

RoomSpec == RoomInit /\ [][RoomNext]_roomVars

-----------------------------------------------------------------------------
(* Properties *)

RoomTypeOK ==
    /\ roomTable \in [RoomIds -> SUBSET Users] /\ roomCache \in [RoomIds -> SUBSET Users]
    /\ fills \subseteq RoomIds \X Rows /\ late \subseteq RoomCalls
    /\ roomCall \in [RoomCalls -> {NoCall} \cup
          [pc : RoomPC, user : Users, avatar : BOOLEAN, home : RoomIds, room : RoomIds,
           row : Rows, todo : SUBSET (RoomIds \X Rows)]]
    /\ joined \subseteq RoomIds \X Users /\ overwritten \subseteq RoomIds \X Users
    /\ everMember \in [RoomIds -> SUBSET Users] /\ unwritten \subseteq RoomIds \X Users
    /\ requests \in 0..MaxRequests

\* The cache, from which IsRoomMember answers for every connection and message,
\* admits nobody who was never in the row of the room: not after a write that
\* failed, and not through a goroutine that fills the cache late, but for the one
\* user a goroutine names that shared the object of a join.
known == [r \in RoomIds |-> everMember[r] \cup {u \in Users : <<r, u>> \in unwritten}]
AdmittedWasMember == \A r \in RoomIds : roomCache[r] \subseteq known[r]

\* Who joined with success is a member, or was lost to a request that wrote over
\* a row it had not read, or was found in the cache before any row held the user;
\* joins that do not overlap and do not fail, the caching included, add up.
JoinsAddUp ==
    \A j \in joined : j[2] \in roomTable[j[1]] \/ j \in overwritten \cup unwritten

\* docs/API.md: to join a room is to gain membership of it.
JoinedIsMember == \A j \in joined : j[2] \in roomTable[j[1]]
=============================================================================
