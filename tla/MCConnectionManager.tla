-------------------------- MODULE MCConnectionManager --------------------------
(***************************************************************************)
(* An instance of ConnectionManager in which one user has two WebSocket    *)
(* connections to one room: the old and the new one of a page reload.      *)
(***************************************************************************)
EXTENDS ConnectionManager, TLC

CONSTANTS old, new, ann, room

MCClients == {old, new}
MCUserOf == [c \in MCClients |-> ann]
MCRoomOf == [c \in MCClients |-> room]

\* Nothing tells the two connections apart.
MCSymmetry == Permutations(MCClients)
=============================================================================
