----------------------------- MODULE MCSharedIndex -----------------------------
(***************************************************************************)
(* One room, three WebSocket connections and an SSE connection: four       *)
(* registrations and four removals, in every order.                         *)
(***************************************************************************)
EXTENDS SharedIndex, TLC

CONSTANTS ws1, ws2, ws3, sse, room

MCClients == {ws1, ws2, ws3, sse}
MCKeyOf == [c \in MCClients |-> room]

\* The WebSocket connections are interchangeable.
MCSymmetry == Permutations({ws1, ws2, ws3})
=============================================================================
