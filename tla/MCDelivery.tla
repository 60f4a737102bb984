------------------------------- MODULE MCDelivery -------------------------------
(***************************************************************************)
(* An instance of Delivery: one message to a room with two WebSocket       *)
(* connections of one user and an SSE connection of another.               *)
(***************************************************************************)
EXTENDS Delivery, TLC

CONSTANTS phone, laptop, browser, ann, bob, m1, w1, w2

MCUserOf == [c \in Clients |-> IF c = browser THEN bob ELSE ann]
=============================================================================
