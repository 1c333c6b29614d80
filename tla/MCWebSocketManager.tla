------------------------- MODULE MCWebSocketManager -------------------------
(***************************************************************************)
(* Instance of WebSocketManager for TLC: two topics with names of their    *)
(* own on the wire, of which the trader's orders are private.              *)
(***************************************************************************)
EXTENDS WebSocketManager

CONSTANTS orders, book

MCTopics == {orders, book}
MCPrivate == {orders}
MCLimits == {0, 1}
MCWireOf == [k \in MCTopics |-> k]
=============================================================================
