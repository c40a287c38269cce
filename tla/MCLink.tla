--------------------------------- MODULE MCLink ---------------------------------
(* Two clients of the WebSocket proxy; the sockets' servers have no client.    *)
EXTENDS Link

CONSTANTS w1, w2

MCHome == [c \in Client |-> "ws"]
=============================================================================
