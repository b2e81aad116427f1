------------------------------ MODULE MCSocketIo ------------------------------
(* SocketIo for TLC: no limit, no waiting, and limits of one and two ms. *)
EXTENDS SocketIo

AllTimeouts == {-1, 0, 1, 2}
===============================================================================
