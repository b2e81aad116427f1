------------------------------ MODULE MCSendQueue ------------------------------
(* SendQueue for TLC: a TCP or a UDP socket, and a TCP socket only. *)
EXTENDS SendQueue

AnySocket == BOOLEAN
TcpSocket == {TRUE}
===============================================================================
