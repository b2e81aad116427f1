--------------------------------- MODULE MCTls ---------------------------------
(* Tls for TLC: handshakes of three flights (TLS 1.3) and of four (TLS 1.2),     *)
(* between two drivers, two threads or a thread and a driver.                    *)
EXTENDS Tls

ShortHandshake == {<<1, 1, 1>>}
BothHandshakes == {<<1, 3, 1>>, <<1, 1, 1, 1>>}
Use(client, server) == [e \in Ends |-> IF e = "client" THEN client ELSE server]
Threads == {Use("sync", "sync")}
AllPairings == {Use("async", "async"), Use("sync", "sync"), Use("sync", "async")}
===============================================================================
