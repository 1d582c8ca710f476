------------------------------ MODULE MCSifRpc ------------------------------
(* One client, as sifclient.cpp, two servers on one queue, as some of      *)
(* CDVDFSV's, and a module that sends commands through the same ring.      *)
EXTENDS SifRpc

CONSTANTS s1, s2, q1

TwoServers == {s1, s2}
Owners == [s \in TwoServers |-> q1]

Abstract == INSTANCE SifRpcAbs WITH
    Kind <- {"File", "Init", "Bind", "Call"},
    asked <- [c \in Client |-> want[c].kind], runs <- ran

(* Every call's function runs once, before the answer, and every request   *)
(* is answered: no wake-up is lost between the loop's look and its sleep.  *)
ImplementsRpc == Abstract!AbsSpec
=============================================================================
