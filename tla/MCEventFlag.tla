---------------------------- MODULE MCEventFlag ----------------------------
(* One flag of two bits; the boot thread and two others over the idle      *)
(* thread; waits for one bit, and for both bits with a clear.              *)
EXTENDS EventFlag

CONSTANTS e1, b1, b2

Flags == {e1}
Bits == {b1, b2}
SomeNeeds ==
    {[bits |-> {b1}, any |-> TRUE, clear |-> FALSE],
     [bits |-> {b1, b2}, any |-> FALSE, clear |-> TRUE]}
=============================================================================
